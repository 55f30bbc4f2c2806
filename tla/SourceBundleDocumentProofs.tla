---------------------- MODULE SourceBundleDocumentProofs ----------------------
(***************************************************************************)
(* A source bundle, for any number of clients, operations and requests,    *)
(* edits and faults.                                                       *)
(*                                                                         *)
(* The invariant follows an operation from its dispatch to its last        *)
(* effect.  ChainInv and SlotInv: it has one place in the chain and one    *)
(* request in the serve process, and when the request outlives the place,  *)
(* the answer was UNKNOWN.  LandedInv: what has taken effect, or still     *)
(* may, is never answered by a refusal.  ClientInv: a client has one       *)
(* operation at a time, its last.  WriteInv: what is written was captured  *)
(* as the operation expects it, over a body that the native action had.    *)
(* WaitersInv and KindsInv: who waits is in the chain, which can go on.    *)
(* ResultInv: a code that reports a failure behind the write is true of    *)
(* it, and a late commit was not carried out before, nor reported as       *)
(* failed: with LandedInv this makes the bundle an implementation of       *)
(* WriteResults.  VersionsInv: no two commits change the action from the   *)
(* same version, which is what keeps an unconfirmed one from being done    *)
(* twice where its client is not blocked.                                  *)
(***************************************************************************)
EXTENDS SourceBundleDocument, TLAPS

KindAt == [inspect |-> "inspect", write |-> "save", validate |-> "validate",
           commit |-> "commit", readback |-> "inspect"]

Waited(h) == \E i \in DOMAIN chain : chain[i].h = h

\* The chain: only its first operation has a request, whose kind says how far it is.
ChainInv ==
  /\ \A i, j \in DOMAIN chain : chain[i].op = chain[j].op => i = j
  /\ \A i \in DOMAIN chain :
       /\ ops[chain[i].op].code = "none"
       /\ chain[i].step = "queued" <=> chain[i].h = 0
       /\ chain[i].step = "queued" => \A h \in Slots : work[h].op # chain[i].op
       /\ chain[i].step # "queued" =>
            /\ i = 1
            /\ work[chain[i].h].pc # "free" /\ work[chain[i].h].op = chain[i].op
            /\ work[chain[i].h].kind = KindAt[chain[i].step]
       /\ chain[i].step = "write" => ops[chain[i].op].kind = "save"
       /\ chain[i].step \in {"validate", "commit", "readback"} => ops[chain[i].op].kind = "sync"

\* The serve process: one request per operation; one that nobody waits for
\* belongs to an operation whose answer was UNKNOWN.
SlotInv ==
  /\ \A g, h \in Slots : work[g].op = work[h].op /\ work[h].op # 0 => g = h
  /\ \A h \in Slots :
       /\ work[h].pc = "free" => work[h] = Idle
       /\ work[h].pc # "free" => work[h].op \in OpIds
       /\ work[h].pc # "free" /\ ~Waited(h) => work[h].pc # "done" /\ ops[work[h].op].code = "UNKNOWN"
       /\ work[h].kind = "save" => ops[work[h].op].kind = "save"
       /\ work[h].kind \in {"validate", "commit"} => ops[work[h].op].kind = "sync"
       /\ work[h].pc \in {"compare", "move", "after"} => work[h].kind = "save"
       /\ work[h].pc \in {"managed", "sent", "acked", "identity"} => work[h].kind = "commit"

\* What is in the native action, or on the disk, when a request gets there.
NativeAt(version, body) == version \in 1 .. Len(native) /\ native[version] = body

WriteInv ==
  /\ \A g, h \in Slots : Holds(g) /\ Holds(h) => g = h
  /\ \A h \in Slots :
       /\ work[h].pc \in {"compare", "move", "after", "managed", "sent", "acked", "identity"}
            => work[h].cap = ops[work[h].op].expected
       /\ work[h].pc = "move" => /\ Managed(disk) = Managed(work[h].cap)
                                 /\ work[h].raced \/ disk.source = work[h].cap.source
       /\ work[h].pc \in {"managed", "sent"} => NativeAt(work[h].cap.base.version, work[h].cap.base.body)
       /\ work[h].pc = "acked" => NativeAt(NextVersion(work[h].cap), Body(work[h].cap))
  /\ \A r \in pipe : /\ r.version = ops[r.op].expected.base.version
                     /\ r.body = Body(ops[r.op].expected)
                     /\ NativeAt(r.version, ops[r.op].expected.base.body)

\* Operations that have taken effect, or still may without a request.
Landed == moved \cup committed \cup {r.op : r \in pipe}

LandedInv ==
  /\ \A o \in moved : ops[o].kind = "save"
  /\ \A o \in committed : ops[o].kind = "sync"
  /\ \A r \in pipe : ops[r.op].kind = "sync"
  /\ \A i \in DOMAIN chain :
       /\ chain[i].step \in {"queued", "inspect", "validate"} => chain[i].op \notin Landed
       /\ chain[i].step = "readback" => chain[i].op \in committed
  /\ \A h \in Slots :
       /\ work[h].kind = "save" /\ work[h].op \in Landed =>
            work[h].pc = "after" \/ (work[h].pc = "done" /\ Meaning("save", work[h].reply.code) \notin Refusals)
       /\ work[h].kind = "commit" /\ work[h].op \in Landed =>
            work[h].pc \in {"acked", "identity"}
              \/ (work[h].pc = "done" /\ Meaning("commit", work[h].reply.code) \notin Refusals)
       /\ work[h].pc \in {"acked", "identity"} => work[h].op \in committed
       /\ work[h].pc = "after" \/ (work[h].pc = "done" /\ work[h].kind = "save" /\ work[h].reply.code = "ok") =>
            work[h].op \in moved \/ ops[work[h].op].text = ops[work[h].op].expected.source
       /\ work[h].pc = "done" /\ work[h].kind = "commit" /\ work[h].reply.code = "ok" => work[h].op \in committed

\* Each kind of operation has its own unconfirmed answers.
CodesInv ==
  /\ \A o \in OpIds :
       /\ ops[o].code \in Refusals => o \notin Landed
       /\ ops[o].code = "PARTIAL" => ops[o].kind = "save"
       /\ ops[o].code \in {"CHECKPOINT", "READBACK"} => ops[o].kind = "sync"
  /\ \A h \in Slots :
       /\ work[h].reply.code = "PARTIAL" => work[h].kind = "save"
       /\ work[h].reply.code = "CHECKPOINT" => work[h].kind = "commit"
       /\ work[h].reply.code # "READBACK"
       /\ work[h].pc = "done" => work[h].reply.code # "none"

\* The unconfirmed answers after which a client is blocked, or closed.
Doubtful == {"UNKNOWN", "PARTIAL", "CHECKPOINT", "READBACK"}
Writing(c) == client[c].st = "open" /\ client[c].owns /\ ~client[c].blocked

\* A client's operation is its last one; after a doubtful answer it never writes again.
ClientInv ==
  /\ \A i \in DOMAIN chain : LET c == ops[chain[i].op].client
                             IN  client[c].op = chain[i].op /\ client[c].reply.code = "none"
  /\ \A c \in Clients :
       /\ client[c].op # 0 => /\ client[c].op \in OpIds /\ ops[client[c].op].client = c
                              /\ \A p \in OpIds : ops[p].client = c => p <= client[c].op
       /\ client[c].reply.code # "none" => client[c].op # 0 /\ ops[client[c].op].code = client[c].reply.code
       /\ client[c].st = "new" => client[c].op = 0 /\ \A p \in OpIds : ops[p].client # c
       /\ \A p \in OpIds : ops[p].client = c /\ p # client[c].op /\ ops[p].code \in Doubtful => ~Writing(c)

NothingAfterDoubt ==
  \A o, p \in OpIds : o < p /\ ops[o].client = ops[p].client => ops[o].code \notin Doubtful

\* AnswersAreTrue without the answers that report a failure behind the write.
CodesAreTrue ==
  \A o \in OpIds :
    /\ ops[o].code \in Refusals => o \notin moved \cup committed
    /\ ops[o].code = "ok" /\ ops[o].kind = "sync" => o \in committed
    /\ ops[o].code = "ok" /\ ops[o].kind = "save" => o \in moved \/ ops[o].text = ops[o].expected.source

IInv == /\ TypeOK /\ ChainInv /\ SlotInv /\ WriteInv /\ LandedInv /\ CodesInv /\ ClientInv
        /\ BaselineWasNative /\ CodesAreTrue /\ NothingAfterDoubt

-----------------------------------------------------------------------------
(* Types.                                                                  *)

Items == [op : OpIds, h : Slots \cup {0},
          step : {"queued", "inspect", "write", "validate", "commit", "readback"}]
ClientStates == [st : {"new", "opening", "open", "closed"}, owns : BOOLEAN, blocked : BOOLEAN,
                 doc : Snapshots, op : 0 .. MaxOps, reply : Replies]
Operations == [client : Clients, kind : {"open", "save", "sync"}, expected : Snapshots, text : Texts,
               code : Codes \cup {"none"}]
SlotStates == [op : 0 .. MaxOps, kind : {"none", "inspect", "save", "validate", "commit"},
               pc : {"free", "start", "compare", "move", "after", "managed", "sent", "acked",
                     "identity", "done"},
               cap : Snapshots, raced : BOOLEAN, reply : Replies]
Commitments == [op : OpIds, version : Nat, body : Bodies]

Typed ==
  /\ disk \in Snapshots /\ native \in Seq(Bodies) /\ pipe \in SUBSET Commitments
  /\ lease \in Clients \cup {NoClient} /\ client \in [Clients -> ClientStates]
  /\ chain \in Seq(Items) /\ ops \in Seq(Operations) /\ work \in [Slots -> SlotStates]
  /\ moved \subseteq OpIds /\ committed \subseteq OpIds
  /\ edits \in 0 .. MaxEdits /\ faults \in 0 .. MaxFaults

LEMMA Types == (TypeOK <=> Typed) /\ (Typed' => TypeOK')
  BY DEF TypeOK, Typed, Commitments, ClientStates, Items, Operations, SlotStates

LEMMA Elements ==
  ASSUME Typed
  PROVE  /\ \A i \in DOMAIN chain : chain[i] \in Items /\ chain[i].op \in OpIds
         /\ \A o \in OpIds : /\ ops[o] \in Operations /\ ops[o].client \in Clients
                             /\ ops[o].kind \in {"open", "save", "sync"}
         /\ \A r \in pipe : r.op \in OpIds
<1>1. \A i \in DOMAIN chain : chain[i] \in Items
  BY DEF Typed
<1>2. DOMAIN ops = OpIds
  BY DEF Typed, OpIds
<1>3. \A o \in OpIds : ops[o] \in Operations
  BY <1>2 DEF Typed
<1> QED BY <1>1, <1>3 DEF Items, Operations, Typed, Commitments

LEMMA FirstSnapshotIsOne ==
  /\ FirstSnapshot \in Snapshots /\ NoReply \in Replies /\ Idle \in SlotStates
  /\ \A code \in Codes : Reply(code) \in Replies
  /\ \A doc \in Snapshots : Receipt(doc) \in Replies
<1>1. FirstSnapshot \in Snapshots
  BY DocumentAssumption DEF FirstSnapshot, Snapshots, Bodies
<1>2. NoReply \in Replies /\ \A code \in Codes : Reply(code) \in Replies
  BY <1>1 DEF NoReply, Reply, Replies
<1>3. \A doc \in Snapshots : Receipt(doc) \in Replies
  BY DEF Receipt, Replies, Codes
<1>4. Idle \in SlotStates
  BY <1>1, <1>2, DocumentAssumption DEF Idle, SlotStates
<1> QED BY <1>1, <1>2, <1>3, <1>4

LEMMA InitHolds == Init => IInv
<1> SUFFICES ASSUME Init PROVE IInv
  OBVIOUS
<1> USE DEF Init
<1>1. \A h \in Slots : work[h] = Idle
  OBVIOUS
<1>2. OpIds = {} /\ DOMAIN chain = {}
  BY DEF OpIds
<1>3. TypeOK
  <2>1. native \in Seq(Bodies)
    BY DocumentAssumption DEF Body, FirstSnapshot, Bodies
  <2>2. client \in [Clients -> ClientStates]
    BY FirstSnapshotIsOne, DocumentAssumption DEF ClientStates
  <2>3. work \in [Slots -> SlotStates]
    BY FirstSnapshotIsOne
  <2>4. 0 \in 0 .. MaxEdits /\ 0 \in 0 .. MaxFaults
    BY DocumentAssumption
  <2>5. chain \in Seq(Items) /\ ops \in Seq(Operations)
    OBVIOUS
  <2>6. Typed
    BY <2>1, <2>2, <2>3, <2>4, <2>5, FirstSnapshotIsOne DEF Typed
  <2> QED BY <2>6, Types
<1>4. ChainInv /\ SlotInv
  BY <1>1, <1>2 DEF ChainInv, SlotInv, Idle
<1>5. WriteInv /\ LandedInv /\ CodesInv
  BY <1>1, <1>2 DEF WriteInv, LandedInv, CodesInv, Holds, Landed, Idle, NoReply
<1>6. ClientInv
  BY <1>2 DEF ClientInv, NoReply
<1>7. BaselineWasNative
  BY <1>3 DEF BaselineWasNative, FirstSnapshot, Body
<1>8. CodesAreTrue /\ NothingAfterDoubt
  BY <1>2 DEF CodesAreTrue, NothingAfterDoubt
<1> QED BY <1>3, <1>4, <1>5, <1>6, <1>7, <1>8 DEF IInv

-----------------------------------------------------------------------------
(* Steps of a client, and of the lease, beside its operations.             *)

LEMMA ClientStep ==
  ASSUME IInv, UNCHANGED <<disk, hostVars, chain, ops, work, moved>>,
         lease' \in Clients \cup {NoClient}, client' \in [Clients -> ClientStates],
         edits' \in 0 .. MaxEdits, faults' \in 0 .. MaxFaults, ClientInv'
  PROVE  IInv'
<1> USE DEF IInv, hostVars
<1>1. TypeOK'
  <2>1. Typed'
    BY Types DEF Typed, Commitments, Items, OpIds
  <2> QED BY <2>1, Types
<1>2. ChainInv' /\ SlotInv'
  BY DEF ChainInv, SlotInv, Waited, OpIds
<1>3. WriteInv'
  BY DEF WriteInv, Holds, NativeAt
<1>4. LandedInv' /\ CodesInv'
  BY DEF LandedInv, CodesInv, Landed, OpIds
<1>5. BaselineWasNative' /\ CodesAreTrue' /\ NothingAfterDoubt'
  BY <1>1 DEF BaselineWasNative, CodesAreTrue, NothingAfterDoubt, OpIds
<1> QED BY <1>1, <1>2, <1>3, <1>4, <1>5

(* Only doubtful answers block: a client that may still write after its     *)
(* answer had one that is not.                                              *)
LEMMA ReceivePreserves ==
  ASSUME IInv, NEW c \in Clients, receive(c)
  PROVE  IInv'
<1> DEFINE r == client[c].reply
           o == client[c].op
           kind == ops[o].kind
           free == [client[c] EXCEPT !.op = 0, !.reply = NoReply]
           n == CASE client[c].st = "closed" -> free
                  [] kind = "open" /\ r.code = "ok" ->
                       [free EXCEPT !.st = "open", !.owns = TRUE, !.blocked = FALSE, !.doc = r.doc]
                  [] kind = "open" /\ r.code # "ok" -> [free EXCEPT !.st = "closed"]
                  [] kind # "open" /\ ~client[c].owns -> free
                  [] kind # "open" /\ client[c].owns /\ r.code = "ok" ->
                       [free EXCEPT !.doc = r.doc,
                                    !.blocked = kind = "sync" /\ Body(client[c].doc) # Body(r.doc)]
                  [] OTHER -> [free EXCEPT !.blocked = @ \/ Blocks(kind, r.code)]
<1> USE DEF IInv
<1>1. Typed /\ client[c] \in ClientStates
  BY Types DEF Typed
<1>2. /\ r.code # "none" /\ client' = [client EXCEPT ![c] = n]
      /\ UNCHANGED <<disk, hostVars, nodeVars, work, moved, counts>>
  BY DEF receive
<1>3. /\ o \in OpIds /\ ops[o].client = c /\ ops[o].code = r.code
      /\ \A p \in OpIds : ops[p].client = c => p <= o
  BY <1>2 DEF ClientInv
<1>4. /\ free \in ClientStates /\ free.op = 0 /\ free.reply = NoReply
      /\ free.st = client[c].st /\ free.owns = client[c].owns /\ free.blocked = client[c].blocked
  <2>1. NoReply \in Replies /\ 0 \in 0 .. MaxOps
    BY FirstSnapshotIsOne, DocumentAssumption
  <2> QED BY <1>1, <2>1 DEF ClientStates
<1>5. client[c].st # "new"
  BY <1>2 DEF ClientInv
<1>6. r \in Replies /\ kind \in {"open", "save", "sync"}
  BY <1>1, <1>3, Elements DEF ClientStates
<1>7. n \in ClientStates /\ n.op = 0 /\ n.reply = NoReply /\ n.st # "new"
  <2> HIDE DEF free, kind, r
  <2>1. r.doc \in Snapshots /\ (kind = "sync" /\ Body(client[c].doc) # Body(r.doc)) \in BOOLEAN
    BY <1>6 DEF Replies
  <2>2. (free.blocked \/ Blocks(kind, r.code)) \in BOOLEAN
    OBVIOUS
  <2> QED BY <1>4, <1>5, <2>1, <2>2 DEF ClientStates
<1>8. n.st = "open" /\ n.owns /\ ~n.blocked => r.code = "ok" \/ (kind # "open" /\ ~Blocks(kind, r.code))
  <2> HIDE DEF free, kind, r
  <2> QED BY <1>1, <1>4, <1>6 DEF ClientStates
<1>9. r.code \in Doubtful => ~(n.st = "open" /\ n.owns /\ ~n.blocked)
  BY <1>3, <1>6, <1>8 DEF CodesInv, Doubtful, Unconfirmed, Blocks
<1> HIDE DEF n, free, kind
<1>10. client'[c] = n /\ \A d \in Clients : d # c => client'[d] = client[d]
  BY <1>1, <1>2 DEF Typed
<1>11. ClientInv'
  <2> USE DEF nodeVars
  <2>1. \A i \in DOMAIN chain : ops[chain[i].op].client # c
    BY <1>2 DEF ClientInv
  <2>2. \A i \in DOMAIN chain : chain[i].op \in OpIds
    BY <1>1, Elements
  <2>3. \A p \in OpIds : ops[p].client \in Clients
    BY <1>1, Elements
  <2>4. ASSUME NEW i \in DOMAIN chain
        PROVE  LET d == ops[chain[i].op].client
               IN  client'[d].op = chain[i].op /\ client'[d].reply.code = "none"
    BY <1>10, <2>1, <2>2, <2>3 DEF ClientInv
  <2>5. \A p \in OpIds : ops[p].client = c /\ ops[p].code \in Doubtful => p = o
    BY <1>3 DEF NothingAfterDoubt, Doubtful, OpIds
  <2>6. \A p \in OpIds : ops[p].client = c /\ ops[p].code \in Doubtful
                           => ~(n.st = "open" /\ n.owns /\ ~n.blocked)
    BY <1>3, <1>9, <2>5
  <2>7. NoReply.code = "none"
    BY DEF NoReply
  <2>8. ASSUME NEW d \in Clients
        PROVE  /\ client'[d].op # 0 => /\ client'[d].op \in OpIds /\ ops[client'[d].op].client = d
                                       /\ \A p \in OpIds : ops[p].client = d => p <= client'[d].op
               /\ client'[d].reply.code # "none"
                    => client'[d].op # 0 /\ ops[client'[d].op].code = client'[d].reply.code
               /\ client'[d].st = "new" => client'[d].op = 0 /\ \A p \in OpIds : ops[p].client # d
               /\ \A p \in OpIds : ops[p].client = d /\ p # client'[d].op /\ ops[p].code \in Doubtful
                    => ~(client'[d].st = "open" /\ client'[d].owns /\ ~client'[d].blocked)
    <3>1. CASE d = c
      BY <1>7, <1>10, <2>6, <2>7, <3>1
    <3>2. CASE d # c
      BY <1>10, <3>2 DEF ClientInv, Writing
    <3> QED BY <3>1, <3>2
  <2>9. UNCHANGED <<chain, ops>> /\ UNCHANGED OpIds
    BY <1>2 DEF OpIds
  <2> QED BY <2>4, <2>8, <2>9 DEF ClientInv, Writing
<1>12. client' \in [Clients -> ClientStates]
  BY <1>1, <1>2, <1>7 DEF Typed
<1> QED BY <1>1, <1>2, <1>11, <1>12, ClientStep DEF Typed, nodeVars, counts

LEMMA LeavingPreserves ==
  ASSUME IInv, NEW c \in Clients, close(c) \/ ConnectionBreaks(c)
  PROVE  IInv'
<1> USE DEF IInv
<1>1. Typed /\ client[c] \in ClientStates
  BY Types DEF Typed
<1>2. PICK n \in {[client[c] EXCEPT !.st = "closed", !.owns = FALSE, !.blocked = TRUE],
                  [client[c] EXCEPT !.owns = FALSE, !.blocked = TRUE]} : client' = [client EXCEPT ![c] = n]
  BY DEF close, ConnectionBreaks
<1>3. /\ UNCHANGED <<disk, hostVars, nodeVars, work, moved, edits>>
      /\ faults' \in 0 .. MaxFaults
  BY <1>1, DocumentAssumption DEF close, ConnectionBreaks, counts, Fault, Typed
<1>4. /\ n \in ClientStates /\ n.op = client[c].op /\ n.reply = client[c].reply
      /\ n.blocked /\ (n.st = "new" => client[c].st = "new")
  BY <1>1 DEF ClientStates
<1>5. client'[c] = n /\ \A d \in Clients : d # c => client'[d] = client[d]
  BY <1>1, <1>2 DEF Typed
<1>6. \A d \in Clients : /\ client'[d].op = client[d].op /\ client'[d].reply = client[d].reply
                         /\ client'[d].st = "new" => client[d].st = "new"
                         /\ Writing(d)' => Writing(d)
  BY <1>4, <1>5 DEF Writing
<1>7. ClientInv'
  <2>1. \A i \in DOMAIN chain : ops[chain[i].op].client \in Clients
    BY <1>1, Elements
  <2> QED BY <1>3, <1>6, <2>1 DEF ClientInv, nodeVars, OpIds
<1>8. client' \in [Clients -> ClientStates]
  BY <1>1, <1>2, <1>4 DEF Typed
<1> QED BY <1>1, <1>3, <1>7, <1>8, ClientStep DEF Typed, nodeVars

LEMMA ReleasePreserves ==
  ASSUME IInv, release
  PROVE  IInv'
<1> USE DEF IInv, release
<1>1. Typed
  BY Types
<1>2. ClientInv'
  BY DEF ClientInv, Writing, OpIds
<1> QED BY <1>1, <1>2, ClientStep DEF Typed, counts

-----------------------------------------------------------------------------
(* An operation is dispatched.                                             *)

LEMMA DispatchPreserves ==
  ASSUME IInv, NEW c \in Clients, NEW kind \in {"open", "save", "sync"}, NEW text \in Texts,
         Dispatch(c, kind, text),
         NEW n \in ClientStates, client' = [client EXCEPT ![c] = n],
         n.op = Len(ops) + 1, n.reply = client[c].reply, n.st # "new", client[c].op = 0,
         \A p \in OpIds : ops[p].client = c => ops[p].code \notin Doubtful,
         UNCHANGED <<disk, hostVars, lease, work, moved, counts>>
  PROVE  IInv'
<1> DEFINE o == Len(ops) + 1
           operation == [client |-> c, kind |-> kind, expected |-> client[c].doc, text |-> text,
                         code |-> "none"]
           item == [op |-> o, h |-> 0, step |-> "queued"]
<1> USE DEF IInv, hostVars, counts
<1>1. Typed
  BY Types
<1>2. ops' = Append(ops, operation) /\ chain' = Append(chain, item)
  BY DEF Dispatch
<1>3. operation \in Operations
  BY <1>1 DEF Typed, ClientStates, Operations
<1>4. ops \in Seq(Operations) /\ Len(ops) \in Nat /\ chain \in Seq(Items) /\ Len(chain) \in Nat
  BY <1>1 DEF Typed
<1>5. /\ ops' \in Seq(Operations) /\ OpIds' = OpIds \cup {o} /\ o \notin OpIds /\ o # 0
      /\ ops'[o] = operation /\ \A p \in OpIds : ops'[p] = ops[p] /\ p < o
  BY <1>2, <1>3, <1>4 DEF OpIds
<1>6. operation.code = "none" /\ operation.client = c /\ operation.kind = kind
  OBVIOUS
<1>7. item.op = o /\ item.h = 0 /\ item.step = "queued" /\ item \in Items'
  BY <1>5 DEF Items
<1> HIDE DEF operation, item, o
<1>8. /\ DOMAIN chain' = DOMAIN chain \cup {Len(chain) + 1} /\ Len(chain) + 1 \notin DOMAIN chain
      /\ chain'[Len(chain) + 1] = item /\ \A i \in DOMAIN chain : chain'[i] = chain[i]
  BY <1>2, <1>4
<1>9. chain' \in Seq(Items')
  <2>1. Items \subseteq Items'
    BY <1>5 DEF Items
  <2>2. chain \in Seq(Items')
    BY <1>4, <2>1
  <2> QED BY <1>2, <1>7, <2>2
<1>10. client'[c] = n /\ \A d \in Clients : d # c => client'[d] = client[d]
  BY <1>1 DEF Typed
<1>11. Typed'
  <2>1. pipe' \in SUBSET Commitments'
    BY <1>1, <1>5 DEF Typed, Commitments
  <2> QED BY <1>1, <1>5, <1>9, <2>1 DEF Typed
<1>12. \A h \in Slots : work[h].op # o
  BY <1>5, DocumentAssumption DEF SlotInv, Idle
<1>13. \A i \in DOMAIN chain : chain[i].op \in OpIds /\ chain[i].op # o /\ ops[chain[i].op].client # c
  <2>1. \A i \in DOMAIN chain : chain[i].op \in OpIds
    BY <1>1, Elements
  <2>2. 0 \notin OpIds
    BY DEF OpIds
  <2> QED BY <1>5, <2>1, <2>2 DEF ClientInv
<1>14. ChainInv'
  BY <1>5, <1>6, <1>7, <1>8, <1>12, <1>13 DEF ChainInv
<1>15. SlotInv'
  <2>1. \A h \in Slots : Waited(h)' <=> Waited(h)
    BY <1>7, <1>8 DEF Waited, Slots
  <2>2. \A h \in Slots : work[h].kind \in {"save", "validate", "commit"} => work[h].op \in OpIds
    BY DEF SlotInv, Idle
  <2> QED BY <1>5, <2>1, <2>2 DEF SlotInv
<1>16. WriteInv'
  <2>1. \A h \in Slots : work[h].pc # "free" => work[h].op \in OpIds
    BY DEF SlotInv
  <2>2. \A r \in pipe : r.op \in OpIds
    BY <1>1, Elements
  <2> QED BY <1>5, <2>1, <2>2 DEF WriteInv, Holds, NativeAt
<1>17. o \notin Landed
  BY <1>1, <1>5, Elements DEF Landed, Typed
<1>18. LandedInv'
  <2>1. UNCHANGED Landed /\ Landed \subseteq OpIds
    BY <1>1, Elements DEF Landed, Typed
  <2>2. \A h \in Slots : work[h].pc # "free" => work[h].op \in OpIds
    BY DEF SlotInv
  <2>3. moved \subseteq OpIds /\ committed \subseteq OpIds /\ \A r \in pipe : r.op \in OpIds
    BY <1>1, Elements DEF Typed
  <2>4. \A i \in DOMAIN chain' : chain'[i].step \in {"queued", "inspect", "validate"} => chain'[i].op \notin Landed
    BY <1>7, <1>8, <1>17 DEF LandedInv
  <2>5. \A i \in DOMAIN chain' : chain'[i].step = "readback" => chain'[i].op \in committed
    BY <1>7, <1>8 DEF LandedInv
  <2> QED BY <1>5, <2>1, <2>2, <2>3, <2>4, <2>5 DEF LandedInv
<1>19. CodesInv'
  BY <1>5, <1>6 DEF CodesInv, Refusals, Landed
<1>20. ClientInv'
  <2>1. ASSUME NEW i \in DOMAIN chain'
        PROVE  LET d == ops'[chain'[i].op].client
               IN  client'[d].op = chain'[i].op /\ client'[d].reply.code = "none"
    <3>1. CASE i \in DOMAIN chain
      <4>1. ops'[chain'[i].op] = ops[chain[i].op] /\ ops[chain[i].op].client \in Clients
        BY <1>1, <1>5, <1>8, <1>13, <3>1, Elements
      <4> QED BY <1>8, <1>10, <1>13, <3>1, <4>1 DEF ClientInv
    <3>2. CASE i = Len(chain) + 1
      <4>1. client[c].reply.code = "none"
        BY DEF ClientInv
      <4> QED BY <1>5, <1>6, <1>7, <1>8, <1>10, <3>2, <4>1 DEF o
    <3> QED BY <1>8, <3>1, <3>2
  <2>2. ASSUME NEW d \in Clients, d # c
        PROVE  /\ client'[d].op # 0 => /\ client'[d].op \in OpIds' /\ ops'[client'[d].op].client = d
                                       /\ \A p \in OpIds' : ops'[p].client = d => p <= client'[d].op
               /\ client'[d].reply.code # "none"
                    => client'[d].op # 0 /\ ops'[client'[d].op].code = client'[d].reply.code
               /\ client'[d].st = "new" => client'[d].op = 0 /\ \A p \in OpIds' : ops'[p].client # d
               /\ \A p \in OpIds' : ops'[p].client = d /\ p # client'[d].op /\ ops'[p].code \in Doubtful
                    => ~Writing(d)'
    BY <1>5, <1>6, <1>10, <2>2 DEF ClientInv, Writing
  <2>3. /\ client'[c].op # 0 => /\ client'[c].op \in OpIds' /\ ops'[client'[c].op].client = c
                                /\ \A p \in OpIds' : ops'[p].client = c => p <= client'[c].op
        /\ client'[c].reply.code # "none"
             => client'[c].op # 0 /\ ops'[client'[c].op].code = client'[c].reply.code
        /\ client'[c].st = "new" => client'[c].op = 0 /\ \A p \in OpIds' : ops'[p].client # c
        /\ \A p \in OpIds' : ops'[p].client = c /\ p # client'[c].op /\ ops'[p].code \in Doubtful
             => ~Writing(c)'
    <3>1. client[c].reply.code = "none"
      BY DEF ClientInv
    <3>2. client'[c].op = o
      BY <1>10 DEF o
    <3>3. \A p \in OpIds' : p <= o
      BY <1>5, <1>4 DEF OpIds, o
    <3> QED BY <1>5, <1>6, <1>10, <3>1, <3>2, <3>3
  <2> QED BY <2>1, <2>2, <2>3 DEF ClientInv
<1>21. BaselineWasNative'
  BY <1>11, Types DEF BaselineWasNative
<1>22. CodesAreTrue'
  BY <1>5, <1>6 DEF CodesAreTrue, Refusals
<1>23. NothingAfterDoubt'
  <2>1. ASSUME NEW p \in OpIds', NEW q \in OpIds', p < q, ops'[p].client = ops'[q].client
        PROVE  ops'[p].code \notin Doubtful
    <3>1. p \in OpIds
      BY <1>4, <1>5, <2>1 DEF OpIds, o
    <3>2. CASE q \in OpIds
      BY <1>5, <2>1, <3>1, <3>2 DEF NothingAfterDoubt, Doubtful
    <3>3. CASE q = o
      BY <1>5, <1>6, <2>1, <3>1, <3>3
    <3> QED BY <1>5, <3>2, <3>3
  <2> QED BY <2>1 DEF NothingAfterDoubt, Doubtful
<1> QED BY <1>11, <1>14, <1>15, <1>16, <1>18, <1>19, <1>20, <1>21, <1>22, <1>23, Types

LEMMA ConnectPreserves ==
  ASSUME IInv, NEW c \in Clients, connect(c)
  PROVE  IInv'
<1> DEFINE n == [client[c] EXCEPT !.st = "opening", !.op = Len(ops) + 1]
<1> USE DEF IInv
<1>1. Typed /\ client[c] \in ClientStates /\ Len(ops) \in Nat
  BY Types DEF Typed
<1>2. /\ client[c].st = "new" /\ Dispatch(c, "open", Original) /\ client' = [client EXCEPT ![c] = n]
      /\ UNCHANGED <<disk, hostVars, lease, work, moved, counts>>
  BY <1>1 DEF connect
<1>3. Len(ops) + 1 \in 0 .. MaxOps
  BY <1>1, <1>2, DocumentAssumption DEF Dispatch
<1>4. n \in ClientStates /\ n.op = Len(ops) + 1 /\ n.reply = client[c].reply /\ n.st # "new"
  BY <1>1, <1>3 DEF ClientStates
<1>5. client[c].op = 0 /\ \A p \in OpIds : ops[p].client = c => ops[p].code \notin Doubtful
  BY <1>2 DEF ClientInv
<1>6. "open" \in {"open", "save", "sync"} /\ Original \in Texts
  BY DocumentAssumption
<1> HIDE DEF n
<1> QED BY <1>2, <1>4, <1>5, <1>6, DispatchPreserves

LEMMA CapturePreserves ==
  ASSUME IInv, NEW c \in Clients, NEW text \in Texts, save(c, text) \/ sync(c)
  PROVE  IInv'
<1> DEFINE n == [client[c] EXCEPT !.op = Len(ops) + 1]
<1> USE DEF IInv
<1>1. Typed /\ client[c] \in ClientStates /\ Len(ops) \in Nat
  BY Types DEF Typed
<1>2. PICK kind \in {"save", "sync"}, asked \in Texts : Dispatch(c, kind, asked)
  <2>1. client[c].doc.source \in Texts
    BY <1>1 DEF ClientStates, Snapshots
  <2> QED BY <2>1 DEF save, sync
<1>3. /\ capture(c) /\ client' = [client EXCEPT ![c] = n]
      /\ UNCHANGED <<disk, hostVars, lease, work, moved, counts>>
  BY <1>1 DEF save, sync
<1>4. /\ n \in ClientStates /\ n.op = Len(ops) + 1 /\ n.reply = client[c].reply
      /\ n.st # "new"
  <2>1. Len(ops) + 1 \in 0 .. MaxOps
    BY <1>1, <1>2, DocumentAssumption DEF Dispatch
  <2>2. client[c].st = "open"
    BY <1>3 DEF capture
  <2> QED BY <1>1, <2>1, <2>2 DEF ClientStates
<1>5. \A p \in OpIds : ops[p].client = c => ops[p].code \notin Doubtful
  BY <1>3 DEF ClientInv, capture, Writing, OpIds
<1>6. client[c].op = 0 /\ kind \in {"open", "save", "sync"}
  BY <1>3 DEF capture
<1> HIDE DEF n, IInv
<1> QED BY <1>2, <1>3, <1>4, <1>5, <1>6, DispatchPreserves

-----------------------------------------------------------------------------
(* The first operation of the chain asks the serve process.                *)

LEMMA RunningIsFirst ==
  ASSUME Typed, chain # <<>>
  PROVE  Running = chain[1] /\ 1 \in DOMAIN chain /\ Running \in Items /\ Running.op \in OpIds
  BY Elements DEF Typed, Running

LEMMA RequestPreserves ==
  ASSUME IInv, chain # <<>>, NEW h \in Slots, NEW step \in DOMAIN KindAt,
         \/ Running.h = 0 /\ work[h].pc = "free"
         \/ Running.h = h /\ work[h].pc = "done",
         work' = [work EXCEPT ![h] = [Idle EXCEPT !.op = Running.op, !.kind = KindAt[step], !.pc = "start"]],
         chain' = <<[Running EXCEPT !.h = h, !.step = step]>> \o Tail(chain),
         step = "write" => Op.kind = "save",
         step \in {"validate", "commit", "readback"} => Op.kind = "sync",
         step # "readback" => Running.op \notin Landed,
         step = "readback" => Running.op \in committed,
         lease' \in Clients \cup {NoClient}, UNCHANGED <<client, ops, disk, hostVars, moved, counts>>
  PROVE  IInv'
<1> DEFINE w == [Idle EXCEPT !.op = Running.op, !.kind = KindAt[step], !.pc = "start"]
           item == [Running EXCEPT !.h = h, !.step = step]
<1> USE DEF IInv, hostVars, counts
<1>1. Typed /\ Running = chain[1] /\ 1 \in DOMAIN chain /\ Running \in Items /\ Running.op \in OpIds
  BY Types, RunningIsFirst
<1>2. step \in {"inspect", "write", "validate", "commit", "readback"}
      /\ KindAt[step] \in {"inspect", "save", "validate", "commit"}
      /\ (KindAt[step] = "save" => step = "write") /\ (KindAt[step] = "validate" => step = "validate")
      /\ (KindAt[step] = "commit" => step = "commit")
  BY DEF KindAt
<1>3. 0 \notin OpIds /\ Running.op \in 0 .. MaxOps /\ h # 0
  <2>1. Op.client \in Clients /\ client[Op.client].op = Running.op
    BY <1>1, Elements DEF ClientInv, Op
  <2> QED BY <1>1, <2>1 DEF Typed, ClientStates, OpIds, Slots
<1>4. w \in SlotStates
  BY <1>2, <1>3, FirstSnapshotIsOne DEF SlotStates, Idle
<1>5. w.op = Running.op /\ w.kind = KindAt[step] /\ w.pc = "start" /\ w.reply = NoReply
  BY DEF Idle
<1>6. item.op = Running.op /\ item.h = h /\ item.step = step /\ item \in Items
  BY <1>1, <1>2 DEF Items
<1>7. chain' = <<item>> \o Tail(chain) /\ work' = [work EXCEPT ![h] = w]
  OBVIOUS
<1> HIDE DEF w, item
<1>8. /\ chain' \in Seq(Items) /\ DOMAIN chain' = DOMAIN chain /\ chain'[1] = item
      /\ \A i \in DOMAIN chain : i # 1 => chain'[i] = chain[i]
  BY <1>1, <1>6, <1>7 DEF Typed
<1>9. work'[h] = w /\ \A g \in Slots : g # h => work'[g] = work[g]
  BY <1>1, <1>7 DEF Typed
<1>10. UNCHANGED OpIds /\ UNCHANGED Items
  BY DEF OpIds, Items
<1>11. Typed'
  BY <1>1, <1>4, <1>7, <1>8, <1>10 DEF Typed, Commitments
<1>12. \A i \in DOMAIN chain : i # 1 => chain[i].step = "queued" /\ chain[i].h = 0 /\ chain[i].op # Running.op
  BY <1>1 DEF ChainInv
<1>22. \A i \in DOMAIN chain : chain'[i].op = chain[i].op
  BY <1>1, <1>6, <1>8
<1>13. \A g \in Slots : g # h => work[g].op # Running.op
  BY <1>1, <1>3 DEF ChainInv, SlotInv
<1>14. ChainInv'
  <2>1. \A i, j \in DOMAIN chain' : chain'[i].op = chain'[j].op => i = j
    BY <1>8, <1>22 DEF ChainInv
  <2>2. ASSUME NEW i \in DOMAIN chain', i # 1
        PROVE  /\ ops[chain'[i].op].code = "none"
               /\ chain'[i].step = "queued" /\ chain'[i].h = 0
               /\ \A g \in Slots : work'[g].op # chain'[i].op
    BY <1>5, <1>8, <1>9, <1>12, <2>2 DEF ChainInv
  <2>3. /\ ops[item.op].code = "none" /\ item.step # "queued" /\ item.h # 0
        /\ work'[item.h].pc # "free" /\ work'[item.h].op = item.op
        /\ work'[item.h].kind = KindAt[item.step]
        /\ item.step = "write" => ops[item.op].kind = "save"
        /\ item.step \in {"validate", "commit", "readback"} => ops[item.op].kind = "sync"
    BY <1>1, <1>2, <1>3, <1>5, <1>6, <1>9 DEF ChainInv, Op
  <2>4. ASSUME NEW i \in DOMAIN chain'
        PROVE  /\ ops[chain'[i].op].code = "none"
               /\ chain'[i].step = "queued" <=> chain'[i].h = 0
               /\ chain'[i].step = "queued" => \A g \in Slots : work'[g].op # chain'[i].op
               /\ chain'[i].step # "queued" =>
                    /\ i = 1
                    /\ work'[chain'[i].h].pc # "free" /\ work'[chain'[i].h].op = chain'[i].op
                    /\ work'[chain'[i].h].kind = KindAt[chain'[i].step]
               /\ chain'[i].step = "write" => ops[chain'[i].op].kind = "save"
               /\ chain'[i].step \in {"validate", "commit", "readback"} => ops[chain'[i].op].kind = "sync"
    <3>1. CASE i = 1
      BY <1>8, <2>3, <3>1
    <3>2. CASE i # 1
      BY <2>2, <3>2
    <3> QED BY <3>1, <3>2
  <2> QED BY <2>1, <2>4 DEF ChainInv
<1>15. SlotInv'
  <2>1. Waited(h)' /\ \A g \in Slots : g # h => (Waited(g)' <=> Waited(g))
    <3>1. Waited(h)'
      BY <1>1, <1>6, <1>8 DEF Waited
    <3>2. ASSUME NEW g \in Slots, g # h PROVE Waited(g)' <=> Waited(g)
      <4>1. g # 0 /\ Running.h # g
        BY <3>2, <1>1 DEF ChainInv, SlotInv, Slots
      <4>2. chain[1].h # g /\ chain'[1].h # g
        BY <1>1, <1>6, <1>8, <3>2, <4>1
      <4>3. \A i \in DOMAIN chain : chain'[i].h = g <=> chain[i].h = g
        BY <1>8, <4>2
      <4> QED BY <1>8, <4>3 DEF Waited
    <3> QED BY <3>1, <3>2
  <2>2. ASSUME NEW g \in Slots, NEW f \in Slots, work'[g].op = work'[f].op, work'[f].op # 0
        PROVE  g = f
    BY <1>5, <1>9, <1>13, <2>2 DEF SlotInv
  <2>3. ASSUME NEW g \in Slots
        PROVE /\ work'[g].pc = "free" => work'[g] = Idle
              /\ work'[g].pc # "free" => work'[g].op \in OpIds
              /\ work'[g].pc # "free" /\ ~Waited(g)' => work'[g].pc # "done" /\ ops[work'[g].op].code = "UNKNOWN"
              /\ work'[g].kind = "save" => ops[work'[g].op].kind = "save"
              /\ work'[g].kind \in {"validate", "commit"} => ops[work'[g].op].kind = "sync"
              /\ work'[g].pc \in {"compare", "move", "after"} => work'[g].kind = "save"
              /\ work'[g].pc \in {"managed", "sent", "acked", "identity"} => work'[g].kind = "commit"
    <3>1. CASE g = h
      BY <1>1, <1>2, <1>5, <1>9, <2>1, <3>1 DEF Op
    <3>2. CASE g # h
      BY <1>9, <2>1, <3>2 DEF SlotInv
    <3> QED BY <3>1, <3>2
  <2> QED BY <1>10, <2>2, <2>3 DEF SlotInv
<1>16. WriteInv'
  BY <1>5, <1>9 DEF WriteInv, Holds, NativeAt
<1>17. UNCHANGED Landed
  BY DEF Landed
<1>18. LandedInv'
  <2>1. committed \subseteq Landed
    BY DEF Landed
  <2>2. ASSUME NEW i \in DOMAIN chain'
        PROVE  /\ chain'[i].step \in {"queued", "inspect", "validate"} => chain'[i].op \notin Landed
               /\ chain'[i].step = "readback" => chain'[i].op \in committed
    <3>1. CASE i = 1
      BY <1>2, <1>6, <1>8, <3>1
    <3>2. CASE i # 1
      BY <1>8, <2>2, <3>2 DEF LandedInv
    <3> QED BY <3>1, <3>2
  <2>3. ASSUME NEW g \in Slots
        PROVE /\ work'[g].kind = "save" /\ work'[g].op \in Landed =>
                 work'[g].pc = "after" \/ (work'[g].pc = "done" /\ Meaning("save", work'[g].reply.code) \notin Refusals)
              /\ work'[g].kind = "commit" /\ work'[g].op \in Landed =>
                   work'[g].pc \in {"acked", "identity"}
                     \/ (work'[g].pc = "done" /\ Meaning("commit", work'[g].reply.code) \notin Refusals)
              /\ work'[g].pc \in {"acked", "identity"} => work'[g].op \in committed
              /\ work'[g].pc = "after" \/ (work'[g].pc = "done" /\ work'[g].kind = "save" /\ work'[g].reply.code = "ok") =>
                   work'[g].op \in moved \/ ops[work'[g].op].text = ops[work'[g].op].expected.source
              /\ work'[g].pc = "done" /\ work'[g].kind = "commit" /\ work'[g].reply.code = "ok" => work'[g].op \in committed
    <3>1. CASE g = h
      BY <1>2, <1>5, <1>9, <3>1
    <3>2. CASE g # h
      BY <1>9, <3>2 DEF LandedInv
    <3> QED BY <3>1, <3>2
  <2> QED BY <1>17, <2>2, <2>3 DEF LandedInv
<1>19. CodesInv'
  <2>1. NoReply.code = "none"
    BY DEF NoReply
  <2>2. \A g \in Slots : work'[g] = work[g] \/ (work'[g].reply = NoReply /\ work'[g].pc = "start")
    BY <1>5, <1>9
  <2> QED BY <1>10, <1>17, <2>1, <2>2 DEF CodesInv
<1>20. ClientInv'
  <2>1. \A i \in DOMAIN chain' : LET c == ops[chain'[i].op].client
                                IN  client[c].op = chain'[i].op /\ client[c].reply.code = "none"
    <3> SUFFICES ASSUME NEW i \in DOMAIN chain'
                 PROVE  /\ client[ops[chain'[i].op].client].op = chain'[i].op
                        /\ client[ops[chain'[i].op].client].reply.code = "none"
      OBVIOUS
    <3>1. i \in DOMAIN chain /\ chain'[i].op = chain[i].op
      BY <1>8, <1>22
    <3>2. /\ client[ops[chain[i].op].client].op = chain[i].op
          /\ client[ops[chain[i].op].client].reply.code = "none"
      BY <3>1 DEF ClientInv
    <3> QED BY <3>1, <3>2
  <2> QED BY <1>10, <2>1 DEF ClientInv, Writing
<1>21. BaselineWasNative' /\ CodesAreTrue' /\ NothingAfterDoubt'
  BY <1>10, <1>11, Types DEF BaselineWasNative, CodesAreTrue, NothingAfterDoubt
<1> QED BY <1>11, <1>14, <1>15, <1>16, <1>18, <1>19, <1>20, <1>21, Types

-----------------------------------------------------------------------------
(* An operation leaves the chain with its answer.                          *)

Shift(i, j) == IF j < i THEN j ELSE j + 1

LEMMA SecondPart ==
  ASSUME NEW S, NEW s \in Seq(S), NEW t \in Seq(S), NEW j \in Nat, Len(s) < j, j <= Len(s) + Len(t)
  PROVE  (s \o t)[j] = t[j - Len(s)]
  OBVIOUS

LEMMA LeaveIs ==
  ASSUME NEW S, chain \in Seq(S), NEW i \in DOMAIN chain
  PROVE  /\ Leave(i) \in Seq(S) /\ (i = 1 => Leave(i) = Tail(chain))
         /\ \A j \in DOMAIN Leave(i) : /\ Shift(i, j) \in DOMAIN chain /\ Shift(i, j) # i
                                       /\ Leave(i)[j] = chain[Shift(i, j)]
                                       /\ Shift(i, j) = 1 => j = 1
         /\ \A j, k \in DOMAIN Leave(i) : Shift(i, j) = Shift(i, k) => j = k
         /\ \A k \in DOMAIN chain : k # i => \E j \in DOMAIN Leave(i) : Shift(i, j) = k
<1> DEFINE front == SubSeq(chain, 1, i - 1)
           back == SubSeq(chain, i + 1, Len(chain))
<1>1. Len(chain) \in Nat /\ i \in 1 .. Len(chain)
  OBVIOUS
<1>2. front \in Seq(S) /\ Len(front) = i - 1 /\ \A j \in 1 .. i - 1 : front[j] = chain[j]
  BY <1>1
<1>3. back \in Seq(S) /\ Len(back) = Len(chain) - i /\ \A j \in 1 .. Len(chain) - i : back[j] = chain[i + j]
  BY <1>1
<1>4. Leave(i) = front \o back
  BY DEF Leave
<1> HIDE DEF front, back
<1>5. Leave(i) \in Seq(S) /\ Len(Leave(i)) = Len(chain) - 1
  BY <1>1, <1>2, <1>3, <1>4
<1>6. DOMAIN Leave(i) = 1 .. Len(chain) - 1
  BY <1>1, <1>5
<1>7. ASSUME NEW j \in DOMAIN Leave(i)
      PROVE  /\ Shift(i, j) \in DOMAIN chain /\ Shift(i, j) # i
             /\ Leave(i)[j] = chain[Shift(i, j)] /\ (Shift(i, j) = 1 => j = 1)
  <2>1. j \in 1 .. Len(chain) - 1 /\ Shift(i, j) \in 1 .. Len(chain) /\ Shift(i, j) # i
        /\ (Shift(i, j) = 1 => j = 1)
    BY <1>1, <1>6 DEF Shift
  <2>2. CASE j < i
    BY <1>1, <1>2, <1>3, <1>4, <2>1, <2>2 DEF Shift
  <2>3. CASE ~(j < i)
    <3> DEFINE n == Len(chain)
               k == j - (i - 1)
    <3>1. i \in Nat /\ n \in Nat /\ 1 <= i /\ i <= n /\ j \in Nat /\ i <= j /\ j <= n - 1
      BY <1>1, <2>1, <2>3
    <3>2. k \in 1 .. n - i /\ i + k = j + 1
      BY <3>1
    <3>3. Len(front) = i - 1 /\ Len(back) = n - i /\ back[k] = chain[i + k]
      BY <1>2, <1>3, <3>2
    <3>4. (front \o back)[j] = back[j - Len(front)]
      <4>1. i - 1 < j /\ j <= (i - 1) + (n - i)
        BY <3>1
      <4>2. Len(front) < j /\ j <= Len(front) + Len(back)
        BY <3>3, <4>1
      <4> QED BY <1>2, <1>3, <3>1, <4>2, SecondPart
    <3>5. Leave(i)[j] = chain[j + 1]
      BY <1>4, <3>2, <3>3, <3>4
    <3> QED BY <2>1, <2>3, <3>5 DEF Shift
  <2> QED BY <2>2, <2>3
<1>8. \A j, k \in DOMAIN Leave(i) : Shift(i, j) = Shift(i, k) => j = k
  BY <1>1, <1>6 DEF Shift
<1>9. ASSUME NEW k \in DOMAIN chain, k # i PROVE \E j \in DOMAIN Leave(i) : Shift(i, j) = k
  <2>1. CASE k < i
    <3>1. k \in DOMAIN Leave(i) /\ Shift(i, k) = k
      BY <1>1, <1>6, <2>1 DEF Shift
    <3> QED BY <3>1
  <2>2. CASE ~(k < i)
    <3>1. k - 1 \in DOMAIN Leave(i) /\ Shift(i, k - 1) = k
      BY <1>1, <1>6, <1>9, <2>2 DEF Shift
    <3> QED BY <3>1
  <2> QED BY <2>1, <2>2
<1>10. i = 1 => Leave(i) = Tail(chain)
  <2> SUFFICES ASSUME i = 1 PROVE Leave(i) = Tail(chain)
    OBVIOUS
  <2>1. Tail(chain) \in Seq(S) /\ Len(Tail(chain)) = Len(chain) - 1
        /\ \A j \in 1 .. Len(chain) - 1 : Tail(chain)[j] = chain[j + 1]
    BY <1>1
  <2>2. \A j \in 1 .. Len(chain) - 1 : Leave(i)[j] = chain[j + 1]
    BY <1>6, <1>7 DEF Shift
  <2> QED BY <1>5, <2>1, <2>2
<1> QED BY <1>5, <1>7, <1>8, <1>9, <1>10

LEMMA Replaced ==
  ASSUME NEW S, NEW s \in Seq(S), NEW i \in DOMAIN s, NEW v \in S
  PROVE  LET t == [s EXCEPT ![i] = v]
         IN  /\ t \in Seq(S) /\ Len(t) = Len(s) /\ t[i] = v
             /\ \A j \in DOMAIN s : j # i => t[j] = s[j]
  OBVIOUS

(* An operation leaves the chain, with its slot when that has answered.     *)
Drops(i, reply) ==
  /\ chain' = Leave(i)
  /\ ops' = [ops EXCEPT ![chain[i].op].code = reply.code]
  /\ client' = [client EXCEPT ![ops[chain[i].op].client].reply = reply]
  /\ work' = IF chain[i].h # 0 /\ work[chain[i].h].pc = "done"
               THEN [work EXCEPT ![chain[i].h] = Idle] ELSE work
  /\ UNCHANGED <<disk, hostVars, moved, edits>>

(* What an operation may be told.                                           *)
MayTell(o, code) ==
  /\ code # "none"
  /\ code \in Refusals => o \notin Landed
  /\ code = "PARTIAL" => ops[o].kind = "save"
  /\ code \in {"CHECKPOINT", "READBACK"} => ops[o].kind = "sync"
  /\ code = "ok" /\ ops[o].kind = "sync" => o \in committed
  /\ code = "ok" /\ ops[o].kind = "save" => o \in moved \/ ops[o].text = ops[o].expected.source

LEMMA DropPreserves ==
  ASSUME IInv, NEW i \in DOMAIN chain, NEW reply \in Replies, Drops(i, reply),
         MayTell(chain[i].op, reply.code),
         reply.code = "UNKNOWN" \/ chain[i].h = 0 \/ work[chain[i].h].pc = "done",
         lease' \in Clients \cup {NoClient}, faults' \in 0 .. MaxFaults
  PROVE  IInv'
<1> DEFINE o == chain[i].op
           c == ops[o].client
           operation == [ops[o] EXCEPT !.code = reply.code]
           n == [client[c] EXCEPT !.reply = reply]
<1> USE DEF IInv, hostVars
<1>0. chain' = Leave(i) /\ UNCHANGED <<disk, native, pipe, committed, moved, edits>>
  BY DEF Drops
<1>1. Typed /\ chain[i] \in Items /\ o \in OpIds /\ ops[o] \in Operations /\ c \in Clients
      /\ client[c] \in ClientStates
  <2>1. Typed
    BY Types
  <2>2. chain[i] \in Items /\ o \in OpIds
    BY <2>1, Elements
  <2>3. ops[o] \in Operations /\ c \in Clients
    BY <2>1, <2>2, Elements
  <2> QED BY <2>1, <2>2, <2>3 DEF Typed
<1>2. reply.code \in Codes
  BY DEF Replies, MayTell
<1>3. /\ operation \in Operations /\ operation.code = reply.code
      /\ operation.client = c /\ operation.kind = ops[o].kind
      /\ operation.expected = ops[o].expected /\ operation.text = ops[o].text
  BY <1>1, <1>2 DEF Operations
<1>4. /\ n \in ClientStates /\ n.reply = reply /\ n.op = client[c].op
      /\ n.st = client[c].st /\ n.owns = client[c].owns /\ n.blocked = client[c].blocked
  BY <1>1 DEF ClientStates
<1>5. ops' = [ops EXCEPT ![o] = operation] /\ client' = [client EXCEPT ![c] = n]
  BY <1>1 DEF Drops
<1>6. client[c].op = o
  BY DEF ClientInv
<1> HIDE DEF operation, n, c, o
<1>7. /\ ops' \in Seq(Operations) /\ OpIds' = OpIds /\ ops'[o] = operation
      /\ \A p \in OpIds : p # o => ops'[p] = ops[p]
  <2>1. ops \in Seq(Operations) /\ DOMAIN ops = OpIds
    BY <1>1 DEF Typed, OpIds
  <2> QED BY <1>1, <1>3, <1>5, <2>1, Replaced DEF OpIds
<1>8. \A p \in OpIds : /\ ops'[p].client = ops[p].client /\ ops'[p].kind = ops[p].kind
                       /\ ops'[p].expected = ops[p].expected /\ ops'[p].text = ops[p].text
                       /\ ops'[p].code = IF p = o THEN reply.code ELSE ops[p].code
  <2> SUFFICES ASSUME NEW p \in OpIds
               PROVE  /\ ops'[p].client = ops[p].client /\ ops'[p].kind = ops[p].kind
                      /\ ops'[p].expected = ops[p].expected /\ ops'[p].text = ops[p].text
                      /\ ops'[p].code = IF p = o THEN reply.code ELSE ops[p].code
    OBVIOUS
  <2>1. CASE p = o
    <3>1. ops'[p] = operation
      BY <1>7, <2>1
    <3> QED BY <1>3, <2>1, <3>1 DEF c
  <2>2. CASE p # o
    BY <1>7, <2>2
  <2> QED BY <2>1, <2>2
<1>9. client'[c] = n /\ \A d \in Clients : d # c => client'[d] = client[d]
  BY <1>1, <1>5 DEF Typed
<1>10. \A h \in Slots : \/ work'[h] = work[h] /\ ~(work[h].pc = "done" /\ h = chain[i].h)
                        \/ work'[h] = Idle /\ h = chain[i].h /\ work[h].pc = "done"
  <2>1. 0 \notin Slots
    BY DEF Slots
  <2> QED BY <1>1, <2>1 DEF Typed, Drops
<1>11. work' \in [Slots -> SlotStates]
  BY <1>1, FirstSnapshotIsOne DEF Typed, Drops
<1>12. Items' = Items /\ Commitments' = Commitments
  BY <1>7 DEF Items, Commitments
<1>13. chain' \in Seq(Items)
  BY <1>0, <1>1, LeaveIs DEF Typed
<1>14. Typed'
  BY <1>0, <1>1, <1>4, <1>5, <1>7, <1>11, <1>12, <1>13 DEF Typed
<1>15. /\ \A j \in DOMAIN chain' : /\ Shift(i, j) \in DOMAIN chain /\ Shift(i, j) # i
                                   /\ chain'[j] = chain[Shift(i, j)]
                                   /\ Shift(i, j) = 1 => j = 1
       /\ \A j, k \in DOMAIN chain' : Shift(i, j) = Shift(i, k) => j = k
       /\ \A k \in DOMAIN chain : k # i => \E j \in DOMAIN chain' : Shift(i, j) = k
  BY <1>0, <1>1, LeaveIs DEF Typed
<1>16. \A k \in DOMAIN chain : k # i => chain[k].op # o /\ chain[k].op \in OpIds
  <2>1. \A k \in DOMAIN chain : chain[k].op \in OpIds
    BY <1>1, Elements
  <2> QED BY <2>1 DEF ChainInv, o
<1>17. \A h \in Slots : work[h].op = o => h = chain[i].h
  <2> SUFFICES ASSUME NEW h \in Slots, work[h].op = o PROVE h = chain[i].h
    OBVIOUS
  <2>1. chain[i].h # 0 /\ chain[i].h \in Slots /\ work[chain[i].h].op = o
    BY <1>1 DEF ChainInv, Items, o
  <2>2. o # 0
    BY <1>1 DEF OpIds
  <2> QED BY <2>1, <2>2 DEF SlotInv
<1>18. ASSUME NEW h \in Slots, h # chain[i].h PROVE Waited(h)' <=> Waited(h)
  <2>1. ASSUME Waited(h)' PROVE Waited(h)
    BY <1>15, <2>1 DEF Waited
  <2>2. ASSUME Waited(h) PROVE Waited(h)'
    <3>1. PICK k \in DOMAIN chain : chain[k].h = h
      BY <2>2 DEF Waited
    <3>2. PICK j \in DOMAIN chain' : Shift(i, j) = k
      BY <1>15, <1>18, <3>1
    <3> QED BY <1>15, <3>1, <3>2 DEF Waited
  <2> QED BY <2>1, <2>2
<1>19. ChainInv'
  <2>1. \A j, k \in DOMAIN chain' : chain'[j].op = chain'[k].op => j = k
    BY <1>15 DEF ChainInv
  <2>2. ASSUME NEW j \in DOMAIN chain'
        PROVE  /\ ops'[chain'[j].op].code = "none"
               /\ chain'[j].step = "queued" <=> chain'[j].h = 0
               /\ chain'[j].step = "queued" => \A g \in Slots : work'[g].op # chain'[j].op
               /\ chain'[j].step # "queued" =>
                    /\ j = 1
                    /\ work'[chain'[j].h].pc # "free" /\ work'[chain'[j].h].op = chain'[j].op
                    /\ work'[chain'[j].h].kind = KindAt[chain'[j].step]
               /\ chain'[j].step = "write" => ops'[chain'[j].op].kind = "save"
               /\ chain'[j].step \in {"validate", "commit", "readback"} => ops'[chain'[j].op].kind = "sync"
    <3> DEFINE k == Shift(i, j)
    <3>1. k \in DOMAIN chain /\ k # i /\ chain'[j] = chain[k] /\ (k = 1 => j = 1)
      BY <1>15
    <3> HIDE DEF k
    <3>2. chain[k].op \in OpIds /\ chain[k].op # o
      BY <1>16, <3>1
    <3>3. /\ ops'[chain[k].op].code = ops[chain[k].op].code
          /\ ops'[chain[k].op].kind = ops[chain[k].op].kind
      BY <1>8, <3>2
    <3>4. ASSUME chain[k].step = "queued", NEW g \in Slots PROVE work'[g].op # chain[k].op
      <4>1. chain[k].op # 0
        BY <3>2 DEF OpIds
      <4> QED BY <1>10, <3>1, <3>4, <4>1 DEF ChainInv, Idle
    <3>5. ASSUME chain[k].step # "queued" PROVE chain[k].h \in Slots /\ work'[chain[k].h] = work[chain[k].h]
      <4>1. chain[k].h \in Slots /\ work[chain[k].h].op = chain[k].op
        BY <1>1, <3>1, <3>5, Elements DEF ChainInv, Items
      <4>2. chain[k].h # chain[i].h
        <5>1. chain[i].h # 0 => work[chain[i].h].op = o
          BY DEF ChainInv, o
        <5> QED BY <4>1, <3>2, <5>1 DEF Slots
      <4> QED BY <1>10, <4>1, <4>2
    <3> QED BY <3>1, <3>3, <3>4, <3>5 DEF ChainInv
  <2> QED BY <2>1, <2>2 DEF ChainInv
<1>20. SlotInv'
  <2>1. ASSUME NEW g \in Slots, NEW h \in Slots, work'[g].op = work'[h].op, work'[h].op # 0
        PROVE  g = h
    BY <1>10, <2>1 DEF SlotInv, Idle
  <2>2. ASSUME NEW h \in Slots
        PROVE /\ work'[h].pc = "free" => work'[h] = Idle
              /\ work'[h].pc # "free" => work'[h].op \in OpIds
              /\ work'[h].pc # "free" /\ ~Waited(h)' => work'[h].pc # "done" /\ ops'[work'[h].op].code = "UNKNOWN"
              /\ work'[h].kind = "save" => ops'[work'[h].op].kind = "save"
              /\ work'[h].kind \in {"validate", "commit"} => ops'[work'[h].op].kind = "sync"
              /\ work'[h].pc \in {"compare", "move", "after"} => work'[h].kind = "save"
              /\ work'[h].pc \in {"managed", "sent", "acked", "identity"} => work'[h].kind = "commit"
    <3>1. CASE work'[h] = Idle
      BY <3>1 DEF Idle
    <3>2. CASE work'[h] # Idle
      <4>1. work'[h] = work[h] /\ ~(work[h].pc = "done" /\ h = chain[i].h) /\ work[h].pc # "free"
        BY <1>10, <3>2 DEF SlotInv
      <4>2. work[h].op \in OpIds
        BY <4>1 DEF SlotInv
      <4>3. CASE h = chain[i].h
        <5>1. h # 0 /\ reply.code = "UNKNOWN"
          BY <4>1, <4>3 DEF Slots
        <5>2. work[h].op = o
          BY <4>3, <5>1 DEF ChainInv, o
        <5> QED BY <1>8, <4>1, <4>2, <4>3, <5>1, <5>2 DEF SlotInv
      <4>4. CASE h # chain[i].h
        <5>1. work[h].op # o
          BY <1>17, <4>4
        <5> QED BY <1>8, <1>18, <4>1, <4>2, <4>4, <5>1 DEF SlotInv
      <4> QED BY <4>3, <4>4
    <3> QED BY <3>1, <3>2
  <2> QED BY <1>7, <2>1, <2>2 DEF SlotInv
<1>21. \A h \in Slots : work[h].pc # "free" => work[h].op \in OpIds
  BY DEF SlotInv
<1>22. \A r \in pipe : r.op \in OpIds
  BY <1>1, Elements
<1>23. Idle.pc = "free" /\ Idle.kind = "none" /\ Idle.op = 0 /\ Idle.reply.code = "none"
  BY DEF Idle, NoReply
<1>24. WriteInv'
  <2>1. \A h \in Slots : work'[h] = work[h] \/ work'[h] = Idle
    BY <1>10
  <2>2. \A g, h \in Slots : Holds(g)' /\ Holds(h)' => g = h
    BY <2>1, <1>23 DEF Holds, WriteInv
  <2>3. ASSUME NEW h \in Slots
        PROVE  /\ work'[h].pc \in {"compare", "move", "after", "managed", "sent", "acked", "identity"}
                    => work'[h].cap = ops'[work'[h].op].expected
               /\ work'[h].pc = "move" => /\ Managed(disk) = Managed(work'[h].cap)
                                          /\ work'[h].raced \/ disk.source = work'[h].cap.source
               /\ work'[h].pc \in {"managed", "sent"}
                    => NativeAt(work'[h].cap.base.version, work'[h].cap.base.body)
               /\ work'[h].pc = "acked" => NativeAt(NextVersion(work'[h].cap), Body(work'[h].cap))
    <3>1. CASE work'[h] = Idle
      BY <1>23, <3>1
    <3>2. CASE work'[h] = work[h]
      BY <1>8, <1>21, <3>2 DEF WriteInv
    <3> QED BY <2>1, <3>1, <3>2
  <2>4. \A r \in pipe : /\ r.version = ops'[r.op].expected.base.version
                        /\ r.body = Body(ops'[r.op].expected)
                        /\ NativeAt(r.version, ops'[r.op].expected.base.body)
    BY <1>8, <1>22 DEF WriteInv
  <2> QED BY <1>0, <2>2, <2>3, <2>4 DEF WriteInv, NativeAt
<1>25. Landed' = Landed
  BY <1>0 DEF Landed
<1>26. LandedInv'
  <2>1. /\ \A p \in moved : ops'[p].kind = "save"
        /\ \A p \in committed : ops'[p].kind = "sync"
        /\ \A r \in pipe : ops'[r.op].kind = "sync"
    <3>1. \A p \in OpIds : ops'[p].kind = ops[p].kind
      BY <1>8
    <3>2. moved \subseteq OpIds /\ committed \subseteq OpIds
      BY <1>1 DEF Typed
    <3> QED BY <1>22, <3>1, <3>2 DEF LandedInv
  <2>2. \A j \in DOMAIN chain' :
          /\ chain'[j].step \in {"queued", "inspect", "validate"} => chain'[j].op \notin Landed
          /\ chain'[j].step = "readback" => chain'[j].op \in committed
    BY <1>15 DEF LandedInv
  <2>3. ASSUME NEW h \in Slots
        PROVE /\ work'[h].kind = "save" /\ work'[h].op \in Landed =>
                 work'[h].pc = "after" \/ (work'[h].pc = "done" /\ Meaning("save", work'[h].reply.code) \notin Refusals)
              /\ work'[h].kind = "commit" /\ work'[h].op \in Landed =>
                   work'[h].pc \in {"acked", "identity"}
                     \/ (work'[h].pc = "done" /\ Meaning("commit", work'[h].reply.code) \notin Refusals)
              /\ work'[h].pc \in {"acked", "identity"} => work'[h].op \in committed
              /\ work'[h].pc = "after" \/ (work'[h].pc = "done" /\ work'[h].kind = "save" /\ work'[h].reply.code = "ok") =>
                   work'[h].op \in moved \/ ops'[work'[h].op].text = ops'[work'[h].op].expected.source
              /\ work'[h].pc = "done" /\ work'[h].kind = "commit" /\ work'[h].reply.code = "ok" => work'[h].op \in committed
    <3>1. CASE work'[h] = Idle
      BY <1>23, <3>1
    <3>2. CASE work'[h] = work[h]
      BY <1>8, <1>21, <3>2 DEF LandedInv
    <3> QED BY <1>10, <3>1, <3>2
  <2> QED BY <1>0, <1>25, <2>1, <2>2, <2>3 DEF LandedInv
<1>27. CodesInv'
  <2>1. \A p \in OpIds : /\ ops'[p].code \in Refusals => p \notin Landed
                         /\ ops'[p].code = "PARTIAL" => ops'[p].kind = "save"
                         /\ ops'[p].code \in {"CHECKPOINT", "READBACK"} => ops'[p].kind = "sync"
    BY <1>8 DEF CodesInv, MayTell, o
  <2>2. \A h \in Slots : /\ work'[h].reply.code = "PARTIAL" => work'[h].kind = "save"
                         /\ work'[h].reply.code = "CHECKPOINT" => work'[h].kind = "commit"
                         /\ work'[h].reply.code # "READBACK"
                         /\ work'[h].pc = "done" => work'[h].reply.code # "none"
    BY <1>10, <1>23 DEF CodesInv
  <2> QED BY <1>7, <1>25, <2>1, <2>2 DEF CodesInv
<1>28. ClientInv'
  <2>1. ASSUME NEW j \in DOMAIN chain'
        PROVE  LET d == ops'[chain'[j].op].client
               IN  client'[d].op = chain'[j].op /\ client'[d].reply.code = "none"
    <3> DEFINE k == Shift(i, j)
               d == ops[chain[k].op].client
    <3>1. k \in DOMAIN chain /\ k # i /\ chain'[j] = chain[k]
      BY <1>15
    <3> HIDE DEF k
    <3>2. chain[k].op \in OpIds /\ chain[k].op # o
      BY <1>16, <3>1
    <3>3. d \in Clients /\ ops'[chain'[j].op].client = d
      BY <1>1, <1>8, <3>1, <3>2, Elements
    <3>4. client[d].op = chain[k].op /\ client[d].reply.code = "none"
      BY <3>1 DEF ClientInv
    <3>5. d # c
      BY <1>6, <3>2, <3>4
    <3> QED BY <1>9, <3>1, <3>3, <3>4, <3>5
  <2>2. \A p \in OpIds : ops'[p].code \in Doubtful /\ p # o => ops[p].code \in Doubtful
    BY <1>8
  <2>3. ASSUME NEW d \in Clients
        PROVE  /\ client'[d].op # 0 => /\ client'[d].op \in OpIds /\ ops'[client'[d].op].client = d
                                       /\ \A p \in OpIds : ops'[p].client = d => p <= client'[d].op
               /\ client'[d].reply.code # "none"
                    => client'[d].op # 0 /\ ops'[client'[d].op].code = client'[d].reply.code
               /\ client'[d].st = "new" => client'[d].op = 0 /\ \A p \in OpIds : ops'[p].client # d
               /\ \A p \in OpIds : ops'[p].client = d /\ p # client'[d].op /\ ops'[p].code \in Doubtful
                    => ~Writing(d)'
    <3>1. Writing(d)' <=> Writing(d)
      BY <1>4, <1>9 DEF Writing
    <3>2. CASE d = c
      <4>1. o # 0
        BY <1>1 DEF OpIds
      <4>2. client'[d].op = o /\ client'[d].reply = reply /\ client'[d].st = client[d].st
        BY <1>4, <1>6, <1>9, <3>2
      <4> QED BY <1>1, <1>6, <1>8, <2>2, <3>1, <3>2, <4>1, <4>2 DEF ClientInv
    <3>3. CASE d # c
      <4>1. client'[d] = client[d]
        BY <1>9, <3>3
      <4>2. client[d].op # 0 => client[d].op # o
        BY <3>3 DEF ClientInv, c
      <4>3. o \in OpIds /\ ops[o].client = c
        BY <1>1 DEF c
      <4> QED BY <1>8, <2>2, <3>1, <3>3, <4>1, <4>2, <4>3 DEF ClientInv
    <3> QED BY <3>2, <3>3
  <2> QED BY <1>7, <2>1, <2>3 DEF ClientInv
<1>29. BaselineWasNative'
  BY <1>0, <1>14, Types DEF BaselineWasNative
<1>30. CodesAreTrue'
  <2>1. ASSUME NEW p \in OpIds
        PROVE  /\ ops'[p].code \in Refusals => p \notin moved \cup committed
               /\ ops'[p].code = "ok" /\ ops'[p].kind = "sync" => p \in committed
               /\ ops'[p].code = "ok" /\ ops'[p].kind = "save"
                    => p \in moved \/ ops'[p].text = ops'[p].expected.source
    <3>1. CASE p = o
      BY <1>8, <3>1 DEF MayTell, o, Landed
    <3>2. CASE p # o
      BY <1>8, <3>2 DEF CodesAreTrue
    <3> QED BY <3>1, <3>2
  <2> QED BY <1>0, <1>7, <2>1 DEF CodesAreTrue
<1>31. NothingAfterDoubt'
  <2>1. ASSUME NEW p \in OpIds, NEW q \in OpIds, p < q, ops'[p].client = ops'[q].client
        PROVE  ops'[p].code \notin Doubtful
    <3>1. ops[p].client = ops[q].client
      BY <1>8, <2>1
    <3>2. ops[p].code \notin Doubtful
      BY <2>1, <3>1 DEF NothingAfterDoubt, Doubtful
    <3>3. p # o
      <4>1. \A s \in OpIds : ops[s].client = c => s <= o
        BY <1>1, <1>6 DEF ClientInv, OpIds
      <4>2. p \in Int /\ q \in Int
        BY DEF OpIds
      <4> QED BY <2>1, <3>1, <4>1, <4>2 DEF c
    <3> QED BY <1>8, <3>2, <3>3
  <2> QED BY <1>7, <2>1 DEF NothingAfterDoubt, Doubtful
<1> QED BY <1>14, <1>19, <1>20, <1>24, <1>26, <1>27, <1>28, <1>29, <1>30, <1>31, Types

LEMMA FinishDrops ==
  ASSUME Typed, chain # <<>>, NEW reply \in Replies, Finish(reply), UNCHANGED <<disk, hostVars, moved, edits>>,
         work' = IF Running.h # 0 /\ work[Running.h].pc = "done"
                   THEN [work EXCEPT ![Running.h] = Idle] ELSE work
  PROVE  Drops(1, reply)
<1>1. Running = chain[1] /\ 1 \in DOMAIN chain
  BY RunningIsFirst
<1>2. Tail(chain) = Leave(1)
  BY <1>1, LeaveIs DEF Typed
<1> QED BY <1>1, <1>2 DEF Drops, Finish, Op

LEMMA BeginsPreserves ==
  ASSUME IInv, Begins
  PROVE  IInv'
<1> USE DEF IInv
<1>1. /\ Typed /\ Running = chain[1] /\ 1 \in DOMAIN chain /\ Running \in Items /\ Running.op \in OpIds
      /\ chain # <<>> /\ Op.client \in Clients
  <2>1. Typed /\ chain # <<>>
    BY Types DEF Begins
  <2>2. Running.op \in OpIds
    BY <2>1, RunningIsFirst
  <2>3. Op.client \in Clients
    BY <2>1, <2>2, Elements DEF Op
  <2> QED BY <2>1, <2>3, RunningIsFirst
<1>2. Running.step = "queued" /\ Running.h = 0 /\ Running.op \notin Landed
  BY <1>1 DEF ChainInv, LandedInv, Begins
<1>3. UNCHANGED <<disk, hostVars, moved, counts>>
  BY DEF Begins
<1>4. CASE Call("inspect", "inspect") /\ lease' = Op.client /\ UNCHANGED <<client, ops>>
  <2>1. PICK h \in Slots :
          /\ work[h].pc = "free"
          /\ work' = [work EXCEPT ![h] = [Idle EXCEPT !.op = Running.op, !.kind = "inspect", !.pc = "start"]]
          /\ chain' = <<[Running EXCEPT !.h = h, !.step = "inspect"]>> \o Tail(chain)
    BY <1>4 DEF Call
  <2>2. "inspect" \in DOMAIN KindAt /\ KindAt["inspect"] = "inspect"
    BY DEF KindAt
  <2> QED BY <1>1, <1>2, <1>3, <1>4, <2>1, <2>2, RequestPreserves DEF counts
<1>5. ASSUME NEW code \in {"OPEN", "STALE"}, Finish(Reply(code)), UNCHANGED <<lease, work>>
      PROVE  IInv'
  <2>1. Reply(code) \in Replies /\ Reply(code).code = code
    BY FirstSnapshotIsOne DEF Reply, Codes, Refusals
  <2>2. Drops(1, Reply(code))
    BY <1>1, <1>2, <1>3, <1>5, <2>1, FinishDrops DEF counts
  <2>3. MayTell(chain[1].op, code)
    BY <1>1, <1>2 DEF MayTell, Refusals
  <2> QED BY <1>1, <1>2, <1>3, <1>5, <2>1, <2>2, <2>3, DropPreserves DEF Typed, counts
<1> QED BY <1>4, <1>5 DEF Begins

(* The answer of the serve process, as its caller understands it.           *)
LEMMA AnswerIs ==
  ASSUME IInv, chain # <<>>, Running.h # 0, work[Running.h].pc = "done"
  PROVE  LET h == Running.h
             r == [work[h].reply EXCEPT !.code = Meaning(work[h].kind, @)]
         IN /\ h \in Slots /\ r \in Replies /\ r.code = Meaning(work[h].kind, work[h].reply.code)
            /\ Running.step # "queued" /\ work[h].kind = KindAt[Running.step] /\ work[h].op = Running.op
            /\ Running.step # "readback" /\ r.code # "ok" => MayTell(Running.op, r.code)
            /\ r.code = "ok" => work[h].reply.code = "ok"
<1> DEFINE h == Running.h
           code == work[h].reply.code
           r == [work[h].reply EXCEPT !.code = Meaning(work[h].kind, @)]
<1> USE DEF IInv
<1>1. Typed /\ Running = chain[1] /\ 1 \in DOMAIN chain /\ Running \in Items
  BY Types, RunningIsFirst
<1>2. h \in Slots /\ work[h] \in SlotStates /\ work[h].reply \in Replies
  BY <1>1 DEF Items, Typed, SlotStates
<1>3. Running.step # "queued" /\ work[h].kind = KindAt[Running.step] /\ work[h].op = Running.op
  BY <1>1 DEF ChainInv
<1>4. Running.step \in {"inspect", "write", "validate", "commit", "readback"}
  BY <1>1, <1>3 DEF Items
<1>5. code # "none" /\ code \in Codes
  BY <1>2 DEF CodesInv, Replies
<1> DEFINE told == Meaning(work[h].kind, code)
<1>6. told \in Codes /\ (told # code => told \in {"FAILED", "UNKNOWN"}) /\ (told = "ok" => code = "ok")
  BY <1>5 DEF Meaning, Codes, Refusals, Unconfirmed
<1>7. r \in Replies /\ r.code = told
  BY <1>2, <1>6 DEF Replies
<1>8. ASSUME Running.step # "readback", told # "ok" PROVE MayTell(Running.op, told)
  <2>1. ASSUME told \in Refusals PROVE Running.op \notin Landed
    <3>1. CASE Running.step \in {"inspect", "validate"}
      BY <1>1, <3>1 DEF LandedInv
    <3>2. CASE Running.step = "write"
      <4>1. work[h].kind = "save"
        BY <1>3, <3>2 DEF KindAt
      <4> QED BY <1>2, <1>3, <2>1, <4>1 DEF LandedInv
    <3>3. CASE Running.step = "commit"
      <4>1. work[h].kind = "commit"
        BY <1>3, <3>3 DEF KindAt
      <4> QED BY <1>2, <1>3, <2>1, <4>1 DEF LandedInv
    <3> QED BY <1>4, <1>8, <3>1, <3>2, <3>3
  <2>2. told = "PARTIAL" => ops[Running.op].kind = "save"
    BY <1>2, <1>3, <1>6 DEF CodesInv, SlotInv
  <2>3. told \in {"CHECKPOINT", "READBACK"} => ops[Running.op].kind = "sync"
    BY <1>2, <1>3, <1>6 DEF CodesInv, SlotInv
  <2>4. told # "none"
    BY <1>6 DEF Codes, Refusals, Unconfirmed
  <2> QED BY <1>8, <2>1, <2>2, <2>3, <2>4 DEF MayTell
<1> HIDE DEF r, told
<1> QED BY <1>2, <1>3, <1>6, <1>7, <1>8 DEF r, told

LEMMA ReturnsPreserves ==
  ASSUME IInv, Returns
  PROVE  IInv'
<1> DEFINE h == Running.h
           r == [work[h].reply EXCEPT !.code = Meaning(work[h].kind, @)]
           freed == [work EXCEPT ![h] = Idle]
           item(step) == [Running EXCEPT !.step = step]
           Next1(kind, step) ==
             /\ work' = [work EXCEPT ![h] = [Idle EXCEPT !.op = Running.op, !.kind = kind, !.pc = "start"]]
             /\ chain' = <<item(step)>> \o Tail(chain)
             /\ UNCHANGED <<client, ops, lease>>
           Ends(reply) == Finish(reply) /\ work' = freed
<1> USE DEF IInv
<1>1. chain # <<>> /\ h # 0 /\ work[h].pc = "done" /\ UNCHANGED <<disk, hostVars, moved, counts>>
  BY DEF Returns
<1>2. /\ Typed /\ Running = chain[1] /\ 1 \in DOMAIN chain /\ Running \in Items /\ Running.op \in OpIds
      /\ Op = ops[Running.op] /\ Op.kind \in {"open", "save", "sync"} /\ Op.client \in Clients
  <2>1. Typed /\ Running.op \in OpIds
    BY <1>1, Types, RunningIsFirst
  <2> QED BY <1>1, <2>1, RunningIsFirst, Elements DEF Op
<1>3. /\ h \in Slots /\ r \in Replies /\ r.code = Meaning(work[h].kind, work[h].reply.code)
      /\ Running.step # "queued" /\ work[h].kind = KindAt[Running.step] /\ work[h].op = Running.op
      /\ Running.step # "readback" /\ r.code # "ok" => MayTell(Running.op, r.code)
      /\ r.code = "ok" => work[h].reply.code = "ok"
  BY <1>1, AnswerIs
<1>4. ASSUME NEW reply \in Replies, Ends(reply), MayTell(Running.op, reply.code),
             lease' \in Clients \cup {NoClient}
      PROVE  IInv'
  <2>1. Drops(1, reply)
    BY <1>1, <1>2, <1>4, FinishDrops DEF counts
  <2> QED BY <1>1, <1>2, <1>4, <2>1, DropPreserves DEF Typed, counts
<1>5. ASSUME NEW code \in {"CONFLICT", "STALE"}, Running.step \in {"inspect", "validate"},
             Ends(Reply(code)), UNCHANGED lease
      PROVE  IInv'
  <2>1. Reply(code) \in Replies /\ Reply(code).code = code
    BY FirstSnapshotIsOne DEF Reply, Codes, Refusals
  <2>2. Running.op \notin Landed
    BY <1>2, <1>5 DEF LandedInv
  <2>3. MayTell(Running.op, code)
    BY <2>2 DEF MayTell, Refusals
  <2> QED BY <1>2, <1>4, <1>5, <2>1, <2>3 DEF Typed
<1>6. ASSUME NEW step \in DOMAIN KindAt, Next1(KindAt[step], step),
             step = "write" => Op.kind = "save",
             step \in {"validate", "commit", "readback"} => Op.kind = "sync",
             step # "readback" => Running.op \notin Landed,
             step = "readback" => Running.op \in committed
      PROVE  IInv'
  <2>1. item(step) = [Running EXCEPT !.h = h, !.step = step]
    BY <1>2 DEF Items
  <2> HIDE DEF item
  <2>2. chain' = <<[Running EXCEPT !.h = h, !.step = step]>> \o Tail(chain)
    BY <1>6, <2>1
  <2> QED BY <1>1, <1>2, <1>3, <1>6, <2>2, RequestPreserves DEF Typed
<1>7. DOMAIN KindAt = {"inspect", "write", "validate", "commit", "readback"}
      /\ KindAt["write"] = "save" /\ KindAt["validate"] = "validate" /\ KindAt["commit"] = "commit"
      /\ KindAt["readback"] = "inspect"
  BY DEF KindAt
<1>8. CASE Op.kind = "open" /\ Finish(r) /\ work' = freed /\ lease' = IF r.code = "ok" THEN lease ELSE NoClient
  <2>1. Running.step = "inspect"
    BY <1>2, <1>3, <1>8 DEF ChainInv, Items
  <2>2. r.code = "ok" => MayTell(Running.op, r.code)
    BY <1>2, <1>8 DEF MayTell, Refusals
  <2> QED BY <1>2, <1>3, <1>4, <1>8, <2>1, <2>2 DEF Typed
<1>9. CASE Op.kind # "open" /\ r.code # "ok" /\ Running.step # "readback" /\ Ends(r) /\ UNCHANGED lease
  BY <1>2, <1>3, <1>4, <1>9 DEF Typed
<1>10. Reply("READBACK") \in Replies /\ Reply("UNKNOWN") \in Replies
       /\ Reply("READBACK").code = "READBACK" /\ Reply("UNKNOWN").code = "UNKNOWN"
       /\ MayTell(Running.op, "UNKNOWN") /\ (Running.step = "readback" => MayTell(Running.op, "READBACK"))
  <2>1. {"READBACK", "UNKNOWN"} \subseteq Codes
    BY DEF Codes, Unconfirmed
  <2>2. Running.step = "readback" => ops[Running.op].kind = "sync"
    BY <1>2 DEF ChainInv
  <2> QED BY <2>1, <2>2, FirstSnapshotIsOne DEF Reply, MayTell, Refusals
<1>11. CASE Running.step = "readback" /\ Ends(Reply("READBACK")) /\ UNCHANGED lease
  BY <1>2, <1>4, <1>10, <1>11 DEF Typed
<1>12. CASE /\ Op.kind # "open" /\ Running.step = "inspect" /\ r.code = "ok"
            /\ \/ r.doc # Op.expected /\ Ends(Reply("CONFLICT")) /\ UNCHANGED lease
               \/ r.doc = Op.expected /\ lease # Op.client /\ Ends(Reply("STALE")) /\ UNCHANGED lease
               \/ /\ r.doc = Op.expected /\ lease = Op.client
                  /\ IF Op.kind = "save" THEN Next1("save", "write") ELSE Next1("validate", "validate")
  <2>1. Running.op \notin Landed
    BY <1>2, <1>12 DEF LandedInv
  <2> HIDE DEF Next1, Ends
  <2>2. CASE Ends(Reply("CONFLICT")) /\ UNCHANGED lease
    BY <1>5, <1>12, <2>2
  <2>3. CASE Ends(Reply("STALE")) /\ UNCHANGED lease
    BY <1>5, <1>12, <2>3
  <2>4. CASE Op.kind = "save" /\ Next1("save", "write")
    BY <1>6, <1>7, <2>1, <2>4
  <2>5. CASE Op.kind = "sync" /\ Next1("validate", "validate")
    BY <1>6, <1>7, <2>1, <2>5
  <2> QED BY <1>2, <1>12, <2>2, <2>3, <2>4, <2>5
<1>13. CASE /\ Running.step = "write" /\ r.code = "ok"
            /\ Ends(IF Managed(r.doc) = Managed(Op.expected) THEN r ELSE Reply("UNKNOWN")) /\ UNCHANGED lease
  <2>1. work[h].reply.code = "ok" /\ work[h].kind = "save"
    BY <1>3, <1>7, <1>13
  <2>2. Running.op \in moved \/ Op.text = Op.expected.source
    BY <1>1, <1>2, <1>3, <2>1 DEF LandedInv
  <2>3. Op.kind = "save"
    BY <1>2, <1>13 DEF ChainInv
  <2>4. MayTell(Running.op, "ok")
    BY <1>2, <2>2, <2>3 DEF MayTell, Refusals
  <2>5. CASE Managed(r.doc) = Managed(Op.expected)
    BY <1>2, <1>3, <1>4, <1>13, <2>4, <2>5 DEF Typed
  <2>6. CASE Managed(r.doc) # Managed(Op.expected)
    BY <1>2, <1>4, <1>10, <1>13, <2>6 DEF Typed
  <2> QED BY <2>5, <2>6
<1>14. CASE /\ Running.step = "validate" /\ r.code = "ok"
            /\ \/ lease # Op.client /\ Ends(Reply("STALE")) /\ UNCHANGED lease
               \/ lease = Op.client /\ Next1("commit", "commit")
  <2>1. Running.op \notin Landed /\ Op.kind = "sync"
    BY <1>2, <1>14 DEF LandedInv, ChainInv
  <2> HIDE DEF Next1, Ends
  <2>2. CASE Ends(Reply("STALE")) /\ UNCHANGED lease
    BY <1>5, <1>14, <2>2
  <2>3. CASE Next1("commit", "commit")
    BY <1>6, <1>7, <2>1, <2>3
  <2> QED BY <1>14, <2>2, <2>3
<1>15. CASE Running.step = "commit" /\ r.code = "ok" /\ Next1("inspect", "readback")
  <2>1. work[h].reply.code = "ok" /\ work[h].kind = "commit"
    BY <1>3, <1>7, <1>15
  <2>2. Running.op \in committed /\ Op.kind = "sync"
    BY <1>1, <1>2, <1>3, <1>15, <2>1 DEF LandedInv, ChainInv
  <2> HIDE DEF Next1, Ends
  <2> QED BY <1>6, <1>7, <1>15, <2>2
<1>16. CASE /\ Running.step = "readback" /\ r.code = "ok"
            /\ Ends(IF r.doc.base.body = Body(Op.expected) /\ r.doc.base.version = NextVersion(Op.expected)
                    THEN r ELSE Reply("READBACK"))
            /\ UNCHANGED lease
  <2>1. Running.op \in committed /\ Op.kind = "sync"
    BY <1>2, <1>16 DEF LandedInv, ChainInv
  <2>2. MayTell(Running.op, "ok")
    BY <1>2, <2>1 DEF MayTell, Refusals
  <2>3. ASSUME Ends(r) PROVE IInv'
    BY <1>2, <1>3, <1>4, <1>16, <2>2, <2>3 DEF Typed
  <2>4. ASSUME Ends(Reply("READBACK")) PROVE IInv'
    BY <1>11, <1>16, <2>4
  <2> HIDE DEF Ends
  <2> QED BY <1>16, <2>3, <2>4
<1> QED BY <1>8, <1>9, <1>11, <1>12, <1>13, <1>14, <1>15, <1>16 DEF Returns

LEMMA AbortsPreserves ==
  ASSUME IInv, Aborts
  PROVE  IInv'
<1>1. PICK i \in DOMAIN chain :
        LET o == chain[i].op IN
        /\ Fault
        /\ chain' = Leave(i)
        /\ ops' = [ops EXCEPT ![o].code = "UNKNOWN"]
        /\ client' = [client EXCEPT ![ops[o].client].reply = Reply("UNKNOWN")]
        /\ work' = IF chain[i].h # 0 /\ work[chain[i].h].pc = "done" THEN [work EXCEPT ![chain[i].h] = Idle] ELSE work
        /\ lease' = IF ops[o].kind = "open" /\ chain[i].h # 0 THEN NoClient ELSE lease
        /\ UNCHANGED <<disk, hostVars, moved, edits>>
  BY DEF Aborts
<1>2. Reply("UNKNOWN") \in Replies /\ Reply("UNKNOWN").code = "UNKNOWN"
  BY FirstSnapshotIsOne DEF Reply, Codes, Unconfirmed
<1>3. Drops(i, Reply("UNKNOWN"))
  BY <1>1, <1>2 DEF Drops
<1>4. MayTell(chain[i].op, "UNKNOWN")
  BY DEF MayTell, Refusals
<1>5. faults' \in 0 .. MaxFaults /\ lease' \in Clients \cup {NoClient}
  BY <1>1, DocumentAssumption, Types DEF IInv, Typed, Fault
<1> QED BY <1>2, <1>3, <1>4, <1>5, DropPreserves

(* An answer is lost after its operation: it was the last of its client.    *)
LEMMA LosingPreserves ==
  ASSUME IInv, NEW c \in Clients, AnswerIsLost(c)
  PROVE  IInv'
<1> DEFINE o == client[c].op
           reply == Reply("UNKNOWN")
           operation == [ops[o] EXCEPT !.code = "UNKNOWN"]
           n == [client[c] EXCEPT !.reply = reply]
<1> USE DEF IInv
<1>1. /\ client[c].reply.code # "none" /\ faults' \in 0 .. MaxFaults
      /\ client' = [client EXCEPT ![c].reply = reply] /\ ops' = [ops EXCEPT ![o].code = "UNKNOWN"]
      /\ UNCHANGED <<disk, native, pipe, committed, lease, chain, work, moved, edits>>
  BY DocumentAssumption, Types DEF AnswerIsLost, Fault, Typed, hostVars
<1>2. Typed /\ client[c] \in ClientStates
  BY Types DEF Typed
<1>3. o \in OpIds /\ ops[o].client = c /\ \A p \in OpIds : ops[p].client = c => p <= o
  BY <1>1 DEF ClientInv
<1>4. ops \in Seq(Operations) /\ DOMAIN ops = OpIds /\ ops[o] \in Operations
  BY <1>2, <1>3, Elements DEF Typed, OpIds
<1>5. reply \in Replies /\ reply.code = "UNKNOWN" /\ "UNKNOWN" \in Codes
  BY FirstSnapshotIsOne DEF Reply, Codes, Unconfirmed
<1>6. /\ operation \in Operations /\ operation.code = "UNKNOWN" /\ operation.client = c
      /\ operation.kind = ops[o].kind /\ operation.expected = ops[o].expected /\ operation.text = ops[o].text
  BY <1>3, <1>4, <1>5 DEF Operations
<1>7. /\ n \in ClientStates /\ n.reply = reply /\ n.op = client[c].op
      /\ n.st = client[c].st /\ n.owns = client[c].owns /\ n.blocked = client[c].blocked
  BY <1>2, <1>5 DEF ClientStates
<1>8. ops' = [ops EXCEPT ![o] = operation] /\ client' = [client EXCEPT ![c] = n]
  BY <1>1
<1> HIDE DEF operation, n, o, reply
<1>9. /\ ops' \in Seq(Operations) /\ OpIds' = OpIds /\ ops'[o] = operation
      /\ \A p \in OpIds : p # o => ops'[p] = ops[p]
  BY <1>3, <1>4, <1>6, <1>8, Replaced DEF OpIds
<1>10. \A p \in OpIds : /\ ops'[p].client = ops[p].client /\ ops'[p].kind = ops[p].kind
                        /\ ops'[p].expected = ops[p].expected /\ ops'[p].text = ops[p].text
                        /\ ops'[p].code = IF p = o THEN "UNKNOWN" ELSE ops[p].code
  <2> SUFFICES ASSUME NEW p \in OpIds
               PROVE  /\ ops'[p].client = ops[p].client /\ ops'[p].kind = ops[p].kind
                      /\ ops'[p].expected = ops[p].expected /\ ops'[p].text = ops[p].text
                      /\ ops'[p].code = IF p = o THEN "UNKNOWN" ELSE ops[p].code
    OBVIOUS
  <2>1. CASE p = o
    BY <1>3, <1>6, <1>9, <2>1
  <2>2. CASE p # o
    BY <1>9, <2>2
  <2> QED BY <2>1, <2>2
<1>11. client'[c] = n /\ client' \in [Clients -> ClientStates] /\ \A d \in Clients : d # c => client'[d] = client[d]
  BY <1>2, <1>7, <1>8 DEF Typed
<1>12. Typed'
  BY <1>1, <1>2, <1>9, <1>11 DEF Typed, Items, Commitments
<1>13. \A i \in DOMAIN chain : /\ chain[i].op \in OpIds /\ chain[i].op # o
                               /\ ops[chain[i].op].client # c /\ ops[chain[i].op].client \in Clients
  BY <1>1, <1>2, <1>3, Elements DEF ClientInv
<1>14. ChainInv'
  BY <1>1, <1>10, <1>13 DEF ChainInv
<1>15. \A h \in Slots : work[h].pc # "free" \/ work[h].kind # "none" => work[h].op \in OpIds
  BY DEF SlotInv, Idle
<1>16. \A r \in pipe : r.op \in OpIds
  BY <1>2, Elements
<1>17. SlotInv'
  <2>1. \A h \in Slots : Waited(h)' <=> Waited(h)
    BY <1>1 DEF Waited
  <2> QED BY <1>1, <1>9, <1>10, <1>15, <2>1 DEF SlotInv
<1>18. WriteInv'
  BY <1>1, <1>10, <1>15, <1>16 DEF WriteInv, Holds, NativeAt
<1>19. Landed' = Landed
  BY <1>1 DEF Landed
<1>20. LandedInv'
  BY <1>1, <1>2, <1>10, <1>15, <1>16, <1>19 DEF LandedInv, Typed
<1>21. CodesInv'
  BY <1>1, <1>9, <1>10, <1>19 DEF CodesInv, Refusals
<1>22. ClientInv'
  <2>1. \A i \in DOMAIN chain : LET d == ops'[chain[i].op].client
                                IN  client'[d].op = chain[i].op /\ client'[d].reply.code = "none"
    BY <1>10, <1>11, <1>13 DEF ClientInv
  <2>2. \A p \in OpIds : ops'[p].code \in Doubtful /\ p # o => ops[p].code \in Doubtful
    BY <1>10
  <2>3. ASSUME NEW d \in Clients
        PROVE  /\ client'[d].op # 0 => /\ client'[d].op \in OpIds /\ ops'[client'[d].op].client = d
                                       /\ \A p \in OpIds : ops'[p].client = d => p <= client'[d].op
               /\ client'[d].reply.code # "none"
                    => client'[d].op # 0 /\ ops'[client'[d].op].code = client'[d].reply.code
               /\ client'[d].st = "new" => client'[d].op = 0 /\ \A p \in OpIds : ops'[p].client # d
               /\ \A p \in OpIds : ops'[p].client = d /\ p # client'[d].op /\ ops'[p].code \in Doubtful
                    => ~Writing(d)'
    <3>1. Writing(d)' <=> Writing(d)
      BY <1>7, <1>11 DEF Writing
    <3>2. CASE d = c
      <4>1. o # 0
        BY <1>3 DEF OpIds
      <4>2. client'[d].op = o /\ client'[d].reply.code = "UNKNOWN" /\ client'[d].st = client[d].st
        BY <1>5, <1>7, <1>11, <3>2 DEF o
      <4>3. client[d].op = o
        BY <3>2 DEF o
      <4> QED BY <1>3, <1>10, <2>2, <3>1, <3>2, <4>1, <4>2, <4>3 DEF ClientInv
    <3>3. CASE d # c
      <4>1. client'[d] = client[d]
        BY <1>11, <3>3
      <4> QED BY <1>3, <1>10, <2>2, <3>1, <3>3, <4>1 DEF ClientInv
    <3> QED BY <3>2, <3>3
  <2> QED BY <1>1, <1>9, <2>1, <2>3 DEF ClientInv
<1>23. BaselineWasNative'
  BY <1>1, <1>12, Types DEF BaselineWasNative
<1>24. CodesAreTrue'
  BY <1>1, <1>9, <1>10 DEF CodesAreTrue, Refusals
<1>25. NothingAfterDoubt'
  <2>1. ASSUME NEW p \in OpIds, NEW q \in OpIds, p < q, ops'[p].client = ops'[q].client
        PROVE  ops'[p].code \notin Doubtful
    <3>1. ops[p].client = ops[q].client
      BY <1>10, <2>1
    <3>2. ops[p].code \notin Doubtful
      BY <2>1, <3>1 DEF NothingAfterDoubt, Doubtful
    <3>3. p # o
      BY <1>3, <2>1, <3>1 DEF OpIds
    <3> QED BY <1>10, <3>2, <3>3
  <2> QED BY <1>9, <2>1 DEF NothingAfterDoubt, Doubtful
<1> QED BY <1>12, <1>14, <1>17, <1>18, <1>20, <1>21, <1>22, <1>23, <1>24, <1>25, Types

-----------------------------------------------------------------------------
(* A step of the serve process for the request in h, which becomes w.      *)

Active(h) == work[h].pc \notin {"free", "done"}
NativeNext(version, body) == version \in 1 .. Len(native') /\ native'[version] = body
NativeGrows == native' = native \/ \E b \in Bodies : native' = Append(native, b)

(* Where the request goes: on, to its answer, or away when nobody waits.    *)
Serves(h, w) ==
  /\ Active(h) /\ w \in SlotStates
  /\ work' = [work EXCEPT ![h] = w] /\ UNCHANGED <<nodeVars, client>>
  /\ \/ w.op = work[h].op /\ w.kind = work[h].kind /\ w.pc # "free" /\ (w.pc = "done" => Waited(h))
     \/ w = Idle /\ ~Waited(h)
  /\ w.pc \in {"compare", "move", "after"} => w.kind = "save"
  /\ w.pc \in {"managed", "sent", "acked", "identity"} => w.kind = "commit"
  /\ w.reply.code = "PARTIAL" => w.kind = "save"
  /\ w.reply.code = "CHECKPOINT" => w.kind = "commit"
  /\ w.reply.code # "READBACK"
  /\ w.pc = "done" => w.reply.code # "none"

(* What it may have done: only what belongs to its operation.               *)
Does(h) ==
  /\ moved' = moved \/ (moved' = moved \cup {work[h].op} /\ work[h].kind = "save")
  /\ committed' = committed \/ (committed' = committed \cup {work[h].op} /\ work[h].kind = "commit")
  /\ pipe' = pipe \/ (pipe' = pipe \cup {Request(h)} /\ work[h].pc = "sent")
  /\ disk' = disk \/ \A g \in Slots \ {h} : work[g].pc # "move"
  /\ NativeGrows

LandsRight(w) ==
  /\ w.kind = "save" /\ w.op \in Landed' =>
       w.pc = "after" \/ (w.pc = "done" /\ Meaning("save", w.reply.code) \notin Refusals)
  /\ w.kind = "commit" /\ w.op \in Landed' =>
       w.pc \in {"acked", "identity"} \/ (w.pc = "done" /\ Meaning("commit", w.reply.code) \notin Refusals)
  /\ w.pc \in {"acked", "identity"} => w.op \in committed'
  /\ w.pc = "after" \/ (w.pc = "done" /\ w.kind = "save" /\ w.reply.code = "ok") =>
       w.op \in moved' \/ ops[w.op].text = ops[w.op].expected.source
  /\ w.pc = "done" /\ w.kind = "commit" /\ w.reply.code = "ok" => w.op \in committed'

WritesRight(h, w) ==
  /\ w.pc \in {"compare", "move", "after", "identity"} => Holds(h) \/ ~Busy(h)
  /\ w.pc \in {"compare", "move", "after", "managed", "sent", "acked", "identity"} => w.cap = ops[w.op].expected
  /\ w.pc = "move" => Managed(disk') = Managed(w.cap) /\ (w.raced \/ disk'.source = w.cap.source)
  /\ w.pc \in {"managed", "sent"} => NativeNext(w.cap.base.version, w.cap.base.body)
  /\ w.pc = "acked" => NativeNext(NextVersion(w.cap), Body(w.cap))

LEMMA NativeKeeps ==
  ASSUME Typed, NativeGrows
  PROVE  /\ native' \in Seq(Bodies) /\ Len(native) \in Nat /\ Len(native') \in Nat
         /\ Len(native) <= Len(native')
         /\ \A v, b : NativeAt(v, b) => NativeNext(v, b)
<1>1. native \in Seq(Bodies)
  BY DEF Typed
<1>2. CASE native' = native
  BY <1>1, <1>2 DEF NativeAt, NativeNext
<1>3. ASSUME NEW b \in Bodies, native' = Append(native, b)
      PROVE  /\ native' \in Seq(Bodies) /\ Len(native) \in Nat /\ Len(native') \in Nat
             /\ Len(native) <= Len(native')
             /\ \A v, x : NativeAt(v, x) => NativeNext(v, x)
  BY <1>1, <1>3 DEF NativeAt, NativeNext
<1> QED BY <1>2, <1>3 DEF NativeGrows

(* What the host leaves in the native action when it carries out a request. *)
LEMMA SavedIs ==
  ASSUME Typed, NEW r, r.body \in Bodies, native' = Saved(r)
  PROVE  NativeGrows /\ native'[Len(native')] = r.body
<1>1. native \in Seq(Bodies)
  BY DEF Typed
<1>2. CASE native' = native /\ r.body = native[Len(native)]
  BY <1>2 DEF NativeGrows
<1>3. CASE native' = Append(native, r.body)
  BY <1>1, <1>3 DEF NativeGrows
<1> QED BY <1>2, <1>3 DEF Saved

LEMMA BodiesOf ==
  ASSUME NEW d \in Snapshots
  PROVE  Body(d) \in Bodies /\ d.base.body \in Bodies /\ d.base.version \in Nat /\ NextVersion(d) \in Nat
  BY DEF Snapshots, Body, Bodies, NextVersion

LEMMA SavedFor ==
  ASSUME Typed, NEW d \in Snapshots, NEW r, r.body = Body(d), native' = Saved(r),
         d.base.version = Len(native), NativeAt(d.base.version, d.base.body)
  PROVE  Len(native') = NextVersion(d) /\ NativeNext(NextVersion(d), Body(d))
<1>1. native \in Seq(Bodies) /\ Body(d) \in Bodies /\ d.base.version \in Nat
  BY BodiesOf DEF Typed
<1>2. d.base.body = native[Len(native)] /\ Len(native) \in 1 .. Len(native)
  BY DEF NativeAt
<1>3. CASE Changes(d)
  <2>1. native' = Append(native, Body(d)) /\ NextVersion(d) = Len(native) + 1
    BY <1>2, <1>3 DEF Saved, Changes, NextVersion
  <2> QED BY <1>1, <2>1 DEF NativeNext
<1>4. CASE ~Changes(d)
  <2>1. native' = native /\ NextVersion(d) = Len(native) /\ Body(d) = native[Len(native)]
    BY <1>2, <1>4 DEF Saved, Changes, NextVersion
  <2> QED BY <1>1, <1>2, <2>1 DEF NativeNext
<1> QED BY <1>3, <1>4

(* What is being served has no answer, or the one of a request given up.    *)
LEMMA InService ==
  ASSUME IInv, NEW h \in Slots, work[h].pc # "free"
  PROVE  /\ work[h].op \in OpIds /\ work[h].op # 0 /\ ops[work[h].op].code \in {"none", "UNKNOWN"}
         /\ Waited(h) => ops[work[h].op].code = "none"
         /\ work[h].kind \in {"save", "commit"} => work[h].kind = IF ops[work[h].op].kind = "save" THEN "save" ELSE "commit"
         /\ \A i \in DOMAIN chain : chain[i].op = work[h].op => chain[i].h = h
         /\ \A g \in Slots : g # h => work[g].op # work[h].op
<1> USE DEF IInv
<1>1. Typed /\ work[h].op \in OpIds /\ work[h].op # 0
  BY Types DEF SlotInv, OpIds
<1>2. ASSUME NEW i \in DOMAIN chain, chain[i].h = h
      PROVE  ops[work[h].op].code = "none"
  <2>1. h # 0
    BY DEF Slots
  <2> QED BY <1>2, <2>1 DEF ChainInv
<1>3. ASSUME NEW i \in DOMAIN chain, chain[i].op = work[h].op
      PROVE  chain[i].h = h
  <2>1. chain[i].h \in Slots /\ work[chain[i].h].op = work[h].op
    BY <1>1, <1>3, Elements DEF ChainInv, Items
  <2> QED BY <1>1, <2>1 DEF SlotInv
<1>4. Waited(h) => ops[work[h].op].code = "none"
  BY <1>2 DEF Waited
<1>5. ~Waited(h) => ops[work[h].op].code = "UNKNOWN"
  BY DEF SlotInv
<1>6. work[h].kind \in {"save", "commit"} => work[h].kind = IF ops[work[h].op].kind = "save" THEN "save" ELSE "commit"
  BY DEF SlotInv
<1> QED BY <1>1, <1>3, <1>4, <1>5, <1>6 DEF SlotInv

LEMMA ServePreserves ==
  ASSUME IInv, NEW h \in Slots, NEW w, Serves(h, w), Does(h), LandsRight(w), WritesRight(h, w),
         disk' \in Snapshots, NativeNext(disk'.base.version, disk'.base.body),
         edits' \in 0 .. MaxEdits, faults' \in 0 .. MaxFaults
  PROVE  IInv'
<1> DEFINE o == work[h].op
<1> USE DEF IInv
<1>1. Typed /\ work[h].pc # "free" /\ UNCHANGED <<lease, chain, ops, client>>
  BY Types DEF Serves, Active, nodeVars
<1>2. /\ o \in OpIds /\ o # 0 /\ ops[o].code \in {"none", "UNKNOWN"}
      /\ Waited(h) => ops[o].code = "none"
      /\ work[h].kind \in {"save", "commit"} => work[h].kind = IF ops[o].kind = "save" THEN "save" ELSE "commit"
      /\ \A i \in DOMAIN chain : chain[i].op = o => chain[i].h = h
      /\ \A g \in Slots : g # h => work[g].op # o
  BY <1>1, InService
<1>3. /\ work'[h] = w /\ work' \in [Slots -> SlotStates]
      /\ \A g \in Slots : g # h => work'[g] = work[g]
  BY <1>1 DEF Typed, Serves
<1>4. (w.op = o /\ w.kind = work[h].kind /\ w.pc # "free") \/ (w = Idle /\ ~Waited(h))
  BY DEF Serves
<1>5. w.pc = "done" => Waited(h)
  BY DEF Serves, Idle
<1>6. Idle.pc = "free" /\ Idle.kind = "none" /\ Idle.op = 0 /\ Idle.reply.code = "none"
  BY DEF Idle, NoReply
<1>7. \A g \in Slots : Waited(g)' <=> Waited(g)
  BY <1>1 DEF Waited
<1>8. OpIds' = OpIds /\ Items' = Items /\ Commitments' = Commitments
  BY <1>1 DEF OpIds, Items, Commitments
<1>9. work[h].pc = "sent" =>
        /\ ops[o].kind = "sync" /\ ops[o].expected = work[h].cap /\ Request(h) \in Commitments
        /\ Request(h).op = o /\ Request(h).version = work[h].cap.base.version
        /\ Request(h).body = Body(work[h].cap)
        /\ NativeAt(work[h].cap.base.version, work[h].cap.base.body)
  <2> SUFFICES ASSUME work[h].pc = "sent"
               PROVE  /\ ops[o].kind = "sync" /\ ops[o].expected = work[h].cap /\ Request(h) \in Commitments
                      /\ Request(h).op = o /\ Request(h).version = work[h].cap.base.version
                      /\ Request(h).body = Body(work[h].cap)
                      /\ NativeAt(work[h].cap.base.version, work[h].cap.base.body)
    OBVIOUS
  <2>1. ops[o].kind = "sync"
    BY DEF SlotInv
  <2>2. ops[o].expected = work[h].cap /\ NativeAt(work[h].cap.base.version, work[h].cap.base.body)
    BY DEF WriteInv
  <2>3. work[h].cap \in Snapshots
    BY <1>1 DEF Typed, SlotStates
  <2>4. work[h].cap.base.version \in Nat /\ Body(work[h].cap) \in Bodies
    BY <2>3 DEF Snapshots, Body, Bodies
  <2> QED BY <1>2, <2>1, <2>2, <2>4 DEF Request, Commitments
<1>10. /\ moved' \subseteq moved \cup {o} /\ committed' \subseteq committed \cup {o}
       /\ moved \subseteq moved' /\ committed \subseteq committed'
       /\ o \in moved' => o \in moved \/ work[h].kind = "save"
       /\ o \in committed' => o \in committed \/ work[h].kind = "commit"
       /\ pipe' = pipe \/ (pipe' = pipe \cup {Request(h)} /\ work[h].pc = "sent")
       /\ disk' = disk \/ \A g \in Slots \ {h} : work[g].pc # "move"
  BY DEF Does
<1>11. /\ native' \in Seq(Bodies) /\ Len(native) <= Len(native')
       /\ \A v, b : NativeAt(v, b) => NativeNext(v, b)
  BY <1>1, NativeKeeps DEF Does
<1>12. Typed'
  <2>1. pipe' \in SUBSET Commitments
    BY <1>1, <1>9, <1>10 DEF Typed
  <2>2. moved' \subseteq OpIds /\ committed' \subseteq OpIds
    BY <1>1, <1>2, <1>10 DEF Typed
  <2> QED BY <1>1, <1>3, <1>8, <1>11, <2>1, <2>2 DEF Typed
<1> HIDE DEF o
<1>13. ChainInv'
  <2>1. ASSUME NEW i \in DOMAIN chain
        PROVE  /\ chain[i].step = "queued" => \A g \in Slots : work'[g].op # chain[i].op
               /\ chain[i].step # "queued" =>
                    /\ work'[chain[i].h].pc # "free" /\ work'[chain[i].h].op = chain[i].op
                    /\ work'[chain[i].h].kind = KindAt[chain[i].step]
    <3>1. chain[i].op \in OpIds /\ chain[i].op # 0 /\ chain[i] \in Items
      BY <1>1, Elements DEF OpIds
    <3>2. ASSUME chain[i].step = "queued", NEW g \in Slots PROVE work'[g].op # chain[i].op
      BY <1>3, <1>4, <1>6, <3>1, <3>2 DEF ChainInv, o
    <3>3. ASSUME chain[i].step # "queued"
          PROVE  /\ work'[chain[i].h].pc # "free" /\ work'[chain[i].h].op = chain[i].op
                 /\ work'[chain[i].h].kind = KindAt[chain[i].step]
      <4>1. chain[i].h \in Slots
        BY <3>1, <3>3 DEF ChainInv, Items
      <4>2. CASE chain[i].h = h
        <5>1. Waited(h)
          BY <4>2 DEF Waited
        <5>2. w.op = o /\ w.kind = work[h].kind /\ w.pc # "free"
          BY <1>4, <5>1
        <5> QED BY <1>3, <3>3, <4>1, <4>2, <5>2 DEF ChainInv, o
      <4>3. CASE chain[i].h # h
        BY <1>3, <3>3, <4>1, <4>3 DEF ChainInv
      <4> QED BY <4>2, <4>3
    <3> QED BY <3>2, <3>3
  <2> QED BY <1>1, <2>1 DEF ChainInv
<1>14. SlotInv'
  <2>1. ASSUME NEW f \in Slots, NEW g \in Slots, work'[f].op = work'[g].op, work'[g].op # 0
        PROVE  f = g
    BY <1>2, <1>3, <1>4, <1>6, <2>1 DEF SlotInv
  <2>2. ASSUME NEW g \in Slots
        PROVE /\ work'[g].pc = "free" => work'[g] = Idle
              /\ work'[g].pc # "free" => work'[g].op \in OpIds
              /\ work'[g].pc # "free" /\ ~Waited(g) => work'[g].pc # "done" /\ ops[work'[g].op].code = "UNKNOWN"
              /\ work'[g].kind = "save" => ops[work'[g].op].kind = "save"
              /\ work'[g].kind \in {"validate", "commit"} => ops[work'[g].op].kind = "sync"
              /\ work'[g].pc \in {"compare", "move", "after"} => work'[g].kind = "save"
              /\ work'[g].pc \in {"managed", "sent", "acked", "identity"} => work'[g].kind = "commit"
    <3>1. CASE g # h
      BY <1>3, <3>1 DEF SlotInv
    <3>2. CASE g = h /\ w = Idle
      BY <1>3, <1>6, <3>2
    <3>3. CASE g = h /\ w.op = o /\ w.kind = work[h].kind /\ w.pc # "free"
      <4>1. /\ w.pc \in {"compare", "move", "after"} => w.kind = "save"
            /\ w.pc \in {"managed", "sent", "acked", "identity"} => w.kind = "commit"
        BY DEF Serves
      <4>2. ~Waited(h) => ops[o].code = "UNKNOWN"
        BY <1>1 DEF SlotInv, o
      <4>3. /\ w.kind = "save" => ops[o].kind = "save"
            /\ w.kind \in {"validate", "commit"} => ops[o].kind = "sync"
        BY <1>1, <3>3 DEF SlotInv, o
      <4> QED BY <1>2, <1>3, <1>5, <3>3, <4>1, <4>2, <4>3
    <3> QED BY <1>4, <3>1, <3>2, <3>3
  <2> QED BY <1>1, <1>7, <1>8, <2>1, <2>2 DEF SlotInv
<1>15. \A p \in Landed' : p \in Landed \/ p = o
  BY <1>9, <1>10 DEF Landed, o
<1>16. CodesInv'
  <2>1. \A p \in OpIds : ops[p].code \in Refusals => p \notin Landed'
    BY <1>2, <1>15 DEF CodesInv, Refusals
  <2>2. \A g \in Slots : /\ work'[g].reply.code = "PARTIAL" => work'[g].kind = "save"
                         /\ work'[g].reply.code = "CHECKPOINT" => work'[g].kind = "commit"
                         /\ work'[g].reply.code # "READBACK"
                         /\ work'[g].pc = "done" => work'[g].reply.code # "none"
    BY <1>3 DEF CodesInv, Serves
  <2> QED BY <1>1, <1>8, <2>1, <2>2 DEF CodesInv
<1>17. ClientInv'
  BY <1>1, <1>8 DEF ClientInv, Writing
<1>18. CodesAreTrue'
  <2>1. \A p \in OpIds : ops[p].code \in Refusals => p \notin moved' \cup committed'
    BY <1>2, <1>10 DEF CodesAreTrue, Refusals
  <2> QED BY <1>1, <1>8, <1>10, <2>1 DEF CodesAreTrue
<1>19. NothingAfterDoubt'
  BY <1>1, <1>8 DEF NothingAfterDoubt
<1>20. BaselineWasNative'
  BY <1>12, Types DEF BaselineWasNative, NativeNext
<1>21. LandedInv'
  <2>1. \A p \in moved' : ops'[p].kind = "save"
    BY <1>1, <1>2, <1>10 DEF LandedInv
  <2>2. \A p \in committed' : ops'[p].kind = "sync"
    <3>1. work[h].kind = "commit" => ops[o].kind = "sync"
      BY DEF SlotInv, o
    <3> QED BY <1>1, <1>2, <1>10, <3>1 DEF LandedInv
  <2>3. \A r \in pipe' : ops'[r.op].kind = "sync"
    BY <1>1, <1>9, <1>10 DEF LandedInv
  <2>4. o \in Landed' => o \in Landed \/ work[h].kind \in {"save", "commit"}
    <3>1. work[h].pc = "sent" => work[h].kind = "commit"
      BY DEF SlotInv
    <3> QED BY <1>10, <3>1 DEF Landed
  <2>5. ASSUME NEW i \in DOMAIN chain
        PROVE  /\ chain[i].step \in {"queued", "inspect", "validate"} => chain[i].op \notin Landed'
               /\ chain[i].step = "readback" => chain[i].op \in committed'
    <3>1. ASSUME chain[i].step \in {"queued", "inspect", "validate"}, chain[i].op = o
          PROVE  work[h].kind \notin {"save", "commit"}
      <4>1. chain[i].step # "queued" /\ chain[i].h = h
        BY <1>2, <3>1 DEF ChainInv, o
      <4>2. work[h].kind = KindAt[chain[i].step]
        BY <4>1 DEF ChainInv
      <4> QED BY <3>1, <4>1, <4>2 DEF KindAt
    <3> QED BY <1>10, <1>15, <2>4, <3>1 DEF LandedInv
  <2>6. ASSUME NEW g \in Slots
        PROVE /\ work'[g].kind = "save" /\ work'[g].op \in Landed' =>
                 work'[g].pc = "after" \/ (work'[g].pc = "done" /\ Meaning("save", work'[g].reply.code) \notin Refusals)
              /\ work'[g].kind = "commit" /\ work'[g].op \in Landed' =>
                   work'[g].pc \in {"acked", "identity"}
                     \/ (work'[g].pc = "done" /\ Meaning("commit", work'[g].reply.code) \notin Refusals)
              /\ work'[g].pc \in {"acked", "identity"} => work'[g].op \in committed'
              /\ work'[g].pc = "after" \/ (work'[g].pc = "done" /\ work'[g].kind = "save" /\ work'[g].reply.code = "ok") =>
                   work'[g].op \in moved' \/ ops[work'[g].op].text = ops[work'[g].op].expected.source
              /\ work'[g].pc = "done" /\ work'[g].kind = "commit" /\ work'[g].reply.code = "ok" => work'[g].op \in committed'
    <3>1. CASE g = h
      BY <1>3, <3>1 DEF LandsRight
    <3>2. CASE g # h
      <4>1. work'[g] = work[g] /\ (work[g].op \in Landed' => work[g].op \in Landed)
        BY <1>2, <1>3, <1>15, <3>2
      <4> QED BY <1>10, <4>1 DEF LandedInv
    <3> QED BY <3>1, <3>2
  <2> QED BY <1>1, <2>1, <2>2, <2>3, <2>5, <2>6 DEF LandedInv
<1>22. WriteInv'
  <2>1. ASSUME NEW f \in Slots, NEW g \in Slots, Holds(f)', Holds(g)'
        PROVE  f = g
    <3>1. Holds(h)' => Holds(h) \/ ~Busy(h)
      BY <1>3 DEF WritesRight, Holds
    <3>2. \A e \in Slots : e # h => (Holds(e)' <=> Holds(e))
      BY <1>3 DEF Holds
    <3>3. \A e \in Slots : e # h /\ Holds(h)' => ~Holds(e)
      BY <3>1 DEF Busy, WriteInv
    <3>4. CASE f = h \/ g = h
      BY <2>1, <3>2, <3>3, <3>4
    <3>5. CASE f # h /\ g # h
      BY <2>1, <3>2, <3>5 DEF WriteInv
    <3> QED BY <3>4, <3>5
  <2>2. ASSUME NEW g \in Slots
        PROVE  /\ work'[g].pc \in {"compare", "move", "after", "managed", "sent", "acked", "identity"}
                    => work'[g].cap = ops[work'[g].op].expected
               /\ work'[g].pc = "move" => /\ Managed(disk') = Managed(work'[g].cap)
                                          /\ work'[g].raced \/ disk'.source = work'[g].cap.source
               /\ work'[g].pc \in {"managed", "sent"}
                    => NativeNext(work'[g].cap.base.version, work'[g].cap.base.body)
               /\ work'[g].pc = "acked" => NativeNext(NextVersion(work'[g].cap), Body(work'[g].cap))
    <3>1. CASE g = h
      BY <1>3, <3>1 DEF WritesRight
    <3>2. CASE g # h
      <4>1. work[g].pc = "move" => disk' = disk
        BY <1>10, <3>2
      <4> QED BY <1>3, <1>11, <3>2, <4>1 DEF WriteInv
    <3> QED BY <3>1, <3>2
  <2>3. ASSUME NEW r \in pipe'
        PROVE  /\ r.version = ops[r.op].expected.base.version
               /\ r.body = Body(ops[r.op].expected)
               /\ NativeNext(r.version, ops[r.op].expected.base.body)
    <3>1. CASE r \in pipe
      BY <1>11, <3>1 DEF WriteInv
    <3>2. CASE r = Request(h) /\ work[h].pc = "sent"
      BY <1>9, <1>11, <3>2
    <3> QED BY <1>10, <3>1, <3>2
  <2> QED BY <1>1, <2>1, <2>2, <2>3 DEF WriteInv, NativeAt, NativeNext
<1> QED BY <1>12, <1>13, <1>14, <1>16, <1>17, <1>18, <1>19, <1>20, <1>21, <1>22, Types

(* A request is answered.                                                   *)
Tells(h, code) ==
  /\ code # "none" /\ code # "READBACK"
  /\ code = "PARTIAL" => work[h].kind = "save"
  /\ code = "CHECKPOINT" => work[h].kind = "commit"
  /\ work[h].kind = "save" /\ work[h].op \in Landed' => Meaning("save", code) \notin Refusals
  /\ work[h].kind = "commit" /\ work[h].op \in Landed' => Meaning("commit", code) \notin Refusals
  /\ work[h].kind = "save" /\ code = "ok" =>
       work[h].op \in moved' \/ ops[work[h].op].text = ops[work[h].op].expected.source
  /\ work[h].kind = "commit" /\ code = "ok" => work[h].op \in committed'

LEMMA AnswerPreserves ==
  ASSUME IInv, NEW h \in Slots, Active(h), NEW reply \in Replies, Answers(h, reply),
         Tells(h, reply.code), Does(h), UNCHANGED <<nodeVars, client>>,
         disk' \in Snapshots, NativeNext(disk'.base.version, disk'.base.body),
         edits' \in 0 .. MaxEdits, faults' \in 0 .. MaxFaults
  PROVE  IInv'
<1> DEFINE done == [Idle EXCEPT !.op = work[h].op, !.kind = work[h].kind, !.pc = "done", !.reply = reply]
<1>1. work[h] \in SlotStates
  BY Types DEF IInv, Typed
<1>2. done \in SlotStates /\ done.op = work[h].op /\ done.kind = work[h].kind /\ done.pc = "done" /\ done.reply = reply
  BY <1>1, FirstSnapshotIsOne DEF SlotStates, Idle
<1>3. Idle.pc = "free" /\ Idle.kind = "none" /\ Idle.reply.code = "none" /\ Idle \in SlotStates
  BY FirstSnapshotIsOne DEF Idle, NoReply
<1>4. CASE Waited(h)
  <2>1. work' = [work EXCEPT ![h] = done]
    BY <1>4 DEF Answers, Answered, Waited
  <2> HIDE DEF done
  <2>2. Serves(h, done)
    BY <1>2, <1>4, <2>1 DEF Serves, Tells
  <2>3. LandsRight(done)
    BY <1>2 DEF LandsRight, Tells
  <2>4. WritesRight(h, done)
    BY <1>2 DEF WritesRight
  <2> QED BY <2>2, <2>3, <2>4, ServePreserves
<1>5. CASE ~Waited(h)
  <2>1. work' = [work EXCEPT ![h] = Idle]
    BY <1>5 DEF Answers, Answered, Waited
  <2>2. Serves(h, Idle)
    BY <1>3, <1>5, <2>1 DEF Serves
  <2>3. LandsRight(Idle) /\ WritesRight(h, Idle)
    BY <1>3 DEF LandsRight, WritesRight
  <2> QED BY <2>2, <2>3, ServePreserves
<1> QED BY <1>4, <1>5

(* A request that reads, or refuses, leaves everything else as it is.       *)
LEMMA Rests ==
  ASSUME IInv, NEW h \in Slots, UNCHANGED <<disk, hostVars, moved>>
  PROVE  /\ Does(h) /\ Landed' = Landed /\ disk' \in Snapshots
         /\ NativeNext(disk'.base.version, disk'.base.body)
         /\ \A v, b : NativeAt(v, b) => NativeNext(v, b)
  BY Types DEF IInv, Typed, Does, NativeGrows, Landed, hostVars, BaselineWasNative, NativeNext, NativeAt

(* Before its effect, an operation has landed nowhere.                      *)
LEMMA NotYet ==
  ASSUME IInv, NEW h \in Slots, work[h].pc \in {"start", "compare", "move", "managed", "sent"}
  PROVE  work[h].kind \in {"save", "commit"} => work[h].op \notin Landed
  BY DEF IInv, LandedInv

LEMMA RefusalPreserves ==
  ASSUME IInv, NEW h \in Slots, work[h].pc \in {"start", "compare", "move", "managed", "sent"},
         NEW code \in {"BUSY", "CONFLICT", "FAILED", "TIMEOUT", "HOST"}, Answers(h, Reply(code)),
         UNCHANGED <<disk, hostVars, nodeVars, client, moved>>,
         edits' \in 0 .. MaxEdits, faults' \in 0 .. MaxFaults
  PROVE  IInv'
<1>1. Reply(code) \in Replies /\ Reply(code).code = code
  BY FirstSnapshotIsOne DEF Reply, Codes, Refusals
<1>2. Landed' = Landed /\ (work[h].kind \in {"save", "commit"} => work[h].op \notin Landed)
  BY Rests, NotYet
<1>3. Tells(h, code)
  BY <1>2 DEF Tells
<1> QED BY <1>1, <1>3, Rests, AnswerPreserves DEF Active

LEMMA Bounds ==
  ASSUME IInv
  PROVE  /\ UNCHANGED edits => edits' \in 0 .. MaxEdits
         /\ UNCHANGED faults => faults' \in 0 .. MaxFaults
         /\ Fault => faults' \in 0 .. MaxFaults
         /\ Edit => edits' \in 0 .. MaxEdits
  BY Types, DocumentAssumption DEF IInv, Typed, Fault, Edit

LEMMA GoesServes ==
  ASSUME IInv, NEW h \in Slots, NEW w \in SlotStates, Active(h), work' = [work EXCEPT ![h] = w],
         UNCHANGED <<nodeVars, client>>, w.op = work[h].op, w.kind = work[h].kind, w.reply = work[h].reply,
         \/ w.kind = "save" /\ w.pc \in {"compare", "move", "after"}
         \/ w.kind = "commit" /\ w.pc \in {"managed", "sent", "acked", "identity"}
  PROVE  Serves(h, w)
<1>1. /\ w.reply.code = "PARTIAL" => w.kind = "save"
      /\ w.reply.code = "CHECKPOINT" => w.kind = "commit"
      /\ w.reply.code # "READBACK"
  BY DEF IInv, CodesInv
<1> QED BY <1>1 DEF Serves

LEMMA CapturesPreserves ==
  ASSUME IInv, NEW h \in Slots, Captures(h)
  PROVE  IInv'
<1> USE DEF IInv
<1>1. /\ work[h].pc = "start" /\ UNCHANGED <<disk, hostVars, nodeVars, client, moved, counts>>
      /\ edits' \in 0 .. MaxEdits /\ faults' \in 0 .. MaxFaults
  BY Bounds DEF Captures, counts
<1>2. ASSUME NEW code \in {"BUSY", "CONFLICT", "FAILED"}, Answers(h, Reply(code)) PROVE IInv'
  BY <1>1, <1>2, RefusalPreserves
<1>3. CASE Answers(h, Receipt(disk)) /\ work[h].kind \in {"inspect", "validate"}
  <2>1. Receipt(disk) \in Replies /\ Receipt(disk).code = "ok"
    BY Types, FirstSnapshotIsOne DEF Typed, Receipt
  <2>2. Tells(h, "ok")
    BY <1>3 DEF Tells
  <2> QED BY <1>1, <1>3, <2>1, <2>2, Rests, AnswerPreserves DEF Active
<1>4. CASE /\ ~Busy(h) /\ work[h].kind \in {"save", "commit"} /\ RequireExpected(h)
           /\ work' = [work EXCEPT ![h].cap = disk, ![h].pc = IF work[h].kind = "save" THEN "compare" ELSE "managed"]
  <2> DEFINE w == [work[h] EXCEPT !.cap = disk, !.pc = IF work[h].kind = "save" THEN "compare" ELSE "managed"]
  <2>1. Typed /\ work[h] \in SlotStates
    BY Types DEF Typed
  <2>2. /\ w \in SlotStates /\ w.op = work[h].op /\ w.kind = work[h].kind /\ w.reply = work[h].reply
        /\ w.cap = disk /\ w.pc = IF work[h].kind = "save" THEN "compare" ELSE "managed"
    BY <2>1 DEF SlotStates, Typed
  <2>3. work' = [work EXCEPT ![h] = w]
    BY <1>4, <2>1 DEF Typed
  <2> HIDE DEF w
  <2>4. Serves(h, w)
    BY <1>1, <1>4, <2>2, <2>3, GoesServes DEF Active
  <2>5. LandsRight(w)
    BY <1>1, <1>4, <2>2, Rests, NotYet DEF LandsRight
  <2>6. WritesRight(h, w)
    BY <1>1, <1>4, <2>2, Rests DEF WritesRight, RequireExpected
  <2> QED BY <1>1, <2>4, <2>5, <2>6, Rests, ServePreserves
<1> QED BY <1>2, <1>3, <1>4 DEF Captures

LEMMA ComparesPreserves ==
  ASSUME IInv, NEW h \in Slots, Compares(h)
  PROVE  IInv'
<1> USE DEF IInv
<1>1. /\ work[h].pc = "compare" /\ UNCHANGED <<disk, hostVars, nodeVars, client, moved, counts>>
      /\ edits' \in 0 .. MaxEdits /\ faults' \in 0 .. MaxFaults
  BY Bounds DEF Compares, counts
<1>2. CASE Answers(h, Reply("CONFLICT"))
  BY <1>1, <1>2, RefusalPreserves
<1>3. CASE disk = work[h].cap /\ Goes(h, IF ops[work[h].op].text = disk.source THEN "after" ELSE "move")
  <2> DEFINE w == [work[h] EXCEPT !.pc = IF ops[work[h].op].text = disk.source THEN "after" ELSE "move"]
  <2>1. Typed /\ work[h] \in SlotStates /\ work[h].kind = "save" /\ work[h].cap = ops[work[h].op].expected
    BY <1>1, Types DEF Typed, SlotInv, WriteInv
  <2>2. /\ w \in SlotStates /\ w.op = work[h].op /\ w.kind = work[h].kind /\ w.reply = work[h].reply
        /\ w.cap = disk /\ w.pc = IF ops[work[h].op].text = disk.source THEN "after" ELSE "move"
    BY <1>3, <2>1 DEF SlotStates
  <2>3. work' = [work EXCEPT ![h] = w]
    BY <1>3, <2>1 DEF Typed, Goes
  <2> HIDE DEF w
  <2>4. Serves(h, w)
    BY <1>1, <2>1, <2>2, <2>3, GoesServes DEF Active
  <2>5. LandsRight(w)
    <3>1. w.op \notin Landed'
      BY <1>1, <2>1, <2>2, Rests, NotYet
    <3> QED BY <1>3, <2>1, <2>2, <3>1 DEF LandsRight
  <2>6. WritesRight(h, w)
    BY <1>1, <1>3, <2>1, <2>2 DEF WritesRight, Holds
  <2> QED BY <1>1, <2>4, <2>5, <2>6, Rests, ServePreserves
<1> QED BY <1>2, <1>3 DEF Compares

LEMMA MovesPreserves ==
  ASSUME IInv, NEW h \in Slots, Moves(h)
  PROVE  IInv'
<1> DEFINE w == [work[h] EXCEPT !.pc = "after"]
<1> USE DEF IInv
<1>1. /\ work[h].pc = "move" /\ UNCHANGED <<hostVars, nodeVars, client, counts>>
      /\ disk' = [disk EXCEPT !.source = ops[work[h].op].text] /\ moved' = moved \cup {work[h].op}
      /\ edits' \in 0 .. MaxEdits /\ faults' \in 0 .. MaxFaults
  BY Bounds DEF Moves, counts
<1>2. /\ Typed /\ work[h] \in SlotStates /\ work[h].kind = "save" /\ work[h].cap = ops[work[h].op].expected
      /\ work[h].op \in OpIds
  BY <1>1, Types DEF Typed, SlotInv, WriteInv
<1>3. /\ w \in SlotStates /\ w.op = work[h].op /\ w.kind = work[h].kind /\ w.reply = work[h].reply
      /\ w.cap = work[h].cap /\ w.pc = "after"
  BY <1>2 DEF SlotStates
<1>4. work' = [work EXCEPT ![h] = w]
  BY <1>2 DEF Typed, Goes, Moves
<1>5. disk' \in Snapshots /\ disk'.base = disk.base
  <2>1. ops[work[h].op].text \in Texts
    BY <1>2, Elements DEF Operations
  <2> QED BY <1>1, <1>2, <2>1 DEF Typed, Snapshots
<1>6. \A g \in Slots \ {h} : work[g].pc # "move"
  BY <1>1 DEF WriteInv, Holds
<1> HIDE DEF w
<1>7. Serves(h, w)
  BY <1>1, <1>2, <1>3, <1>4, GoesServes DEF Active
<1>8. Does(h)
  BY <1>1, <1>2, <1>6 DEF Does, NativeGrows, hostVars
<1>9. LandsRight(w)
  BY <1>1, <1>2, <1>3 DEF LandsRight
<1>10. WritesRight(h, w)
  BY <1>1, <1>2, <1>3 DEF WritesRight, Holds
<1>11. NativeNext(disk'.base.version, disk'.base.body)
  BY <1>1, <1>5 DEF BaselineWasNative, NativeNext, hostVars
<1> QED BY <1>1, <1>5, <1>7, <1>8, <1>9, <1>10, <1>11, ServePreserves

LEMMA ConfirmsPreserves ==
  ASSUME IInv, NEW h \in Slots, Confirms(h)
  PROVE  IInv'
<1> USE DEF IInv
<1>1. /\ work[h].pc = "after" /\ UNCHANGED <<disk, hostVars, nodeVars, client, moved, counts>>
      /\ edits' \in 0 .. MaxEdits /\ faults' \in 0 .. MaxFaults
  BY Bounds DEF Confirms, counts
<1>2. Typed /\ work[h].kind = "save" /\ work[h].op \in OpIds /\ ops[work[h].op].kind = "save"
  BY <1>1, Types DEF SlotInv
<1>3. work[h].op \in moved \/ ops[work[h].op].text = ops[work[h].op].expected.source
  BY <1>1 DEF LandedInv
<1>4. Landed' = Landed /\ (work[h].op \in Landed => work[h].op \in moved)
  BY <1>1, <1>2, Rests DEF LandedInv, Landed
<1>5. PICK reply \in Replies :
        /\ Answers(h, reply)
        /\ reply.code \in {"ok", "PARTIAL", "CONFLICT"} /\ (reply.code = "CONFLICT" => work[h].op \notin moved)
  <2>1. /\ Receipt(disk) \in Replies /\ Receipt(disk).code = "ok"
        /\ Reply("PARTIAL") \in Replies /\ Reply("PARTIAL").code = "PARTIAL"
        /\ Reply("CONFLICT") \in Replies /\ Reply("CONFLICT").code = "CONFLICT"
    BY <1>2, FirstSnapshotIsOne DEF Typed, Receipt, Reply, Codes, Refusals, Unconfirmed
  <2> QED BY <2>1 DEF Confirms
<1>6. Tells(h, reply.code)
  BY <1>1, <1>2, <1>3, <1>4, <1>5 DEF Tells, Meaning, Refusals
<1> QED BY <1>1, <1>5, <1>6, Rests, AnswerPreserves DEF Active

LEMMA SaveFailsPreserves ==
  ASSUME IInv, NEW h \in Slots, SaveFails(h)
  PROVE  IInv'
<1> USE DEF IInv
<1>1. /\ work[h].kind = "save" /\ work[h].pc \in {"compare", "move", "after"}
      /\ UNCHANGED <<disk, hostVars, nodeVars, client, moved, edits>>
      /\ edits' \in 0 .. MaxEdits /\ faults' \in 0 .. MaxFaults
  BY Bounds DEF SaveFails
<1>2. PICK code \in {"FAILED", "TIMEOUT", "PARTIAL"} :
        Answers(h, Reply(code)) /\ (code # "PARTIAL" => work[h].op \notin moved)
  BY DEF SaveFails
<1>3. Reply(code) \in Replies /\ Reply(code).code = code
  BY FirstSnapshotIsOne DEF Reply, Codes, Refusals, Unconfirmed
<1>4. work[h].op \in OpIds /\ ops[work[h].op].kind = "save"
  BY <1>1 DEF SlotInv
<1>5. Landed' = Landed /\ (work[h].op \in Landed => work[h].op \in moved)
  BY <1>1, <1>4, Rests DEF LandedInv, Landed
<1>6. Tells(h, code)
  BY <1>1, <1>2, <1>5 DEF Tells, Meaning, Refusals
<1> QED BY <1>1, <1>2, <1>3, <1>6, Rests, AnswerPreserves DEF Active

LEMMA CommitsPreserves ==
  ASSUME IInv, NEW h \in Slots, Commits(h)
  PROVE  IInv'
<1> DEFINE w == [work[h] EXCEPT !.pc = "sent"]
<1> USE DEF IInv
<1>1. /\ work[h].pc = "managed" /\ UNCHANGED <<disk, hostVars, nodeVars, client, moved, counts>>
      /\ edits' \in 0 .. MaxEdits /\ faults' \in 0 .. MaxFaults
  BY Bounds DEF Commits, counts
<1>2. ASSUME NEW code \in {"BUSY", "CONFLICT"}, Answers(h, Reply(code)) PROVE IInv'
  BY <1>1, <1>2, RefusalPreserves
<1>3. CASE Goes(h, "sent")
  <2>1. Typed /\ work[h] \in SlotStates /\ work[h].kind = "commit" /\ work[h].cap = ops[work[h].op].expected
    BY <1>1, Types DEF Typed, SlotInv, WriteInv
  <2>2. /\ w \in SlotStates /\ w.op = work[h].op /\ w.kind = work[h].kind /\ w.reply = work[h].reply
        /\ w.cap = work[h].cap /\ w.pc = "sent"
    BY <2>1 DEF SlotStates
  <2>3. work' = [work EXCEPT ![h] = w]
    BY <1>3, <2>1 DEF Typed, Goes
  <2> HIDE DEF w
  <2>4. Serves(h, w)
    BY <1>1, <2>1, <2>2, <2>3, GoesServes DEF Active
  <2>5. LandsRight(w)
    BY <1>1, <2>1, <2>2, Rests, NotYet DEF LandsRight
  <2>6. WritesRight(h, w)
    BY <1>1, <2>1, <2>2, Rests DEF WritesRight, WriteInv
  <2> QED BY <1>1, <2>4, <2>5, <2>6, Rests, ServePreserves
<1> QED BY <1>2, <1>3 DEF Commits

LEMMA HostAnswersPreserves ==
  ASSUME IInv, NEW h \in Slots, HostAnswers(h)
  PROVE  IInv'
<1> DEFINE w == [work[h] EXCEPT !.pc = "acked"]
<1> USE DEF IInv
<1>1. /\ work[h].pc = "sent" /\ UNCHANGED <<disk, pipe, nodeVars, client, moved, counts>>
      /\ edits' \in 0 .. MaxEdits /\ faults' \in 0 .. MaxFaults
  BY Bounds DEF HostAnswers, counts
<1>2. CASE Answers(h, Reply("HOST")) /\ UNCHANGED <<native, committed>>
  BY <1>1, <1>2, RefusalPreserves DEF hostVars
<1>3. CASE /\ Request(h).version = Len(native) /\ native' = Saved(Request(h))
           /\ committed' = committed \cup {work[h].op} /\ Goes(h, "acked")
  <2>1. /\ Typed /\ work[h] \in SlotStates /\ work[h].kind = "commit" /\ work[h].cap = ops[work[h].op].expected
        /\ NativeAt(work[h].cap.base.version, work[h].cap.base.body)
    BY <1>1, Types DEF Typed, SlotInv, WriteInv
  <2>2. /\ w \in SlotStates /\ w.op = work[h].op /\ w.kind = work[h].kind /\ w.reply = work[h].reply
        /\ w.cap = work[h].cap /\ w.pc = "acked"
    BY <2>1 DEF SlotStates
  <2>3. work' = [work EXCEPT ![h] = w]
    BY <1>3, <2>1 DEF Typed, Goes
  <2>4. /\ Request(h).version = work[h].cap.base.version /\ Request(h).body = Body(work[h].cap)
        /\ work[h].cap \in Snapshots /\ Body(work[h].cap) \in Bodies
    BY <2>1, BodiesOf DEF Request, SlotStates
  <2> HIDE DEF w
  <2>6. NativeGrows
    BY <1>3, <2>1, <2>4, SavedIs
  <2>7. NativeNext(NextVersion(work[h].cap), Body(work[h].cap))
    BY <1>3, <2>1, <2>4, SavedFor
  <2>8. disk' \in Snapshots /\ NativeNext(disk'.base.version, disk'.base.body)
    BY <1>1, <2>1, <2>6, NativeKeeps DEF Typed, BaselineWasNative, NativeAt
  <2>9. Serves(h, w)
    BY <1>1, <2>1, <2>2, <2>3, GoesServes DEF Active
  <2>10. LandsRight(w)
    BY <1>3, <2>1, <2>2 DEF LandsRight
  <2>11. WritesRight(h, w)
    BY <2>1, <2>2, <2>7 DEF WritesRight
  <2>12. Does(h)
    BY <1>1, <1>3, <2>1, <2>6 DEF Does
  <2> QED BY <1>1, <2>8, <2>9, <2>10, <2>11, <2>12, ServePreserves
<1> QED BY <1>2, <1>3 DEF HostAnswers

(* Whatever the host reports of a failure: when it saved, it does not refuse. *)
LEMMA HostFailsPreserves ==
  ASSUME IInv, NEW h \in Slots, HostFails(h)
  PROVE  IInv'
<1> USE DEF IInv
<1>1. /\ work[h].pc = "sent" /\ UNCHANGED <<disk, pipe, nodeVars, client, moved, edits>>
      /\ edits' \in 0 .. MaxEdits /\ faults' \in 0 .. MaxFaults
  BY Bounds DEF HostFails
<1>2. Typed /\ work[h] \in SlotStates /\ work[h].kind = "commit"
  BY <1>1, Types DEF Typed, SlotInv
<1>3. ASSUME native' = Saved(Request(h)), committed' = committed \cup {work[h].op},
             NEW code \in {"HOST_UNKNOWN", "HOST_PERSISTED"}, Answers(h, Reply(code))
      PROVE  IInv'
  <2>1. Reply(code) \in Replies /\ Reply(code).code = code
    BY FirstSnapshotIsOne DEF Reply, Codes, Unconfirmed
  <2>2. Tells(h, code)
    BY <1>2 DEF Tells, Meaning, Refusals
  <2>3. Request(h).body \in Bodies
    BY <1>2, BodiesOf DEF Request, SlotStates
  <2>4. NativeGrows
    BY <1>2, <1>3, <2>3, SavedIs
  <2>5. disk' \in Snapshots /\ NativeNext(disk'.base.version, disk'.base.body)
    BY <1>1, <1>2, <2>4, NativeKeeps DEF Typed, BaselineWasNative, NativeAt
  <2>6. Does(h)
    BY <1>1, <1>2, <1>3, <2>4 DEF Does
  <2> QED BY <1>1, <1>3, <2>1, <2>2, <2>5, <2>6, AnswerPreserves DEF Active
<1>4. ASSUME UNCHANGED <<native, committed>>, Answers(h, Reply("HOST_UNKNOWN"))
      PROVE  IInv'
  <2>1. Reply("HOST_UNKNOWN") \in Replies /\ Reply("HOST_UNKNOWN").code = "HOST_UNKNOWN"
    BY FirstSnapshotIsOne DEF Reply, Codes, Unconfirmed
  <2>2. Tells(h, "HOST_UNKNOWN")
    BY <1>2 DEF Tells, Meaning, Refusals
  <2> QED BY <1>1, <1>4, <2>1, <2>2, Rests, AnswerPreserves DEF Active, hostVars
<1>5. ASSUME UNCHANGED <<native, committed>>, Answers(h, Reply("HOST"))
      PROVE  IInv'
  BY <1>1, <1>5, RefusalPreserves DEF hostVars
<1> QED BY <1>3, <1>4, <1>5 DEF HostFails, HostReports

LEMMA ForgetsPreserves ==
  ASSUME IInv, NEW h \in Slots, Forgets(h)
  PROVE  IInv'
<1> USE DEF IInv
<1>1. /\ work[h].pc \in {"sent", "acked"} /\ UNCHANGED <<disk, native, committed, nodeVars, client, moved, edits>>
      /\ pipe' = IF work[h].pc = "sent" THEN pipe \cup {Request(h)} ELSE pipe
      /\ edits' \in 0 .. MaxEdits /\ faults' \in 0 .. MaxFaults
  BY Bounds DEF Forgets
<1>2. PICK code \in {"UNKNOWN", "ACK"} : Answers(h, Reply(code))
  BY DEF Forgets
<1>3. Reply(code) \in Replies /\ Reply(code).code = code
  BY FirstSnapshotIsOne DEF Reply, Codes, Unconfirmed
<1>4. Tells(h, code)
  BY <1>1 DEF Tells, Meaning, Refusals
<1>5. Does(h)
  BY <1>1 DEF Does, NativeGrows
<1>6. disk' \in Snapshots /\ NativeNext(disk'.base.version, disk'.base.body)
  BY <1>1, Types DEF Typed, BaselineWasNative, NativeNext
<1> QED BY <1>1, <1>2, <1>3, <1>4, <1>5, <1>6, AnswerPreserves DEF Active

LEMMA CheckpointPreserves ==
  ASSUME IInv, NEW h \in Slots, Checkpoint(h)
  PROVE  IInv'
<1> DEFINE w == [work[h] EXCEPT !.pc = "identity"]
<1> USE DEF IInv
<1>1. /\ work[h].pc = "acked" /\ UNCHANGED <<hostVars, nodeVars, client, moved, counts>>
      /\ edits' \in 0 .. MaxEdits /\ faults' \in 0 .. MaxFaults
  BY Bounds DEF Checkpoint, counts
<1>2. /\ Typed /\ work[h] \in SlotStates /\ work[h].kind = "commit" /\ work[h].cap = ops[work[h].op].expected
      /\ work[h].op \in committed /\ NativeAt(NextVersion(work[h].cap), Body(work[h].cap))
  BY <1>1, Types DEF Typed, SlotInv, WriteInv, LandedInv
<1>3. CASE Answers(h, Reply("CHECKPOINT")) /\ UNCHANGED disk
  <2>1. Reply("CHECKPOINT") \in Replies /\ Reply("CHECKPOINT").code = "CHECKPOINT"
    BY FirstSnapshotIsOne DEF Reply, Codes, Unconfirmed
  <2>2. Tells(h, "CHECKPOINT")
    BY <1>2 DEF Tells, Meaning, Refusals
  <2> QED BY <1>1, <1>3, <2>1, <2>2, Rests, AnswerPreserves DEF Active
<1>4. CASE /\ ~Busy(h) /\ Managed(disk) = Managed(work[h].cap)
           /\ disk' = [disk EXCEPT !.base = [version |-> NextVersion(work[h].cap), body |-> FrozenBody(h)]]
           /\ Goes(h, "identity")
  <2>1. /\ w \in SlotStates /\ w.op = work[h].op /\ w.kind = work[h].kind /\ w.reply = work[h].reply
        /\ w.cap = work[h].cap /\ w.pc = "identity"
    BY <1>2 DEF SlotStates
  <2>2. work' = [work EXCEPT ![h] = w]
    BY <1>2, <1>4 DEF Typed, Goes
  <2> HIDE DEF w
  <2>3. NextVersion(work[h].cap) \in Nat /\ Body(work[h].cap) \in Bodies
    BY <1>2, BodiesOf DEF SlotStates
  <2>4. /\ disk' \in Snapshots /\ disk'.base.version = NextVersion(work[h].cap)
        /\ disk'.base.body = Body(work[h].cap)
    <3> DEFINE base == [version |-> NextVersion(work[h].cap), body |-> Body(work[h].cap)]
    <3>1. disk \in Snapshots /\ disk' = [disk EXCEPT !.base = base]
      BY <1>2, <1>4 DEF Typed, FrozenBody, Snapshots
    <3>2. base \in [version : Nat, body : Bodies]
      BY <2>3
    <3>3. base.version = NextVersion(work[h].cap) /\ base.body = Body(work[h].cap)
      BY <2>3
    <3> HIDE DEF base
    <3> QED BY <3>1, <3>2, <3>3 DEF Snapshots
  <2>5. NativeNext(disk'.base.version, disk'.base.body)
    BY <1>1, <1>2, <2>4 DEF NativeNext, NativeAt, hostVars
  <2>6. Does(h)
    BY <1>1, <1>4 DEF Does, NativeGrows, Busy, Holds, hostVars
  <2>7. Serves(h, w)
    BY <1>1, <1>2, <2>1, <2>2, GoesServes DEF Active
  <2>8. LandsRight(w)
    BY <1>1, <1>2, <2>1 DEF LandsRight, hostVars
  <2>9. WritesRight(h, w)
    BY <1>2, <1>4, <2>1 DEF WritesRight
  <2> QED BY <1>1, <2>4, <2>5, <2>6, <2>7, <2>8, <2>9, ServePreserves
<1> QED BY <1>3, <1>4 DEF Checkpoint

LEMMA IdentifiesPreserves ==
  ASSUME IInv, NEW h \in Slots, Identifies(h)
  PROVE  IInv'
<1> USE DEF IInv
<1>1. /\ work[h].pc = "identity" /\ UNCHANGED <<hostVars, nodeVars, client, moved, counts>>
      /\ disk' = [disk EXCEPT !.id = disk.base.version]
      /\ edits' \in 0 .. MaxEdits /\ faults' \in 0 .. MaxFaults
  BY Bounds DEF Identifies, counts
<1>2. Typed /\ work[h].kind = "commit" /\ work[h].op \in committed
  BY <1>1, Types DEF SlotInv, LandedInv
<1>3. disk' \in Snapshots /\ disk'.base = disk.base
  BY <1>1, <1>2 DEF Typed, Snapshots
<1>4. PICK reply \in Replies : Answers(h, reply) /\ reply.code = "ok"
  BY <1>3, FirstSnapshotIsOne DEF Identifies, Receipt
<1>5. Tells(h, "ok")
  BY <1>1, <1>2 DEF Tells, Meaning, Refusals, hostVars
<1>6. Does(h)
  BY <1>1 DEF Does, NativeGrows, WriteInv, Holds, hostVars
<1>7. NativeNext(disk'.base.version, disk'.base.body)
  BY <1>1, <1>3 DEF BaselineWasNative, NativeNext, hostVars
<1> QED BY <1>1, <1>3, <1>4, <1>5, <1>6, <1>7, AnswerPreserves DEF Active

LEMMA CheckpointFailsPreserves ==
  ASSUME IInv, NEW h \in Slots, CheckpointFails(h) \/ HostUnavailable(h)
  PROVE  IInv'
<1> USE DEF IInv
<1>1. /\ UNCHANGED <<disk, hostVars, nodeVars, client, moved, edits>>
      /\ edits' \in 0 .. MaxEdits /\ faults' \in 0 .. MaxFaults
  BY Bounds DEF CheckpointFails, HostUnavailable
<1>2. CASE work[h].pc = "managed" /\ Answers(h, Reply("FAILED"))
  BY <1>1, <1>2, RefusalPreserves
<1>3. CASE work[h].pc \in {"acked", "identity"} /\ Answers(h, Reply("CHECKPOINT"))
  <2>1. Reply("CHECKPOINT") \in Replies /\ Reply("CHECKPOINT").code = "CHECKPOINT"
    BY FirstSnapshotIsOne DEF Reply, Codes, Unconfirmed
  <2>2. work[h].kind = "commit"
    BY <1>3 DEF SlotInv
  <2>3. Tells(h, "CHECKPOINT")
    BY <2>2 DEF Tells, Meaning, Refusals
  <2> QED BY <1>1, <1>3, <2>1, <2>3, Rests, AnswerPreserves DEF Active
<1> QED BY <1>2, <1>3 DEF CheckpointFails, HostUnavailable

-----------------------------------------------------------------------------
(* Steps beside the requests.                                              *)

(* A late request is carried out, or the native editor saves.               *)
LEMMA NativePreserves ==
  ASSUME IInv, HostIsLate \/ EditsNative
  PROVE  IInv'
<1> USE DEF IInv
<1>1. /\ UNCHANGED <<disk, lease, chain, ops, client, work, moved>>
      /\ edits' \in 0 .. MaxEdits /\ faults' \in 0 .. MaxFaults
  BY Bounds DEF HostIsLate, EditsNative, nodeVars, counts
<1>2. Typed /\ \A r \in pipe : r.body \in Bodies
  BY Types DEF Typed, Commitments
<1>3. /\ pipe' \subseteq pipe /\ committed \subseteq committed' /\ NativeGrows
      /\ committed' \subseteq committed \cup {r.op : r \in pipe}
  <2>1. CASE HostIsLate
    BY <1>2, <2>1, SavedIs DEF HostIsLate, NativeGrows
  <2>2. CASE EditsNative
    BY <2>2 DEF EditsNative, NativeGrows
  <2> QED BY <2>1, <2>2
<1>4. /\ native' \in Seq(Bodies) /\ Len(native) <= Len(native')
      /\ \A v, b : NativeAt(v, b) => NativeNext(v, b)
  BY <1>2, <1>3, NativeKeeps
<1>5. OpIds' = OpIds /\ Items' = Items /\ Commitments' = Commitments
  BY <1>1 DEF OpIds, Items, Commitments
<1>6. Typed'
  <2>1. committed' \subseteq OpIds
    BY <1>2, <1>3, Elements DEF Typed
  <2>2. pipe' \in SUBSET Commitments
    BY <1>2, <1>3 DEF Typed
  <2> QED BY <1>1, <1>2, <1>4, <1>5, <2>1, <2>2 DEF Typed
<1>7. \A p \in Landed' : p \in Landed
  BY <1>1, <1>3 DEF Landed
<1>8. ChainInv' /\ SlotInv'
  BY <1>1, <1>5 DEF ChainInv, SlotInv, Waited
<1>9. WriteInv'
  <2>1. \A g, h \in Slots : Holds(g)' /\ Holds(h)' => g = h
    BY <1>1 DEF WriteInv, Holds
  <2>2. ASSUME NEW h \in Slots
        PROVE  /\ work[h].pc \in {"managed", "sent"} => NativeNext(work[h].cap.base.version, work[h].cap.base.body)
               /\ work[h].pc = "acked" => NativeNext(NextVersion(work[h].cap), Body(work[h].cap))
    BY <1>4 DEF WriteInv
  <2>3. \A r \in pipe' : /\ r.version = ops[r.op].expected.base.version
                         /\ r.body = Body(ops[r.op].expected)
                         /\ NativeNext(r.version, ops[r.op].expected.base.body)
    BY <1>3, <1>4 DEF WriteInv
  <2> QED BY <1>1, <2>1, <2>2, <2>3 DEF WriteInv, NativeAt, NativeNext
<1>10. LandedInv'
  <2>1. \A p \in committed' : ops[p].kind = "sync"
    BY <1>3 DEF LandedInv
  <2>2. \A r \in pipe' : ops[r.op].kind = "sync"
    BY <1>3 DEF LandedInv
  <2>3. \A i \in DOMAIN chain : /\ chain[i].step \in {"queued", "inspect", "validate"} => chain[i].op \notin Landed'
                                /\ chain[i].step = "readback" => chain[i].op \in committed'
    BY <1>3, <1>7 DEF LandedInv
  <2>4. ASSUME NEW h \in Slots
        PROVE /\ work[h].kind = "save" /\ work[h].op \in Landed' =>
                 work[h].pc = "after" \/ (work[h].pc = "done" /\ Meaning("save", work[h].reply.code) \notin Refusals)
              /\ work[h].kind = "commit" /\ work[h].op \in Landed' =>
                   work[h].pc \in {"acked", "identity"}
                     \/ (work[h].pc = "done" /\ Meaning("commit", work[h].reply.code) \notin Refusals)
              /\ work[h].pc \in {"acked", "identity"} => work[h].op \in committed'
              /\ work[h].pc = "after" \/ (work[h].pc = "done" /\ work[h].kind = "save" /\ work[h].reply.code = "ok") =>
                   work[h].op \in moved \/ ops[work[h].op].text = ops[work[h].op].expected.source
              /\ work[h].pc = "done" /\ work[h].kind = "commit" /\ work[h].reply.code = "ok" => work[h].op \in committed'
    BY <1>3, <1>7 DEF LandedInv
  <2>5. \A p \in moved : ops[p].kind = "save"
    BY DEF LandedInv
  <2> QED BY <1>1, <2>1, <2>2, <2>3, <2>4, <2>5 DEF LandedInv
<1>11. CodesInv'
  BY <1>1, <1>5, <1>7 DEF CodesInv
<1>12. ClientInv'
  BY <1>1, <1>5 DEF ClientInv, Writing
<1>13. BaselineWasNative'
  BY <1>1, <1>4, <1>6, Types DEF BaselineWasNative, NativeAt, NativeNext
<1>14. CodesAreTrue'
  <2>1. \A p \in OpIds : ops[p].code \in Refusals => p \notin moved \cup committed'
    BY <1>3 DEF CodesInv, Landed
  <2> QED BY <1>1, <1>3, <1>5, <2>1 DEF CodesAreTrue
<1>15. NothingAfterDoubt'
  BY <1>1, <1>5 DEF NothingAfterDoubt
<1> QED BY <1>6, <1>8, <1>9, <1>10, <1>11, <1>12, <1>13, <1>14, <1>15, Types

(* The race that is excepted: an edit after the last look marks the save.   *)
LEMMA EditPreserves ==
  ASSUME IInv, EditsWorkingFile
  PROVE  IInv'
<1> USE DEF IInv
<1>1. /\ UNCHANGED <<native, pipe, committed, lease, chain, ops, client, moved>>
      /\ edits' \in 0 .. MaxEdits /\ faults' \in 0 .. MaxFaults
  BY Bounds DEF EditsWorkingFile, nodeVars, hostVars
<1>2. Typed
  BY Types
<1>3. disk' \in Snapshots /\ disk'.base = disk.base /\ disk'.id = disk.id
  <2>1. PICK t \in Texts : disk' \in {[disk EXCEPT !.source = t], [disk EXCEPT !.file = t]}
    BY DEF EditsWorkingFile
  <2> QED BY <1>2, <2>1 DEF Typed, Snapshots
<1>4. \A h \in Slots : work[h] \in SlotStates /\ work'[h] = [work[h] EXCEPT !.raced = @ \/ work[h].pc = "move"]
  BY <1>2 DEF Typed, EditsWorkingFile
<1>5. ASSUME NEW h \in Slots
      PROVE  /\ work'[h] \in SlotStates /\ work'[h].op = work[h].op /\ work'[h].kind = work[h].kind
             /\ work'[h].pc = work[h].pc /\ work'[h].cap = work[h].cap /\ work'[h].reply = work[h].reply
             /\ (work[h].pc = "move" => work'[h].raced) /\ (work[h].pc # "move" => work'[h] = work[h])
  <2> DEFINE raced == work[h].raced \/ work[h].pc = "move"
  <2>1. raced \in BOOLEAN /\ work'[h] = [work[h] EXCEPT !.raced = raced]
    BY <1>4
  <2>2. (work[h].pc = "move" => raced = TRUE) /\ (work[h].pc # "move" => raced = work[h].raced)
    BY <1>4 DEF SlotStates
  <2> HIDE DEF raced
  <2> QED BY <1>4, <2>1, <2>2 DEF SlotStates
<1>6. OpIds' = OpIds /\ Items' = Items /\ Commitments' = Commitments
  BY <1>1 DEF OpIds, Items, Commitments
<1>7. work' \in [Slots -> SlotStates]
  <2>1. work' = [h \in Slots |-> work'[h]]
    BY DEF EditsWorkingFile
  <2> QED BY <1>5, <2>1
<1>8. Typed'
  BY <1>1, <1>2, <1>3, <1>6, <1>7 DEF Typed
<1>9. ChainInv'
  <2>1. ASSUME NEW i \in DOMAIN chain, chain[i].step # "queued" PROVE chain[i].h \in Slots
    BY <1>2, <2>1, Elements DEF ChainInv, Items
  <2> QED BY <1>1, <1>5, <2>1 DEF ChainInv
<1>10. SlotInv'
  <2>1. \A h \in Slots : Waited(h)' <=> Waited(h)
    BY <1>1 DEF Waited
  <2>2. ASSUME NEW h \in Slots PROVE work'[h].pc = "free" => work'[h] = Idle
    BY <1>5 DEF SlotInv
  <2> QED BY <1>1, <1>5, <1>6, <2>1, <2>2 DEF SlotInv
<1>11. WriteInv'
  <2>1. \A g, h \in Slots : Holds(g)' /\ Holds(h)' => g = h
    BY <1>5 DEF WriteInv, Holds
  <2>2. Managed(disk') = Managed(disk)
    BY <1>3 DEF Managed
  <2>3. ASSUME NEW h \in Slots
        PROVE  /\ work'[h].pc \in {"compare", "move", "after", "managed", "sent", "acked", "identity"}
                    => work'[h].cap = ops[work'[h].op].expected
               /\ work'[h].pc = "move" => Managed(disk') = Managed(work'[h].cap) /\ work'[h].raced
               /\ work'[h].pc \in {"managed", "sent"}
                    => NativeAt(work'[h].cap.base.version, work'[h].cap.base.body)
               /\ work'[h].pc = "acked" => NativeAt(NextVersion(work'[h].cap), Body(work'[h].cap))
    BY <1>5, <2>2 DEF WriteInv
  <2> QED BY <1>1, <2>1, <2>3 DEF WriteInv, NativeAt
<1>12. Landed' = Landed
  BY <1>1 DEF Landed
<1>13. LandedInv' /\ CodesInv'
  BY <1>1, <1>5, <1>6, <1>12 DEF LandedInv, CodesInv
<1>14. ClientInv'
  BY <1>1, <1>6 DEF ClientInv, Writing
<1>15. BaselineWasNative' /\ CodesAreTrue' /\ NothingAfterDoubt'
  BY <1>1, <1>3, <1>6, <1>8, Types DEF BaselineWasNative, CodesAreTrue, NothingAfterDoubt
<1> QED BY <1>8, <1>9, <1>10, <1>11, <1>13, <1>14, <1>15, Types

(* The serve process dies with every request at once.                       *)
LEMMA DeathPreserves ==
  ASSUME IInv, ServeDies
  PROVE  IInv'
<1> DEFINE lost(h) == [Idle EXCEPT !.op = work[h].op, !.kind = work[h].kind, !.pc = "done", !.reply = Reply("LOST")]
<1> USE DEF IInv
<1>1. /\ UNCHANGED <<disk, native, committed, lease, chain, ops, client, moved>>
      /\ edits' \in 0 .. MaxEdits /\ faults' \in 0 .. MaxFaults
  BY Bounds DEF ServeDies, nodeVars
<1>2. Typed
  BY Types
<1>3. Reply("LOST") \in Replies /\ Reply("LOST").code = "LOST"
  BY FirstSnapshotIsOne DEF Reply, Codes
<1>4. Idle.pc = "free" /\ Idle.kind = "none" /\ Idle.op = 0 /\ Idle.reply.code = "none" /\ Idle \in SlotStates
  BY FirstSnapshotIsOne DEF Idle, NoReply
<1>5. ASSUME NEW h \in Slots
      PROVE  /\ lost(h) \in SlotStates /\ lost(h).op = work[h].op /\ lost(h).kind = work[h].kind
             /\ lost(h).pc = "done" /\ lost(h).reply.code = "LOST"
  <2>1. work[h] \in SlotStates
    BY <1>2 DEF Typed
  <2> QED BY <1>3, <1>4, <2>1 DEF SlotStates, Idle
<1>6. /\ work' = [h \in Slots |-> IF h \notin {g \in Slots : Active(g)} THEN work[h]
                                  ELSE IF Waited(h) THEN lost(h) ELSE Idle]
      /\ pipe' = pipe \cup {Request(h) : h \in {g \in Slots : Active(g) /\ work[g].pc = "sent"}}
  <2>1. {g \in Slots : Active(g) /\ work[g].pc = "sent"} = {g \in {f \in Slots : Active(f)} : work[g].pc = "sent"}
    OBVIOUS
  <2> QED BY <2>1 DEF ServeDies, Active, Waited
<1>7. ASSUME NEW h \in Slots
      PROVE  \/ ~Active(h) /\ work'[h] = work[h]
             \/ Active(h) /\ Waited(h) /\ work'[h] = lost(h)
             \/ Active(h) /\ ~Waited(h) /\ work'[h] = Idle
  BY <1>6
<1> HIDE DEF lost
<1>8. work' \in [Slots -> SlotStates]
  <2>1. work' = [h \in Slots |-> work'[h]]
    BY <1>6
  <2>2. \A h \in Slots : work[h] \in SlotStates
    BY <1>2 DEF Typed
  <2>3. \A h \in Slots : work'[h] \in SlotStates
    BY <1>4, <1>5, <1>7, <2>2
  <2> QED BY <2>1, <2>3
<1>9. ASSUME NEW h \in Slots, work[h].pc = "sent"
      PROVE  /\ Request(h) \in Commitments /\ Request(h).op = work[h].op /\ work[h].op \in OpIds
             /\ ops[work[h].op].kind = "sync" /\ work[h].kind = "commit"
             /\ Request(h).version = ops[work[h].op].expected.base.version
             /\ Request(h).body = Body(ops[work[h].op].expected)
             /\ NativeAt(Request(h).version, ops[work[h].op].expected.base.body)
  <2>1. work[h].op \in OpIds /\ work[h].kind = "commit" /\ ops[work[h].op].kind = "sync"
    BY <1>9 DEF SlotInv
  <2>2. /\ work[h].cap = ops[work[h].op].expected
        /\ NativeAt(work[h].cap.base.version, work[h].cap.base.body)
    BY <1>9 DEF WriteInv
  <2>3. work[h].cap \in Snapshots
    BY <1>2 DEF Typed, SlotStates
  <2>4. work[h].cap.base.version \in Nat /\ Body(work[h].cap) \in Bodies
    BY <2>3 DEF Snapshots, Body, Bodies
  <2> QED BY <2>1, <2>2, <2>4 DEF Request, Commitments
<1>10. \A r \in pipe' : r \in pipe \/ \E h \in Slots : work[h].pc = "sent" /\ r = Request(h)
  BY <1>6
<1>11. OpIds' = OpIds /\ Items' = Items /\ Commitments' = Commitments
  BY <1>1 DEF OpIds, Items, Commitments
<1>12. Typed'
  <2>1. pipe' \in SUBSET Commitments
    BY <1>2, <1>9, <1>10 DEF Typed
  <2> QED BY <1>1, <1>2, <1>8, <1>11, <2>1 DEF Typed
<1>13. \A p \in Landed' : p \in Landed \/ \E h \in Slots : work[h].pc = "sent" /\ p = work[h].op
  BY <1>1, <1>9, <1>10 DEF Landed
<1>14. \A h \in Slots : Waited(h)' <=> Waited(h)
  BY <1>1 DEF Waited
<1>15. ChainInv'
  <2>1. ASSUME NEW i \in DOMAIN chain
        PROVE  /\ chain[i].step = "queued" => \A g \in Slots : work'[g].op # chain[i].op
               /\ chain[i].step # "queued" =>
                    /\ work'[chain[i].h].pc # "free" /\ work'[chain[i].h].op = chain[i].op
                    /\ work'[chain[i].h].kind = KindAt[chain[i].step]
    <3>1. chain[i].op \in OpIds /\ chain[i].op # 0 /\ chain[i] \in Items
      BY <1>2, Elements DEF OpIds
    <3>2. ASSUME chain[i].step = "queued", NEW g \in Slots PROVE work'[g].op # chain[i].op
      BY <1>4, <1>5, <1>7, <3>1, <3>2 DEF ChainInv
    <3>3. ASSUME chain[i].step # "queued"
          PROVE  /\ work'[chain[i].h].pc # "free" /\ work'[chain[i].h].op = chain[i].op
                 /\ work'[chain[i].h].kind = KindAt[chain[i].step]
      <4>1. chain[i].h \in Slots /\ Waited(chain[i].h)
        BY <3>1, <3>3 DEF ChainInv, Items, Waited
      <4> QED BY <1>5, <1>7, <3>3, <4>1 DEF ChainInv
    <3> QED BY <3>2, <3>3
  <2> QED BY <1>1, <2>1 DEF ChainInv
<1>16. SlotInv'
  <2>1. ASSUME NEW f \in Slots, NEW g \in Slots, work'[f].op = work'[g].op, work'[g].op # 0
        PROVE  f = g
    BY <1>4, <1>5, <1>7, <2>1 DEF SlotInv
  <2>2. ASSUME NEW g \in Slots
        PROVE /\ work'[g].pc = "free" => work'[g] = Idle
              /\ work'[g].pc # "free" => work'[g].op \in OpIds
              /\ work'[g].pc # "free" /\ ~Waited(g) => work'[g].pc # "done" /\ ops[work'[g].op].code = "UNKNOWN"
              /\ work'[g].kind = "save" => ops[work'[g].op].kind = "save"
              /\ work'[g].kind \in {"validate", "commit"} => ops[work'[g].op].kind = "sync"
              /\ work'[g].pc \in {"compare", "move", "after"} => work'[g].kind = "save"
              /\ work'[g].pc \in {"managed", "sent", "acked", "identity"} => work'[g].kind = "commit"
    <3>1. CASE ~Active(g) /\ work'[g] = work[g]
      BY <3>1 DEF SlotInv
    <3>2. CASE Active(g) /\ Waited(g) /\ work'[g] = lost(g)
      BY <1>5, <3>2 DEF SlotInv, Active
    <3>3. CASE Active(g) /\ ~Waited(g) /\ work'[g] = Idle
      BY <1>4, <3>3
    <3> QED BY <1>7, <3>1, <3>2, <3>3
  <2> QED BY <1>1, <1>11, <1>14, <2>1, <2>2 DEF SlotInv
<1>17. WriteInv'
  <2>1. \A h \in Slots : work'[h].pc \in {"free", "done"}
    BY <1>4, <1>5, <1>7 DEF Active
  <2>2. \A r \in pipe' : /\ r.version = ops[r.op].expected.base.version
                         /\ r.body = Body(ops[r.op].expected)
                         /\ NativeAt(r.version, ops[r.op].expected.base.body)
    BY <1>9, <1>10 DEF WriteInv
  <2> QED BY <1>1, <2>1, <2>2 DEF WriteInv, Holds, NativeAt
<1>18. ASSUME NEW h \in Slots, ~Active(h), work[h].pc # "free" PROVE work[h].op \in Landed' => work[h].op \in Landed
  BY <1>13, <1>18 DEF SlotInv, Active, OpIds
<1>19. LandedInv'
  <2>1. \A r \in pipe' : ops[r.op].kind = "sync"
    BY <1>9, <1>10 DEF LandedInv
  <2>2. ASSUME NEW i \in DOMAIN chain, chain[i].step \in {"queued", "inspect", "validate"}
        PROVE  chain[i].op \notin Landed'
    <3>1. ASSUME NEW h \in Slots, work[h].pc = "sent" PROVE chain[i].op # work[h].op
      <4> SUFFICES ASSUME chain[i].op = work[h].op PROVE FALSE
        OBVIOUS
      <4>1. chain[i].h = h /\ work[h].kind = "commit"
        BY <1>9, <3>1, InService
      <4>2. chain[i].step # "queued" /\ work[h].kind = KindAt[chain[i].step]
        BY <3>1, <4>1 DEF ChainInv
      <4> QED BY <2>2, <4>1, <4>2 DEF KindAt
    <3> QED BY <1>13, <2>2, <3>1 DEF LandedInv
  <2>3. ASSUME NEW h \in Slots
        PROVE /\ work'[h].kind = "save" /\ work'[h].op \in Landed' =>
                 work'[h].pc = "after" \/ (work'[h].pc = "done" /\ Meaning("save", work'[h].reply.code) \notin Refusals)
              /\ work'[h].kind = "commit" /\ work'[h].op \in Landed' =>
                   work'[h].pc \in {"acked", "identity"}
                     \/ (work'[h].pc = "done" /\ Meaning("commit", work'[h].reply.code) \notin Refusals)
              /\ work'[h].pc \in {"acked", "identity"} => work'[h].op \in committed
              /\ work'[h].pc = "after" \/ (work'[h].pc = "done" /\ work'[h].kind = "save" /\ work'[h].reply.code = "ok") =>
                   work'[h].op \in moved \/ ops[work'[h].op].text = ops[work'[h].op].expected.source
              /\ work'[h].pc = "done" /\ work'[h].kind = "commit" /\ work'[h].reply.code = "ok" => work'[h].op \in committed
    <3>1. CASE ~Active(h) /\ work[h].pc # "free" /\ work'[h] = work[h]
      BY <1>18, <3>1 DEF LandedInv
    <3>2. CASE Active(h) /\ Waited(h) /\ work'[h] = lost(h)
      BY <1>5, <3>2 DEF Meaning, Refusals
    <3>3. CASE work'[h] = Idle
      BY <1>4, <3>3
    <3> QED BY <1>7, <3>1, <3>2, <3>3 DEF SlotInv
  <2>4. /\ \A p \in moved : ops[p].kind = "save"
        /\ \A p \in committed : ops[p].kind = "sync"
        /\ \A i \in DOMAIN chain : chain[i].step = "readback" => chain[i].op \in committed
    BY DEF LandedInv
  <2> QED BY <1>1, <2>1, <2>2, <2>3, <2>4 DEF LandedInv
<1>20. CodesInv'
  <2>1. ASSUME NEW p \in OpIds, ops[p].code \in Refusals PROVE p \notin Landed'
    <3>1. \A h \in Slots : work[h].pc = "sent" => ops[work[h].op].code \notin Refusals
      BY InService DEF Refusals
    <3> QED BY <1>13, <2>1, <3>1 DEF CodesInv
  <2>2. \A h \in Slots : /\ work'[h].reply.code = "PARTIAL" => work'[h].kind = "save"
                         /\ work'[h].reply.code = "CHECKPOINT" => work'[h].kind = "commit"
                         /\ work'[h].reply.code # "READBACK"
                         /\ work'[h].pc = "done" => work'[h].reply.code # "none"
    BY <1>4, <1>5, <1>7 DEF CodesInv
  <2> QED BY <1>1, <1>11, <2>1, <2>2 DEF CodesInv
<1>21. ClientInv'
  BY <1>1, <1>11 DEF ClientInv, Writing
<1>22. BaselineWasNative' /\ CodesAreTrue' /\ NothingAfterDoubt'
  BY <1>1, <1>11, <1>12, Types DEF BaselineWasNative, CodesAreTrue, NothingAfterDoubt
<1> QED BY <1>12, <1>15, <1>16, <1>17, <1>19, <1>20, <1>21, <1>22, Types

-----------------------------------------------------------------------------
(* The theorems.                                                           *)

LEMMA NextPreserves ==
  ASSUME IInv, [Next]_vars
  PROVE  IInv'
<1>1. ASSUME NEW c \in Clients,
             connect(c) \/ sync(c) \/ receive(c) \/ close(c) \/ ConnectionBreaks(c) \/ AnswerIsLost(c)
      PROVE  IInv'
  BY <1>1, ConnectPreserves, CapturePreserves, ReceivePreserves, LeavingPreserves, LosingPreserves,
     DocumentAssumption
<1>2. ASSUME NEW c \in Clients, NEW t \in Texts, save(c, t)
      PROVE  IInv'
  BY <1>2, CapturePreserves
<1>3. CASE Begins \/ Returns \/ release \/ Aborts
  BY <1>3, BeginsPreserves, ReturnsPreserves, ReleasePreserves, AbortsPreserves
<1>4. ASSUME NEW h \in Slots,
             \/ Captures(h) \/ Compares(h) \/ Moves(h) \/ Confirms(h) \/ SaveFails(h) \/ Commits(h)
             \/ HostUnavailable(h) \/ HostAnswers(h) \/ HostFails(h) \/ Forgets(h) \/ Checkpoint(h)
             \/ Identifies(h) \/ CheckpointFails(h)
      PROVE  IInv'
  BY <1>4, CapturesPreserves, ComparesPreserves, MovesPreserves, ConfirmsPreserves, SaveFailsPreserves,
     CommitsPreserves, HostAnswersPreserves, HostFailsPreserves, ForgetsPreserves, CheckpointPreserves,
     IdentifiesPreserves, CheckpointFailsPreserves
<1>5. CASE HostIsLate \/ ServeDies \/ EditsWorkingFile \/ EditsNative
  BY <1>5, NativePreserves, DeathPreserves, EditPreserves
<1>6. CASE UNCHANGED vars
  <2>1. /\ UNCHANGED <<disk, native, pipe, lease, client, chain, work, ops, moved, committed, edits, faults>>
    BY <1>6 DEF vars
  <2>2. ClientInv'
    BY <2>1 DEF IInv, ClientInv, Writing, OpIds
  <2> QED BY <2>1, <2>2, Types, ClientStep DEF IInv, Typed, hostVars
<1> QED BY <1>1, <1>2, <1>3, <1>4, <1>5, <1>6 DEF Next

(* A commit that the host carries out is the only one of its step.          *)
CommitsFor(o) ==
  /\ committed' = committed \cup {o} /\ UNCHANGED ops
  /\ o \in OpIds /\ ops[o].expected \in Snapshots
  /\ ops[o].expected.base.version = Len(native) /\ ops[o].expected.base.body = native[Len(native)]
  /\ native'[Len(native')] = Body(ops[o].expected)
  /\ Len(native') = NextVersion(ops[o].expected) /\ Len(native) \in Nat

LEMMA CommitsAreRight ==
  ASSUME IInv, [Next]_vars
  PROVE  (UNCHANGED committed /\ NativeGrows) \/ \E o \in OpIds : CommitsFor(o)
<1> USE DEF IInv
<1>1. Typed
  BY Types
<1>2. ASSUME NEW o \in OpIds, NEW r, native' = Saved(r), committed' = committed \cup {o}, UNCHANGED ops,
             r.body = Body(ops[o].expected), ops[o].expected.base.version = Len(native),
             NativeAt(ops[o].expected.base.version, ops[o].expected.base.body)
      PROVE  CommitsFor(o)
  <2>1. ops[o].expected \in Snapshots
    BY <1>1, Elements DEF Operations
  <2>2. r.body \in Bodies
    BY <1>2, <2>1, BodiesOf
  <2>3. native'[Len(native')] = r.body
    BY <1>1, <1>2, <2>2, SavedIs
  <2>4. Len(native') = NextVersion(ops[o].expected)
    BY <1>1, <1>2, <2>1, SavedFor
  <2> QED BY <1>1, <1>2, <2>1, <2>3, <2>4 DEF CommitsFor, NativeAt, Typed
<1>3. ASSUME NEW h \in Slots, HostAnswers(h) \/ HostFails(h), ~UNCHANGED <<native, committed>>
      PROVE  \E o \in OpIds : CommitsFor(o)
  <2>1. /\ work[h].pc = "sent" /\ Request(h).version = Len(native) /\ native' = Saved(Request(h))
        /\ committed' = committed \cup {work[h].op} /\ UNCHANGED ops
    BY <1>3 DEF HostAnswers, HostFails, nodeVars
  <2>2. /\ work[h].op \in OpIds /\ work[h].cap = ops[work[h].op].expected
        /\ NativeAt(work[h].cap.base.version, work[h].cap.base.body)
    BY <2>1 DEF SlotInv, WriteInv
  <2> QED BY <1>2, <2>1, <2>2 DEF Request
<1>4. ASSUME HostIsLate, ~UNCHANGED <<native, committed>>
      PROVE  \E o \in OpIds : CommitsFor(o)
  <2>1. PICK r \in pipe : /\ r.version = Len(native) /\ native' = Saved(r)
                          /\ committed' = committed \cup {r.op} /\ UNCHANGED ops
    BY <1>4 DEF HostIsLate, nodeVars
  <2>2. /\ r.op \in OpIds /\ r.version = ops[r.op].expected.base.version
        /\ r.body = Body(ops[r.op].expected) /\ NativeAt(r.version, ops[r.op].expected.base.body)
    BY <1>1, <2>1, Elements DEF WriteInv
  <2> QED BY <1>2, <2>1, <2>2
<1>5. ASSUME NEW c \in Clients,
             connect(c) \/ sync(c) \/ receive(c) \/ close(c) \/ ConnectionBreaks(c) \/ AnswerIsLost(c)
      PROVE  UNCHANGED <<native, committed>>
  BY <1>5 DEF connect, sync, receive, close, ConnectionBreaks, AnswerIsLost, hostVars
<1>6. ASSUME NEW c \in Clients, NEW t \in Texts, save(c, t)
      PROVE  UNCHANGED <<native, committed>>
  BY <1>6 DEF save, hostVars
<1>7. CASE Begins \/ Returns \/ release \/ Aborts
  BY <1>7 DEF Begins, Returns, release, Aborts, hostVars, NativeGrows
<1>8. ASSUME NEW h \in Slots,
             \/ Captures(h) \/ Compares(h) \/ Moves(h) \/ Confirms(h) \/ SaveFails(h) \/ Commits(h)
             \/ HostUnavailable(h) \/ Forgets(h) \/ Checkpoint(h) \/ Identifies(h) \/ CheckpointFails(h)
      PROVE  UNCHANGED <<native, committed>>
  BY <1>8 DEF Captures, Compares, Moves, Confirms, SaveFails, Commits, HostUnavailable, Forgets,
              Checkpoint, Identifies, CheckpointFails, hostVars
<1>9. CASE ServeDies \/ EditsWorkingFile \/ UNCHANGED vars
  BY <1>9 DEF ServeDies, EditsWorkingFile, vars, hostVars, NativeGrows
<1>10. CASE EditsNative
  BY <1>10 DEF EditsNative, NativeGrows
<1>11. UNCHANGED <<native, committed>> => UNCHANGED committed /\ NativeGrows
  BY DEF NativeGrows
<1> HIDE DEF IInv
<1> QED BY <1>3, <1>4, <1>5, <1>6, <1>7, <1>8, <1>9, <1>10, <1>11 DEF Next

LEMMA WritesAreRight ==
  ASSUME IInv, [Next]_vars
  PROVE  /\ \A h \in Slots : work[h].pc = "move" /\ work'[h].pc = "after" =>
              /\ work[h].raced \/ disk.source = ops[work[h].op].expected.source
              /\ Managed(disk) = Managed(ops[work[h].op].expected)
         /\ \A o \in committed' \ committed :
              /\ native[Len(native)] = ops[o].expected.base.body
              /\ native'[Len(native')] = Body(ops[o].expected)
<1>1. \A h \in Slots : work[h].pc = "move" => /\ work[h].raced \/ disk.source = ops[work[h].op].expected.source
                                              /\ Managed(disk) = Managed(ops[work[h].op].expected)
  BY DEF IInv, WriteInv
<1>2. \A o \in committed' \ committed : CommitsFor(o)
  BY CommitsAreRight DEF CommitsFor
<1> QED BY <1>1, <1>2 DEF CommitsFor

(* The invariant holds in every reachable state, whatever the number of    *)
(* clients, requests, edits and faults.                                    *)
THEOREM BundleInvariant == Spec => []IInv
<1>1. Init => IInv
  BY InitHolds
<1>2. IInv /\ [Next]_vars => IInv'
  BY NextPreserves
<1> QED BY <1>1, <1>2, PTL DEF Spec

(* The baseline on disk is a body the native action had at that version,   *)
(* also across commits, half-done checkpoints and deaths of the serve      *)
(* process (Checkpoint in ActionSourceWorkspace).                          *)
THEOREM BaselineWasAlwaysNative == Spec => []BaselineWasNative
<1>1. IInv => BaselineWasNative
  BY DEF IInv
<1> QED BY <1>1, BundleInvariant, PTL

(* A save replaces the source its editor had loaded, a commit the body its *)
(* baseline names; also one that the host carries out late.                *)
THEOREM WritesAlwaysReplaceWhatTheyRead == Spec => WritesReplaceWhatTheyRead
<1>1. IInv /\ [Next]_vars =>
        [/\ \A h \in Slots : work[h].pc = "move" /\ work'[h].pc = "after" =>
              /\ work[h].raced \/ disk.source = ops[work[h].op].expected.source
              /\ Managed(disk) = Managed(ops[work[h].op].expected)
         /\ \A o \in committed' \ committed :
              /\ native[Len(native)] = ops[o].expected.base.body
              /\ native'[Len(native')] = Body(ops[o].expected)]_vars
  BY WritesAreRight
<1> QED BY <1>1, BundleInvariant, PTL DEF Spec, WritesReplaceWhatTheyRead

-----------------------------------------------------------------------------
(* Nobody waits for good.  NobodyWaitsForGood says with ENABLED that one of *)
(* the three processes can act while an operation is unanswered.  Here is   *)
(* which one, by the guards of the actions, and for each client.            *)

CanServe(h) ==
  \/ work[h].pc = "start" /\ work[h].kind \in {"inspect", "save", "validate", "commit"}
  \/ work[h].pc \in {"compare", "move", "after", "managed", "sent", "acked", "identity"}

(* The head of the chain begins, is served, or takes its answer; when it has  *)
(* to wait for a slot, each slot is served.                                   *)
HeadGoesOn ==
  \/ /\ Running.step = "queued"
     /\ (\E h \in Slots : work[h].pc = "free") \/ (\A h \in Slots : CanServe(h))
  \/ /\ Running.step # "queued" /\ Running.h \in Slots
     /\ work[Running.h].op = Running.op
     /\ work[Running.h].pc = "done" \/ CanServe(Running.h)

SomebodyActs ==
  \A c \in Clients : client[c].op # 0 =>
    \/ client[c].reply.code # "none"
    \/ (\E i \in DOMAIN chain : chain[i].op = client[c].op) /\ HeadGoesOn

(* Who has no answer yet is in the chain; a request is of some kind.          *)
WaitersInv ==
  \A c \in Clients : client[c].op # 0 /\ client[c].reply.code = "none" =>
    \E i \in DOMAIN chain : chain[i].op = client[c].op

KindsInv == \A h \in Slots : work[h].pc # "free" => work[h].kind # "none"

LEMMA WaitersLeave ==
  ASSUME IInv, WaitersInv, NEW i \in DOMAIN chain, NEW reply, reply.code # "none",
         chain' = Leave(i), client' = [client EXCEPT ![ops[chain[i].op].client].reply = reply]
  PROVE  WaitersInv'
<1> DEFINE d == ops[chain[i].op].client
<1>1. Typed /\ d \in Clients /\ client[d] \in ClientStates
  <2>1. Typed
    BY Types DEF IInv
  <2>2. chain[i].op \in OpIds
    BY <2>1, Elements
  <2> QED BY <2>1, <2>2, Elements DEF Typed
<1>2. client'[d].reply = reply /\ \A c \in Clients : c # d => client'[c] = client[c]
  BY <1>1 DEF Typed, ClientStates
<1>3. client[d].op = chain[i].op
  BY DEF IInv, ClientInv
<1> SUFFICES ASSUME NEW c \in Clients, client'[c].op # 0, client'[c].reply.code = "none"
             PROVE  \E j \in DOMAIN chain' : chain'[j].op = client'[c].op
  BY DEF WaitersInv
<1>4. c # d /\ client'[c] = client[c]
  BY <1>2
<1>5. PICK k \in DOMAIN chain : chain[k].op = client[c].op
  BY <1>4 DEF WaitersInv
<1>6. k # i
  BY <1>4, <1>5 DEF IInv, ClientInv
<1>7. PICK j \in DOMAIN Leave(i) : Shift(i, j) = k
  BY <1>1, <1>6, LeaveIs DEF Typed
<1>8. chain'[j] = chain[k]
  BY <1>1, <1>7, LeaveIs DEF Typed
<1> QED BY <1>4, <1>5, <1>7, <1>8

LEMMA WaitersFinish ==
  ASSUME IInv, WaitersInv, chain # <<>>, NEW reply, reply.code # "none", Finish(reply)
  PROVE  WaitersInv'
<1>1. Typed /\ Running = chain[1] /\ 1 \in DOMAIN chain
  BY Types, RunningIsFirst DEF IInv
<1>2. Tail(chain) = Leave(1)
  BY <1>1, LeaveIs DEF Typed
<1> QED BY <1>1, <1>2, WaitersLeave DEF Finish, Op

LEMMA WaitersAdvance ==
  ASSUME IInv, WaitersInv, chain # <<>>, NEW item, item.op = Running.op,
         chain' = <<item>> \o Tail(chain), UNCHANGED client
  PROVE  WaitersInv'
<1>1. Typed /\ Running = chain[1] /\ 1 \in DOMAIN chain /\ chain \in Seq(Items)
  BY Types, RunningIsFirst DEF IInv, Typed
<1>2. DOMAIN chain' = DOMAIN chain /\ \A i \in DOMAIN chain : chain'[i].op = chain[i].op
  <2>1. \A S : chain \in Seq(S) /\ item \in S => chain' \in Seq(S) /\ DOMAIN chain' = DOMAIN chain
          /\ chain'[1] = item /\ \A i \in DOMAIN chain : i # 1 => chain'[i] = chain[i]
    BY <1>1
  <2>2. chain \in Seq(Items \cup {item})
    BY <1>1
  <2> QED BY <1>1, <2>1, <2>2
<1> QED BY <1>2 DEF WaitersInv

LEMMA WaitersRest ==
  ASSUME WaitersInv, UNCHANGED chain,
         \A c \in Clients : client'[c].op # 0 /\ client'[c].reply.code = "none" =>
           client[c].op = client'[c].op /\ client[c].reply.code = "none"
  PROVE  WaitersInv'
  BY DEF WaitersInv

LEMMA WaitersDispatch ==
  ASSUME IInv, WaitersInv, NEW c \in Clients, NEW kind, NEW text, Dispatch(c, kind, text),
         NEW n, n.op = Len(ops) + 1, client' = [client EXCEPT ![c] = n]
  PROVE  WaitersInv'
<1>1. Typed
  BY Types DEF IInv
<1>2. client'[c] = n /\ \A d \in Clients : d # c => client'[d] = client[d]
  BY <1>1 DEF Typed
<1> DEFINE item == [op |-> Len(ops) + 1, h |-> 0, step |-> "queued"]
<1>3. chain' = Append(chain, item) /\ item.op = Len(ops) + 1 /\ chain \in Seq(Items)
  BY <1>1 DEF Dispatch, Typed
<1> HIDE DEF item
<1>4. /\ DOMAIN chain' = DOMAIN chain \cup {Len(chain) + 1}
      /\ chain'[Len(chain) + 1] = item /\ \A i \in DOMAIN chain : chain'[i] = chain[i]
  BY <1>3
<1> QED BY <1>2, <1>3, <1>4 DEF WaitersInv

LEMMA WaitersReturn ==
  ASSUME IInv, WaitersInv, Returns
  PROVE  WaitersInv'
<1> DEFINE h == Running.h
           r == [work[h].reply EXCEPT !.code = Meaning(work[h].kind, @)]
           item(step) == [Running EXCEPT !.step = step]
<1>1. chain # <<>> /\ h # 0 /\ work[h].pc = "done"
  BY DEF Returns
<1>2. Typed /\ Running \in Items /\ h \in Slots
  BY <1>1, Types, RunningIsFirst, AnswerIs DEF IInv
<1>3. r.code # "none"
  <2>1. r.code = Meaning(work[h].kind, work[h].reply.code) /\ work[h].reply.code # "none"
    BY <1>1, <1>2, AnswerIs DEF IInv, CodesInv
  <2> QED BY <2>1 DEF Meaning
<1>4. ASSUME NEW code \in {"CONFLICT", "STALE", "READBACK", "UNKNOWN"} PROVE Reply(code).code # "none"
  BY DEF Reply
<1>5. \A step : item(step).op = Running.op
  BY <1>2 DEF Items
<1> HIDE DEF r, item
<1>6. \/ \E reply : reply.code # "none" /\ Finish(reply)
      \/ \E step : chain' = <<item(step)>> \o Tail(chain) /\ UNCHANGED client
  BY <1>3, <1>4 DEF Returns, r, item
<1> QED BY <1>1, <1>5, <1>6, WaitersFinish, WaitersAdvance

LEMMA WaitersNext == IInv /\ WaitersInv /\ [Next]_vars => WaitersInv'
<1> SUFFICES ASSUME IInv, WaitersInv, [Next]_vars PROVE WaitersInv'
  OBVIOUS
<1>1. Typed
  BY Types DEF IInv
<1>2. ASSUME NEW c \in Clients, NEW kind, NEW text, Dispatch(c, kind, text),
             \/ client' = [client EXCEPT ![c].st = "opening", ![c].op = Len(ops) + 1]
             \/ client' = [client EXCEPT ![c].op = Len(ops) + 1]
      PROVE  WaitersInv'
  <2>1. client[c] \in ClientStates
    BY <1>1 DEF Typed
  <2>2. PICK n : n.op = Len(ops) + 1 /\ client' = [client EXCEPT ![c] = n]
    <3>1. CASE client' = [client EXCEPT ![c].op = Len(ops) + 1]
      <4>1. [client[c] EXCEPT !.op = Len(ops) + 1].op = Len(ops) + 1
        BY <2>1 DEF ClientStates
      <4> QED BY <3>1, <4>1
    <3>2. CASE client' = [client EXCEPT ![c].st = "opening", ![c].op = Len(ops) + 1]
      <4>1. [client[c] EXCEPT !.st = "opening", !.op = Len(ops) + 1].op = Len(ops) + 1
        BY <2>1 DEF ClientStates
      <4>2. client' = [client EXCEPT ![c] = [client[c] EXCEPT !.st = "opening", !.op = Len(ops) + 1]]
        BY <1>1, <3>2 DEF Typed
      <4> QED BY <4>1, <4>2
    <3> QED BY <1>2, <3>1, <3>2
  <2> QED BY <1>2, <2>2, WaitersDispatch
<1>3. ASSUME NEW c \in Clients, connect(c) \/ sync(c) \/ \E t \in Texts : save(c, t)
      PROVE  WaitersInv'
  BY <1>2, <1>3 DEF connect, sync, save
<1>4. ASSUME NEW c \in Clients, receive(c)
      PROVE  WaitersInv'
  <2>1. client[c] \in ClientStates
    BY <1>1 DEF Typed
  <2>2. client'[c].op = 0 /\ \A d \in Clients : d # c => client'[d] = client[d]
    BY <1>1, <1>4, <2>1 DEF receive, Typed, ClientStates
  <2>3. UNCHANGED chain
    BY <1>4 DEF receive, nodeVars
  <2> QED BY <2>2, <2>3, WaitersRest
<1>5. ASSUME NEW c \in Clients, close(c) \/ ConnectionBreaks(c) \/ AnswerIsLost(c)
      PROVE  WaitersInv'
  <2>1. UNCHANGED chain
    BY <1>5 DEF close, ConnectionBreaks, AnswerIsLost, nodeVars
  <2>2. \A d \in Clients : client'[d].op # 0 /\ client'[d].reply.code = "none" =>
          client[d].op = client'[d].op /\ client[d].reply.code = "none"
    <3>1. \A d \in Clients : client[d] \in ClientStates /\ (d # c => client'[d] = client[d])
      BY <1>1, <1>5 DEF close, ConnectionBreaks, AnswerIsLost, Typed
    <3>2. CASE close(c)
      <4>1. client'[c] = [client[c] EXCEPT !.st = "closed", !.owns = FALSE, !.blocked = TRUE]
        BY <1>1, <3>2 DEF close, Typed
      <4>2. client'[c].op = client[c].op /\ client'[c].reply = client[c].reply
        BY <3>1, <4>1 DEF ClientStates
      <4> QED BY <3>1, <4>2
    <3>3. CASE ConnectionBreaks(c)
      <4>1. client'[c] = [client[c] EXCEPT !.owns = FALSE, !.blocked = TRUE]
        BY <1>1, <3>3 DEF ConnectionBreaks, Typed
      <4>2. client'[c].op = client[c].op /\ client'[c].reply = client[c].reply
        BY <3>1, <4>1 DEF ClientStates
      <4> QED BY <3>1, <4>2
    <3>4. CASE AnswerIsLost(c)
      <4>1. client'[c] = [client[c] EXCEPT !.reply = Reply("UNKNOWN")]
        BY <1>1, <3>4 DEF AnswerIsLost, Typed
      <4>2. client'[c].reply.code # "none"
        BY <3>1, <4>1 DEF ClientStates, Reply
      <4> QED BY <3>1, <4>2
    <3> QED BY <1>5, <3>2, <3>3, <3>4
  <2> QED BY <2>1, <2>2, WaitersRest
<1>6. CASE Begins
  <2>1. chain # <<>> /\ Running \in Items
    BY <1>1, <1>6, RunningIsFirst DEF Begins
  <2>2. ASSUME Call("inspect", "inspect"), UNCHANGED <<client, ops>>
        PROVE  WaitersInv'
    <3>1. PICK h \in Slots : chain' = <<[Running EXCEPT !.h = h, !.step = "inspect"]>> \o Tail(chain)
      BY <2>2 DEF Call
    <3>2. [Running EXCEPT !.h = h, !.step = "inspect"].op = Running.op
      BY <2>1 DEF Items
    <3> QED BY <2>1, <2>2, <3>1, <3>2, WaitersAdvance
  <2>3. ASSUME NEW code \in {"OPEN", "STALE"}, Finish(Reply(code))
        PROVE  WaitersInv'
    <3>1. Reply(code).code # "none"
      BY DEF Reply
    <3> QED BY <2>1, <2>3, <3>1, WaitersFinish
  <2> QED BY <1>6, <2>2, <2>3 DEF Begins
<1>7. CASE Aborts
  <2>1. PICK i \in DOMAIN chain :
          /\ chain' = Leave(i)
          /\ client' = [client EXCEPT ![ops[chain[i].op].client].reply = Reply("UNKNOWN")]
    BY <1>7 DEF Aborts
  <2>2. Reply("UNKNOWN").code # "none"
    BY DEF Reply
  <2> QED BY <2>1, <2>2, WaitersLeave
<1>8. CASE release
  BY <1>8, WaitersRest DEF release
<1>9. ASSUME NEW h \in Slots,
             \/ Captures(h) \/ Compares(h) \/ Moves(h) \/ Confirms(h) \/ SaveFails(h) \/ Commits(h)
             \/ HostUnavailable(h) \/ HostAnswers(h) \/ HostFails(h) \/ Forgets(h) \/ Checkpoint(h)
             \/ Identifies(h) \/ CheckpointFails(h)
      PROVE  UNCHANGED <<chain, client>>
  BY <1>9 DEF Captures, Compares, Moves, Confirms, SaveFails, Commits, HostUnavailable, HostAnswers, HostFails, Forgets,
              Checkpoint, Identifies, CheckpointFails, nodeVars
<1>10. CASE HostIsLate \/ ServeDies \/ EditsWorkingFile \/ EditsNative \/ UNCHANGED vars
  <2>1. UNCHANGED <<chain, client>>
    BY <1>10 DEF HostIsLate, ServeDies, EditsWorkingFile, EditsNative, nodeVars, vars
  <2> QED BY <2>1, WaitersRest
<1>11. UNCHANGED <<chain, client>> => WaitersInv'
  BY WaitersRest
<1> QED BY <1>3, <1>4, <1>5, <1>6, <1>7, <1>8, <1>9, <1>10, <1>11, WaitersReturn DEF Next

(* What becomes of one slot.                                                  *)
KeepsKind(h) ==
  \/ work'[h].pc = "free"
  \/ work'[h].kind \in {"inspect", "save", "validate", "commit"}
  \/ work'[h].kind = work[h].kind /\ work[h].pc # "free"

LEMMA KindsStep ==
  ASSUME KindsInv, \A h \in Slots : KeepsKind(h)
  PROVE  KindsInv'
  BY DEF KindsInv, KeepsKind

LEMMA KindsAt ==
  ASSUME IInv, KindsInv, NEW h \in Slots, NEW w, work' = [work EXCEPT ![h] = w],
         \/ w.pc = "free" \/ w.kind \in {"inspect", "save", "validate", "commit"}
         \/ w.kind = work[h].kind /\ work[h].pc # "free"
  PROVE  KindsInv'
<1>1. Typed
  BY Types DEF IInv
<1>2. work'[h] = w /\ \A g \in Slots : g # h => work'[g] = work[g]
  BY <1>1 DEF Typed
<1> QED BY <1>1, <1>2 DEF KindsInv

LEMMA KindsServe ==
  ASSUME IInv, KindsInv, NEW h \in Slots, work[h].pc # "free",
         \/ \E reply : Answers(h, reply)
         \/ \E pc : Goes(h, pc)
         \/ \E cap, pc : work' = [work EXCEPT ![h].cap = cap, ![h].pc = pc]
  PROVE  KindsInv'
<1>1. Typed /\ work[h] \in SlotStates
  BY Types DEF IInv, Typed
<1>2. CASE \E reply : Answers(h, reply)
  <2>1. PICK reply : Answers(h, reply)
    BY <1>2
  <2> DEFINE done == [Idle EXCEPT !.op = work[h].op, !.kind = work[h].kind, !.pc = "done", !.reply = reply]
  <2>2. work' = [work EXCEPT ![h] = done] \/ work' = [work EXCEPT ![h] = Idle]
    BY <2>1 DEF Answers, Answered
  <2>3. done.kind = work[h].kind /\ Idle.pc = "free"
    BY DEF Idle
  <2> HIDE DEF done
  <2> QED BY <2>2, <2>3, KindsAt
<1>3. ASSUME NEW pc, Goes(h, pc) PROVE KindsInv'
  <2>1. [work[h] EXCEPT !.pc = pc].kind = work[h].kind
    BY <1>1 DEF SlotStates
  <2> QED BY <1>3, <2>1, KindsAt DEF Goes
<1>4. ASSUME NEW cap, NEW pc, work' = [work EXCEPT ![h].cap = cap, ![h].pc = pc] PROVE KindsInv'
  <2>1. [work[h] EXCEPT !.cap = cap, !.pc = pc].kind = work[h].kind
    BY <1>1 DEF SlotStates
  <2>2. work' = [work EXCEPT ![h] = [work[h] EXCEPT !.cap = cap, !.pc = pc]]
    BY <1>1, <1>4 DEF Typed
  <2> QED BY <2>1, <2>2, KindsAt
<1> QED BY <1>2, <1>3, <1>4

LEMMA KindsNext == IInv /\ KindsInv /\ [Next]_vars => KindsInv'
<1> SUFFICES ASSUME IInv, KindsInv, [Next]_vars PROVE KindsInv'
  OBVIOUS
<1>1. Typed /\ Idle.pc = "free"
  BY Types DEF IInv, Idle
<1>2. ASSUME NEW h \in Slots, NEW kind \in {"inspect", "save", "validate", "commit"},
             work' = [work EXCEPT ![h] = [Idle EXCEPT !.op = Running.op, !.kind = kind, !.pc = "start"]]
      PROVE  KindsInv'
  <2>1. [Idle EXCEPT !.op = Running.op, !.kind = kind, !.pc = "start"].kind = kind
    BY DEF Idle
  <2> QED BY <1>2, <2>1, KindsAt
<1>3. UNCHANGED work => KindsInv'
  BY DEF KindsInv
<1>4. CASE Begins
  BY <1>2, <1>3, <1>4 DEF Begins, Call
<1>5. CASE Returns
  <2>1. Running.h \in Slots
    BY <1>1, <1>5, RunningIsFirst, AnswerIs DEF Returns
  <2>2. \/ work' = [work EXCEPT ![Running.h] = Idle]
        \/ \E kind \in {"inspect", "save", "validate", "commit"} :
             work' = [work EXCEPT ![Running.h] = [Idle EXCEPT !.op = Running.op, !.kind = kind, !.pc = "start"]]
    BY <1>5 DEF Returns
  <2> QED BY <1>1, <1>2, <2>1, <2>2, KindsAt
<1>6. CASE Aborts
  <2>1. PICK i \in DOMAIN chain :
          work' = IF chain[i].h # 0 /\ work[chain[i].h].pc = "done" THEN [work EXCEPT ![chain[i].h] = Idle] ELSE work
    BY <1>6 DEF Aborts
  <2>2. chain[i].h # 0 => chain[i].h \in Slots
    BY <1>1, Elements DEF Items
  <2> QED BY <1>1, <1>3, <2>1, <2>2, KindsAt
<1>7. ASSUME NEW h \in Slots,
             \/ Captures(h) \/ Compares(h) \/ Moves(h) \/ Confirms(h) \/ SaveFails(h) \/ Commits(h)
             \/ HostUnavailable(h) \/ HostAnswers(h) \/ HostFails(h) \/ Forgets(h) \/ Checkpoint(h)
             \/ Identifies(h) \/ CheckpointFails(h)
      PROVE  KindsInv'
  <2>1. work[h].pc # "free"
    BY <1>7 DEF Captures, Compares, Moves, Confirms, SaveFails, Commits, HostUnavailable, HostAnswers,
                HostFails, Forgets, Checkpoint, Identifies, CheckpointFails
  <2>2. \/ \E reply : Answers(h, reply)
        \/ \E pc : Goes(h, pc)
        \/ \E cap, pc : work' = [work EXCEPT ![h].cap = cap, ![h].pc = pc]
    <3>1. CASE Captures(h)
      BY <3>1 DEF Captures
    <3>2. CASE Compares(h) \/ Moves(h) \/ Confirms(h) \/ SaveFails(h) \/ Commits(h)
      BY <3>2 DEF Compares, Moves, Confirms, SaveFails, Commits
    <3>3. CASE HostUnavailable(h) \/ HostAnswers(h) \/ HostFails(h) \/ Forgets(h)
      BY <3>3 DEF HostUnavailable, HostAnswers, HostFails, Forgets
    <3>4. CASE Checkpoint(h) \/ Identifies(h) \/ CheckpointFails(h)
      BY <3>4 DEF Checkpoint, Identifies, CheckpointFails
    <3> QED BY <1>7, <3>1, <3>2, <3>3, <3>4
  <2> QED BY <2>1, <2>2, KindsServe
<1>8. CASE ServeDies
  <2>1. ASSUME NEW h \in Slots PROVE KeepsKind(h)
    <3>1. CASE work[h].pc \in {"free", "done"}
      <4>1. work'[h] = work[h]
        BY <1>8, <3>1 DEF ServeDies
      <4> QED BY <4>1 DEF KeepsKind
    <3>2. CASE work[h].pc \notin {"free", "done"}
      <4> DEFINE lost == [Idle EXCEPT !.op = work[h].op, !.kind = work[h].kind, !.pc = "done", !.reply = Reply("LOST")]
      <4>1. work'[h] = lost \/ work'[h] = Idle
        BY <1>8, <3>2 DEF ServeDies
      <4>2. lost.kind = work[h].kind
        BY DEF Idle
      <4> HIDE DEF lost
      <4> QED BY <1>1, <3>2, <4>1, <4>2 DEF KeepsKind
    <3> QED BY <3>1, <3>2
  <2> QED BY <2>1, KindsStep
<1>9. CASE EditsWorkingFile
  <2>1. ASSUME NEW h \in Slots PROVE KeepsKind(h)
    <3>1. work'[h] = [work[h] EXCEPT !.raced = @ \/ work[h].pc = "move"] /\ work[h] \in SlotStates
      BY <1>1, <1>9 DEF EditsWorkingFile, Typed
    <3>2. work'[h].kind = work[h].kind /\ work'[h].pc = work[h].pc
      BY <3>1 DEF SlotStates
    <3> QED BY <3>2 DEF KeepsKind
  <2> QED BY <2>1, KindsStep
<1>10. ASSUME NEW c \in Clients,
              \/ connect(c) \/ sync(c) \/ receive(c) \/ close(c) \/ ConnectionBreaks(c) \/ AnswerIsLost(c)
              \/ \E t \in Texts : save(c, t)
       PROVE  UNCHANGED work
  BY <1>10 DEF connect, sync, save, receive, close, ConnectionBreaks, AnswerIsLost
<1>11. CASE release \/ HostIsLate \/ EditsNative \/ UNCHANGED vars
  BY <1>3, <1>11 DEF release, HostIsLate, EditsNative, vars
<1> QED BY <1>3, <1>4, <1>5, <1>6, <1>7, <1>8, <1>9, <1>10, <1>11 DEF Next

(* While a client waits, one of the processes can take the chain further.     *)
LEMMA HeadActs ==
  ASSUME IInv, KindsInv, chain # <<>>
  PROVE  HeadGoesOn
<1>1. /\ Typed /\ Running = chain[1] /\ 1 \in DOMAIN chain /\ Running \in Items
      /\ DOMAIN chain = 1 .. Len(chain) /\ 0 \notin Slots /\ 1 \in Slots
  BY Types, RunningIsFirst, DocumentAssumption DEF IInv, Slots, Typed
<1>2. ASSUME NEW h \in Slots, work[h].pc \notin {"free", "done"} PROVE CanServe(h)
  <2>1. work[h] \in SlotStates /\ work[h].kind # "none"
    BY <1>1, <1>2 DEF Typed, KindsInv
  <2> QED BY <1>2, <2>1 DEF CanServe, SlotStates
<1>3. CASE Running.step = "queued"
  <2>1. \A i \in DOMAIN chain : chain[i].h = 0
    BY <1>1, <1>3 DEF IInv, ChainInv
  <2>2. \A h \in Slots : ~Waited(h)
    BY <1>1, <2>1 DEF Waited
  <2>3. \A h \in Slots : work[h].pc # "free" => work[h].pc # "done"
    BY <2>2 DEF IInv, SlotInv
  <2> QED BY <1>2, <1>3, <2>3 DEF HeadGoesOn
<1>4. CASE Running.step # "queued"
  <2>1. Running.h # 0 /\ work[Running.h].pc # "free" /\ work[Running.h].op = Running.op
    BY <1>1, <1>4 DEF IInv, ChainInv
  <2>2. Running.h \in Slots
    BY <1>1, <2>1 DEF Items
  <2> QED BY <1>2, <1>4, <2>1, <2>2 DEF HeadGoesOn
<1> QED BY <1>3, <1>4

(* Nobody waits for good: an operation without an answer is in the chain,    *)
(* and the chain's first one can begin, be served or take its answer, also   *)
(* after requests that were given up, lost answers and deaths of the serve   *)
(* process (serialized, invoke).                                             *)
THEOREM WhoWaitsIsServed == Spec => []SomebodyActs
<1>1. Init => WaitersInv /\ KindsInv
  BY DEF Init, WaitersInv, KindsInv, Idle
<1>2. IInv /\ IInv' /\ WaitersInv /\ KindsInv /\ [Next]_vars => WaitersInv' /\ KindsInv'
  BY WaitersNext, KindsNext
<1>3. IInv /\ WaitersInv /\ KindsInv => SomebodyActs
  <2> SUFFICES ASSUME IInv, WaitersInv, KindsInv PROVE SomebodyActs
    OBVIOUS
  <2>1. ASSUME NEW i \in DOMAIN chain PROVE chain # <<>>
    BY <2>1
  <2> QED BY <2>1, HeadActs DEF SomebodyActs, WaitersInv
<1> QED BY <1>1, <1>2, <1>3, BundleInvariant, PTL DEF Spec

-----------------------------------------------------------------------------
(* The contract of writes.  A client is told the truth when it is told, and *)
(* nothing lands after a refusal or a confirmation.  ResultInv adds to the  *)
(* invariant that answers which report a failure behind the write are given *)
(* for writes that happened, that only a new text is moved to the disk, and *)
(* that a commit the host has carried out, or of which it reported that it  *)
(* does not know, has no second request at it.                              *)

\* Answers that are given behind a commit.
Behind == {"CHECKPOINT", "READBACK", "ACK", "HOST_PERSISTED"}

ToldTruly(o, code) ==
  /\ code = "PARTIAL" => o \in moved
  /\ code \in Behind => o \in committed
  /\ code = "HOST_UNKNOWN" => \A r \in pipe : r.op # o

ToldNext(o, code) ==
  /\ code = "PARTIAL" => o \in moved'
  /\ code \in Behind => o \in committed'
  /\ code = "HOST_UNKNOWN" => \A r \in pipe' : r.op # o

SlotTells(h) ==
  /\ ToldTruly(work[h].op, work[h].reply.code)
  /\ work[h].pc # "done" => work[h].reply.code = "none"
  /\ work[h].pc = "move" => IsWrite(work[h].op)

ResultInv ==
  /\ \A o \in OpIds : ToldTruly(o, ops[o].code)
  /\ \A h \in Slots : SlotTells(h)
  /\ \A o \in moved : IsWrite(o)
  /\ \A r \in pipe : r.op \notin committed

\* Effects are not taken back, and only a request that was sent joins the late ones.
LandedStays ==
  /\ moved \subseteq moved' /\ committed \subseteq committed'
  /\ \A r \in pipe' : r \in pipe \/ \E g \in Slots : work[g].pc = "sent" /\ r.op = work[g].op

LEMMA ToldStays ==
  ASSUME IInv, ResultInv, LandedStays
  PROVE  /\ \A o \in OpIds : ToldNext(o, ops[o].code)
         /\ \A h \in Slots : ToldNext(work[h].op, work[h].reply.code)
<1>1. ASSUME NEW o \in OpIds, ops[o].code = "HOST_UNKNOWN", NEW r \in pipe' PROVE r.op # o
  <2>1. \A g \in Slots : work[g].pc = "sent" => ops[work[g].op].code \in {"none", "UNKNOWN"}
    BY InService
  <2> QED BY <1>1, <2>1 DEF LandedStays, ResultInv, ToldTruly
<1>2. ASSUME NEW h \in Slots, work[h].reply.code = "HOST_UNKNOWN", NEW r \in pipe' PROVE r.op # work[h].op
  <2>1. work[h].pc = "done" /\ \A q \in pipe : q.op # work[h].op
    BY <1>2 DEF ResultInv, SlotTells, ToldTruly
  <2>2. \A g \in Slots : work[g].pc = "sent" => work[g].op # work[h].op
    BY <2>1, InService
  <2> QED BY <2>1, <2>2 DEF LandedStays
<1> QED BY <1>1, <1>2 DEF ResultInv, SlotTells, ToldTruly, ToldNext, LandedStays

LEMMA ResultsGoOn ==
  ASSUME IInv, ResultInv, UNCHANGED ops, LandedStays,
         \A h \in Slots : SlotTells(h)',
         \A o \in moved' : o \in moved \/ IsWrite(o),
         \A r \in pipe' : r.op \notin committed'
  PROVE  ResultInv'
<1>1. \A o : IsWrite(o)' <=> IsWrite(o)
  BY DEF IsWrite
<1>2. \A o \in OpIds' : ToldTruly(o, ops[o].code)'
  BY ToldStays DEF ToldTruly, ToldNext, OpIds
<1> QED BY <1>1, <1>2 DEF ResultInv

LEMMA SlotsGoOn ==
  ASSUME IInv, ResultInv, UNCHANGED ops, LandedStays,
         NEW h \in Slots, NEW w, work' = [work EXCEPT ![h] = w],
         ToldNext(w.op, w.reply.code), w.pc # "done" => w.reply.code = "none",
         w.pc = "move" => IsWrite(w.op)
  PROVE  \A g \in Slots : SlotTells(g)'
<1>1. Typed
  BY Types DEF IInv
<1>2. work'[h] = w /\ \A g \in Slots : g # h => work'[g] = work[g]
  BY <1>1 DEF Typed
<1>3. \A o : IsWrite(o)' <=> IsWrite(o)
  BY DEF IsWrite
<1>4. SlotTells(h)'
  BY <1>2, <1>3 DEF SlotTells, ToldTruly, ToldNext
<1>5. ASSUME NEW g \in Slots, g # h PROVE SlotTells(g)'
  <2>1. SlotTells(g) /\ ToldNext(work[g].op, work[g].reply.code) /\ work'[g] = work[g]
    BY <1>2, <1>5, ToldStays DEF ResultInv
  <2> QED BY <1>3, <2>1 DEF SlotTells, ToldTruly, ToldNext
<1> QED BY <1>4, <1>5

LEMMA AnswersTell ==
  ASSUME IInv, ResultInv, UNCHANGED ops, LandedStays, NEW h \in Slots, NEW reply, Answers(h, reply),
         ToldNext(work[h].op, reply.code)
  PROVE  \A g \in Slots : SlotTells(g)'
<1> DEFINE done == [Idle EXCEPT !.op = work[h].op, !.kind = work[h].kind, !.pc = "done", !.reply = reply]
<1>1. work' = [work EXCEPT ![h] = done] \/ work' = [work EXCEPT ![h] = Idle]
  BY DEF Answers, Answered
<1>2. done.op = work[h].op /\ done.reply = reply /\ done.pc = "done"
      /\ Idle.reply.code = "none" /\ Idle.pc = "free"
  BY DEF Idle, NoReply
<1> HIDE DEF done
<1>3. ToldNext(Idle.op, Idle.reply.code)
  BY <1>2 DEF ToldNext, Behind
<1> QED BY <1>1, <1>2, <1>3, SlotsGoOn

LEMMA GoingTells ==
  ASSUME IInv, ResultInv, UNCHANGED ops, LandedStays, NEW h \in Slots, NEW pc, Goes(h, pc),
         work[h].pc # "done", pc # "done", pc = "move" => IsWrite(work[h].op)
  PROVE  \A g \in Slots : SlotTells(g)'
<1> DEFINE w == [work[h] EXCEPT !.pc = pc]
<1>1. work[h] \in SlotStates
  BY Types DEF IInv, Typed
<1>2. w.op = work[h].op /\ w.reply = work[h].reply /\ w.pc = pc
  BY <1>1 DEF SlotStates
<1>3. work' = [work EXCEPT ![h] = w]
  BY DEF Goes
<1>4. SlotTells(h) /\ ToldNext(work[h].op, work[h].reply.code)
  BY ToldStays DEF ResultInv
<1> HIDE DEF w
<1> QED BY <1>2, <1>3, <1>4, SlotsGoOn DEF SlotTells

LEMMA ReplyCodes == (\A code : Reply(code).code = code) /\ (\A doc : Receipt(doc).code = "ok")
  BY DEF Reply, Receipt

\* The steps of a request: what it answers is so when it answers.
LEMMA RequestsTellTruly ==
  ASSUME IInv, ResultInv, NEW h \in Slots,
         \/ Captures(h) \/ Compares(h) \/ Moves(h) \/ Confirms(h) \/ SaveFails(h) \/ Commits(h)
         \/ HostUnavailable(h) \/ HostAnswers(h) \/ HostFails(h) \/ Forgets(h) \/ Checkpoint(h)
         \/ Identifies(h) \/ CheckpointFails(h)
  PROVE  UNCHANGED ops /\ LandedStays /\ ResultInv'
<1>1. UNCHANGED ops
  BY DEF Captures, Compares, Moves, Confirms, SaveFails, Commits, HostUnavailable, HostAnswers, HostFails, Forgets,
         Checkpoint, Identifies, CheckpointFails, nodeVars
<1>2. LandedStays /\ work[h].pc # "done"
  <2>1. moved \subseteq moved' /\ committed \subseteq committed'
    BY DEF Captures, Compares, Moves, Confirms, SaveFails, Commits, HostUnavailable, HostAnswers, HostFails,
           Forgets, Checkpoint, Identifies, CheckpointFails, hostVars
  <2>2. work[h].pc # "done"
    BY DEF Captures, Compares, Moves, Confirms, SaveFails, Commits, HostUnavailable, HostAnswers, HostFails,
           Forgets, Checkpoint, Identifies, CheckpointFails
  <2>3. pipe' = pipe \/ (work[h].pc = "sent" /\ pipe' = pipe \cup {Request(h)})
    <3>1. CASE Forgets(h)
      BY <3>1 DEF Forgets
    <3>2. CASE Captures(h) \/ Compares(h) \/ Moves(h) \/ Confirms(h) \/ SaveFails(h) \/ Commits(h)
      BY <3>2 DEF Captures, Compares, Moves, Confirms, SaveFails, Commits, hostVars
    <3>3. CASE \/ HostUnavailable(h) \/ HostAnswers(h) \/ HostFails(h) \/ Checkpoint(h) \/ Identifies(h)
               \/ CheckpointFails(h)
      BY <3>3 DEF HostUnavailable, HostAnswers, HostFails, Checkpoint, Identifies, CheckpointFails, hostVars
    <3> QED BY <3>1, <3>2, <3>3
  <2>4. Request(h).op = work[h].op
    BY DEF Request
  <2> QED BY <2>1, <2>2, <2>3, <2>4 DEF LandedStays
<1>3. /\ \A o \in moved : IsWrite(o)
      /\ \A r \in pipe : r.op \notin committed
      /\ work[h].pc = "move" => IsWrite(work[h].op)
  BY DEF ResultInv, SlotTells
<1>4. ASSUME UNCHANGED <<moved, hostVars>>, \A g \in Slots : SlotTells(g)' PROVE ResultInv'
  BY <1>1, <1>2, <1>3, <1>4, ResultsGoOn DEF hostVars
<1>5. ASSUME NEW reply, reply.code \notin Behind \cup {"PARTIAL", "HOST_UNKNOWN"}, Answers(h, reply)
      PROVE  \A g \in Slots : SlotTells(g)'
  BY <1>1, <1>2, <1>5, AnswersTell DEF ToldNext
<1>6. ASSUME NEW pc \in {"after", "sent", "acked", "identity"}, Goes(h, pc) PROVE \A g \in Slots : SlotTells(g)'
  BY <1>1, <1>2, <1>6, GoingTells
<1>7. work[h].pc \in {"start", "sent"} /\ work[h].kind = "commit" => work[h].op \notin Landed
  BY NotYet
<1>8. work[h].pc = "sent" => work[h].op \notin Landed
  BY <1>7 DEF IInv, SlotInv
<1>9. CASE Captures(h)
  <2>1. UNCHANGED <<moved, hostVars>>
    BY <1>9 DEF Captures
  <2>2. ASSUME NEW cap, NEW pc \in {"compare", "managed"}, work' = [work EXCEPT ![h].cap = cap, ![h].pc = pc]
        PROVE  \A g \in Slots : SlotTells(g)'
    <3> DEFINE w == [work[h] EXCEPT !.cap = cap, !.pc = pc]
    <3>1. work[h] \in SlotStates
      BY Types DEF IInv, Typed
    <3>2. w.op = work[h].op /\ w.reply = work[h].reply /\ w.pc = pc
      BY <3>1 DEF SlotStates
    <3>3. work' = [work EXCEPT ![h] = w]
      BY <2>2, Types DEF IInv, Typed
    <3>4. SlotTells(h) /\ ToldNext(work[h].op, work[h].reply.code)
      BY <1>2, ToldStays DEF ResultInv
    <3> HIDE DEF w
    <3> QED BY <1>1, <1>2, <3>2, <3>3, <3>4, SlotsGoOn DEF SlotTells
  <2>3. \/ \E code \in {"BUSY", "CONFLICT", "FAILED"} : Answers(h, Reply(code))
        \/ Answers(h, Receipt(disk))
        \/ \E cap, pc : pc \in {"compare", "managed"} /\ work' = [work EXCEPT ![h].cap = cap, ![h].pc = pc]
    BY <1>9 DEF Captures
  <2> QED BY <1>1, <1>2, <1>4, <1>5, <2>1, <2>2, <2>3, ReplyCodes DEF Behind
<1>10. CASE Compares(h)
  <2>1. UNCHANGED <<moved, hostVars>> /\ work[h].pc = "compare"
    BY <1>10 DEF Compares
  <2>2. ASSUME disk = work[h].cap, ops[work[h].op].text # disk.source PROVE IsWrite(work[h].op)
    <3>1. work[h].cap = ops[work[h].op].expected /\ ops[work[h].op].kind = "save"
      BY <2>1 DEF IInv, WriteInv, SlotInv
    <3> QED BY <2>2, <3>1 DEF IsWrite
  <2>3. \/ Answers(h, Reply("CONFLICT"))
        \/ Goes(h, "after")
        \/ Goes(h, "move") /\ IsWrite(work[h].op)
    BY <1>10, <2>2 DEF Compares
  <2>4. ASSUME Goes(h, "move"), IsWrite(work[h].op) PROVE \A g \in Slots : SlotTells(g)'
    BY <1>1, <1>2, <2>4, GoingTells
  <2> QED BY <1>1, <1>2, <1>4, <1>5, <1>6, <2>1, <2>3, <2>4, ReplyCodes DEF Behind
<1>11. CASE Moves(h)
  <2>1. Goes(h, "after") /\ moved' = moved \cup {work[h].op} /\ UNCHANGED hostVars /\ IsWrite(work[h].op)
    BY <1>3, <1>11 DEF Moves
  <2> QED BY <1>1, <1>2, <1>3, <1>6, <2>1, ResultsGoOn DEF hostVars
<1>12. CASE Confirms(h) \/ SaveFails(h)
  <2>1. UNCHANGED <<moved, hostVars>>
    BY <1>12 DEF Confirms, SaveFails
  <2>2. \/ \E code \in {"CONFLICT", "FAILED", "TIMEOUT"} : Answers(h, Reply(code))
        \/ Answers(h, Receipt(disk))
        \/ Answers(h, Reply("PARTIAL")) /\ work[h].op \in moved
    BY <1>12 DEF Confirms, SaveFails
  <2>3. ASSUME Answers(h, Reply("PARTIAL")), work[h].op \in moved PROVE \A g \in Slots : SlotTells(g)'
    BY <1>1, <1>2, <2>1, <2>3, ReplyCodes, AnswersTell DEF ToldNext, Behind
  <2> QED BY <1>1, <1>2, <1>4, <1>5, <2>1, <2>2, <2>3, ReplyCodes DEF Behind
<1>13. CASE Commits(h) \/ HostUnavailable(h)
  <2>1. UNCHANGED <<moved, hostVars>>
    BY <1>13 DEF Commits, HostUnavailable
  <2>2. (\E code \in {"BUSY", "CONFLICT", "FAILED"} : Answers(h, Reply(code))) \/ Goes(h, "sent")
    BY <1>13 DEF Commits, HostUnavailable
  <2> QED BY <1>1, <1>2, <1>4, <1>5, <1>6, <2>1, <2>2, ReplyCodes DEF Behind
<1>14. CASE HostAnswers(h)
  <2>1. UNCHANGED <<moved, pipe>> /\ work[h].op \notin Landed
    BY <1>8, <1>14 DEF HostAnswers
  <2>2. CASE committed' = committed \cup {work[h].op} /\ Goes(h, "acked")
    <3>1. \A r \in pipe' : r.op \notin committed'
      BY <1>3, <2>1, <2>2 DEF Landed
    <3> QED BY <1>1, <1>2, <1>6, <2>1, <2>2, <3>1, ResultsGoOn
  <2>3. CASE Answers(h, Reply("HOST")) /\ UNCHANGED <<native, committed>>
    BY <1>1, <1>2, <1>4, <1>5, <2>1, <2>3, ReplyCodes DEF Behind, hostVars
  <2> QED BY <1>14, <2>2, <2>3 DEF HostAnswers
<1>15. CASE Forgets(h)
  <2>1. /\ UNCHANGED <<moved, committed>>
        /\ pipe' = IF work[h].pc = "sent" THEN pipe \cup {Request(h)} ELSE pipe
        /\ Answers(h, Reply("UNKNOWN")) \/ (Answers(h, Reply("ACK")) /\ work[h].pc = "acked")
    BY <1>15 DEF Forgets
  <2>2. Request(h).op = work[h].op
    BY DEF Request
  <2>3. \A r \in pipe' : r.op \notin committed'
    BY <1>3, <1>8, <2>1, <2>2 DEF Landed
  <2>4. ASSUME Answers(h, Reply("ACK")), work[h].pc = "acked" PROVE \A g \in Slots : SlotTells(g)'
    <3>1. work[h].op \in committed'
      BY <2>1, <2>4 DEF IInv, LandedInv
    <3> QED BY <1>1, <1>2, <2>4, <3>1, ReplyCodes, AnswersTell DEF ToldNext
  <2>5. ASSUME Answers(h, Reply("UNKNOWN")) PROVE \A g \in Slots : SlotTells(g)'
    BY <1>5, <2>5, ReplyCodes DEF Behind
  <2> QED BY <1>1, <1>2, <1>3, <2>1, <2>3, <2>4, <2>5, ResultsGoOn
<1>16. CASE Checkpoint(h) \/ CheckpointFails(h)
  <2>1. UNCHANGED <<moved, hostVars>> /\ work[h].op \in committed
    BY <1>16 DEF Checkpoint, CheckpointFails, IInv, LandedInv
  <2>2. Answers(h, Reply("CHECKPOINT")) \/ Goes(h, "identity")
    BY <1>16 DEF Checkpoint, CheckpointFails
  <2>3. ASSUME Answers(h, Reply("CHECKPOINT")) PROVE \A g \in Slots : SlotTells(g)'
    BY <1>1, <1>2, <2>1, <2>3, ReplyCodes, AnswersTell DEF hostVars, ToldNext, Behind
  <2> QED BY <1>1, <1>2, <1>4, <1>6, <2>1, <2>2, <2>3
<1>17. CASE Identifies(h)
  BY <1>1, <1>2, <1>4, <1>5, <1>17, ReplyCodes DEF Behind, Identifies
<1>18. CASE HostFails(h)
  <2>1. UNCHANGED <<moved, pipe>> /\ work[h].op \notin Landed
    BY <1>8, <1>18 DEF HostFails
  <2>2. ASSUME committed' = committed \cup {work[h].op},
               NEW code \in {"HOST_UNKNOWN", "HOST_PERSISTED"}, Answers(h, Reply(code))
        PROVE  ResultInv'
    <3>1. \A r \in pipe' : r.op \notin committed'
      BY <1>3, <2>1, <2>2 DEF Landed
    <3>2. \A r \in pipe' : r.op # work[h].op
      BY <2>1 DEF Landed
    <3>3. \A g \in Slots : SlotTells(g)'
      BY <1>1, <1>2, <2>2, <3>2, ReplyCodes, AnswersTell DEF ToldNext, Behind
    <3> QED BY <1>1, <1>2, <1>3, <2>1, <2>2, <3>1, <3>3, ResultsGoOn
  <2>3. ASSUME UNCHANGED <<native, committed>>, Answers(h, Reply("HOST_UNKNOWN"))
        PROVE  ResultInv'
    <3>1. \A r \in pipe' : r.op # work[h].op
      BY <2>1 DEF Landed
    <3>2. \A g \in Slots : SlotTells(g)'
      BY <1>1, <1>2, <2>3, <3>1, ReplyCodes, AnswersTell DEF ToldNext, Behind
    <3> QED BY <1>4, <2>1, <2>3, <3>2 DEF hostVars
  <2>4. ASSUME UNCHANGED <<native, committed>>, Answers(h, Reply("HOST"))
        PROVE  ResultInv'
    BY <1>4, <1>5, <2>1, <2>4, ReplyCodes DEF Behind, hostVars
  <2> QED BY <1>1, <1>2, <1>18, <2>2, <2>3, <2>4 DEF HostFails, HostReports
<1> QED BY <1>1, <1>2, <1>9, <1>10, <1>11, <1>12, <1>13, <1>14, <1>15, <1>16, <1>17, <1>18

\* What becomes of the operations in a step: one more is dispatched, one is told
\* its outcome, or the requests go on.
Dispatched ==
  /\ \E operation : operation.code = "none" /\ ops' = Append(ops, operation)
  /\ UNCHANGED <<moved, committed, pipe, work>>

IsTold(o, code) ==
  /\ o \in OpIds /\ ops' = [ops EXCEPT ![o].code = code] /\ code \in Codes
  /\ ops[o].code = "none" \/ code = "UNKNOWN"
  /\ ToldTruly(o, code)
  /\ UNCHANGED <<moved, committed, pipe>>
  /\ \A h \in Slots : work'[h] = work[h] \/ work'[h] = Idle

GoesOn == UNCHANGED ops /\ LandedStays

LEMMA DroppedIsTold ==
  ASSUME IInv, NEW i \in DOMAIN chain, NEW reply \in Replies, reply.code # "none", Drops(i, reply),
         ToldTruly(chain[i].op, reply.code)
  PROVE  \E o, code : IsTold(o, code)
<1>1. Typed /\ chain[i].op \in OpIds /\ ops[chain[i].op].code = "none"
  BY Types, Elements DEF IInv, ChainInv
<1>2. reply.code \in Codes
  BY DEF Replies
<1>3. \A h \in Slots : work'[h] = work[h] \/ work'[h] = Idle
  BY <1>1 DEF Typed, Drops
<1> QED BY <1>1, <1>2, <1>3 DEF IsTold, Drops, hostVars

LEMMA BeginsTellsTruly ==
  ASSUME IInv, ResultInv, Begins
  PROVE  (GoesOn /\ ResultInv') \/ \E o, code : IsTold(o, code)
<1>1. /\ Typed /\ Running = chain[1] /\ 1 \in DOMAIN chain /\ chain # <<>>
      /\ UNCHANGED <<disk, hostVars, moved, counts>>
  BY Types, RunningIsFirst DEF IInv, Begins
<1>2. Running.step = "queued" /\ Running.h = 0
  BY <1>1 DEF IInv, ChainInv, Begins
<1>3. CASE Call("inspect", "inspect") /\ UNCHANGED ops
  <2>1. PICK h \in Slots :
          work' = [work EXCEPT ![h] = [Idle EXCEPT !.op = Running.op, !.kind = "inspect", !.pc = "start"]]
    BY <1>3 DEF Call
  <2> DEFINE w == [Idle EXCEPT !.op = Running.op, !.kind = "inspect", !.pc = "start"]
  <2>2. w.reply.code = "none" /\ w.pc = "start"
    BY DEF Idle, NoReply
  <2>3. GoesOn
    BY <1>1, <1>3 DEF GoesOn, LandedStays, hostVars
  <2> HIDE DEF w
  <2>4. \A g \in Slots : SlotTells(g)'
    BY <2>1, <2>2, <2>3, SlotsGoOn DEF GoesOn, ToldNext, Behind, w
  <2> QED BY <1>1, <2>3, <2>4, ResultsGoOn DEF GoesOn, ResultInv, hostVars
<1>4. ASSUME NEW code \in {"OPEN", "STALE"}, Finish(Reply(code)), UNCHANGED work
      PROVE  \E o, told : IsTold(o, told)
  <2>1. Reply(code) \in Replies /\ Reply(code).code = code
    BY FirstSnapshotIsOne DEF Reply, Codes, Refusals
  <2>2. Drops(1, Reply(code))
    BY <1>1, <1>2, <1>4, <2>1, FinishDrops DEF counts
  <2> QED BY <1>1, <2>1, <2>2, DroppedIsTold DEF ToldTruly, Behind
<1> QED BY <1>3, <1>4 DEF Begins

LEMMA ReturnsTellsTruly ==
  ASSUME IInv, ResultInv, Returns
  PROVE  (GoesOn /\ ResultInv') \/ \E o, code : IsTold(o, code)
<1> DEFINE h == Running.h
           r == [work[h].reply EXCEPT !.code = Meaning(work[h].kind, @)]
           Ends(reply) == Finish(reply) /\ work' = [work EXCEPT ![h] = Idle]
<1>1. chain # <<>> /\ h # 0 /\ work[h].pc = "done" /\ UNCHANGED <<disk, hostVars, moved, counts>>
  BY DEF Returns
<1>2. Typed /\ Running = chain[1] /\ 1 \in DOMAIN chain
  BY <1>1, Types, RunningIsFirst DEF IInv
<1>3. /\ h \in Slots /\ r \in Replies /\ r.code = Meaning(work[h].kind, work[h].reply.code)
      /\ work[h].op = Running.op
  BY <1>1, AnswerIs
<1>4. ASSUME NEW reply \in Replies, reply.code # "none", Ends(reply), ToldTruly(Running.op, reply.code)
      PROVE  \E o, code : IsTold(o, code)
  <2>1. Drops(1, reply)
    BY <1>1, <1>2, <1>4, FinishDrops DEF counts
  <2> QED BY <1>2, <1>4, <2>1, DroppedIsTold
<1>5. r.code # "none" /\ ToldTruly(Running.op, r.code)
  <2>1. work[h].reply.code # "none" /\ ToldTruly(Running.op, work[h].reply.code)
    BY <1>1, <1>3 DEF IInv, CodesInv, ResultInv, SlotTells
  <2> QED BY <1>3, <2>1 DEF Meaning, ToldTruly, Behind
<1>6. ASSUME NEW code \in {"CONFLICT", "STALE", "UNKNOWN"}, Ends(Reply(code))
      PROVE  \E o, told : IsTold(o, told)
  <2>1. Reply(code) \in Replies /\ Reply(code).code = code
    BY FirstSnapshotIsOne DEF Reply, Codes, Refusals, Unconfirmed
  <2> QED BY <1>4, <1>6, <2>1 DEF ToldTruly, Behind
<1>7. ASSUME Running.step = "readback", Ends(Reply("READBACK"))
      PROVE  \E o, told : IsTold(o, told)
  <2>1. Reply("READBACK") \in Replies /\ Reply("READBACK").code = "READBACK"
    BY FirstSnapshotIsOne DEF Reply, Codes, Unconfirmed
  <2>2. Running.op \in committed
    BY <1>2, <1>7 DEF IInv, LandedInv
  <2> QED BY <1>4, <1>7, <2>1, <2>2 DEF ToldTruly
<1>8. ASSUME UNCHANGED ops, NEW kind,
             work' = [work EXCEPT ![h] = [Idle EXCEPT !.op = Running.op, !.kind = kind, !.pc = "start"]]
      PROVE  GoesOn /\ ResultInv'
  <2> DEFINE w == [Idle EXCEPT !.op = Running.op, !.kind = kind, !.pc = "start"]
  <2>1. w.reply.code = "none" /\ w.pc = "start"
    BY DEF Idle, NoReply
  <2>2. GoesOn
    BY <1>1, <1>8 DEF GoesOn, LandedStays, hostVars
  <2> HIDE DEF w
  <2>3. \A g \in Slots : SlotTells(g)'
    BY <1>3, <1>8, <2>1, <2>2, SlotsGoOn DEF GoesOn, ToldNext, Behind, w
  <2> QED BY <1>1, <2>2, <2>3, ResultsGoOn DEF GoesOn, ResultInv, hostVars
<1>9. \/ Ends(r)
      \/ \E code \in {"CONFLICT", "STALE", "UNKNOWN"} : Ends(Reply(code))
      \/ Running.step = "readback" /\ Ends(Reply("READBACK"))
      \/ \E kind : /\ UNCHANGED ops
                   /\ work' = [work EXCEPT ![h] = [Idle EXCEPT !.op = Running.op, !.kind = kind, !.pc = "start"]]
  BY DEF Returns
<1> HIDE DEF Ends, r, h
<1> QED BY <1>3, <1>4, <1>5, <1>6, <1>7, <1>8, <1>9

LEMMA AbortsTellsTruly ==
  ASSUME IInv, Aborts
  PROVE  \E o, code : IsTold(o, code)
<1>1. PICK i \in DOMAIN chain :
        LET o == chain[i].op IN
        /\ chain' = Leave(i)
        /\ ops' = [ops EXCEPT ![o].code = "UNKNOWN"]
        /\ client' = [client EXCEPT ![ops[o].client].reply = Reply("UNKNOWN")]
        /\ work' = IF chain[i].h # 0 /\ work[chain[i].h].pc = "done" THEN [work EXCEPT ![chain[i].h] = Idle] ELSE work
        /\ UNCHANGED <<disk, hostVars, moved, edits>>
  BY DEF Aborts
<1>2. Reply("UNKNOWN") \in Replies /\ Reply("UNKNOWN").code = "UNKNOWN"
  BY FirstSnapshotIsOne DEF Reply, Codes, Unconfirmed
<1>3. Drops(i, Reply("UNKNOWN"))
  BY <1>1, <1>2 DEF Drops
<1> QED BY <1>2, <1>3, DroppedIsTold DEF ToldTruly, Behind

LEMMA LosingTellsTruly ==
  ASSUME IInv, NEW c \in Clients, AnswerIsLost(c)
  PROVE  \E o, code : IsTold(o, code)
<1>1. client[c].op \in OpIds
  BY DEF IInv, ClientInv, AnswerIsLost
<1>2. "UNKNOWN" \in Codes
  BY DEF Codes, Unconfirmed
<1>3. IsTold(client[c].op, "UNKNOWN")
  BY <1>1, <1>2 DEF IsTold, ToldTruly, Behind, AnswerIsLost, hostVars
<1> QED BY <1>3

\* Beside the requests: the host is late, the serve process dies, others edit.
LEMMA OthersTellTruly ==
  ASSUME IInv, ResultInv, HostIsLate \/ ServeDies \/ EditsWorkingFile \/ EditsNative \/ release
  PROVE  GoesOn /\ ResultInv'
<1>1. GoesOn /\ moved' = moved
  <2>1. UNCHANGED <<ops, moved>> /\ committed \subseteq committed'
    BY DEF HostIsLate, ServeDies, EditsWorkingFile, EditsNative, release, nodeVars, hostVars
  <2>2. ASSUME NEW r \in pipe' PROVE r \in pipe \/ \E g \in Slots : work[g].pc = "sent" /\ r.op = work[g].op
    <3>1. CASE ServeDies
      <4>1. r \in pipe \/ \E g \in Slots : work[g].pc = "sent" /\ r = Request(g)
        BY <2>2, <3>1 DEF ServeDies
      <4>2. \A g \in Slots : Request(g).op = work[g].op
        BY DEF Request
      <4> QED BY <4>1, <4>2
    <3>2. CASE HostIsLate \/ EditsWorkingFile \/ EditsNative \/ release
      BY <2>2, <3>2 DEF HostIsLate, EditsWorkingFile, EditsNative, release, hostVars
    <3> QED BY <3>1, <3>2
  <2> QED BY <2>1, <2>2 DEF GoesOn, LandedStays
<1>2. Typed
  BY Types DEF IInv
<1>3. \A o : IsWrite(o)' <=> IsWrite(o)
  BY <1>1 DEF IsWrite, GoesOn
<1>4. ASSUME NEW h \in Slots, work'[h] = work[h] PROVE SlotTells(h)'
  <2>1. SlotTells(h) /\ ToldNext(work[h].op, work[h].reply.code)
    BY <1>1, ToldStays DEF ResultInv, GoesOn
  <2> QED BY <1>3, <1>4, <2>1 DEF SlotTells, ToldTruly, ToldNext
<1>5. UNCHANGED work => \A h \in Slots : SlotTells(h)'
  BY <1>4
<1>6. CASE HostIsLate
  <2>1. PICK r \in pipe :
          /\ pipe' = pipe \ {r} /\ committed' \subseteq committed \cup {r.op}
    BY <1>6 DEF HostIsLate
  <2>2. ASSUME NEW s \in pipe, s.op = r.op PROVE s = r
    <3>1. s \in Commitments /\ r \in Commitments
      BY <1>2 DEF Typed
    <3>2. s.version = r.version /\ s.body = r.body
      BY <2>2 DEF IInv, WriteInv
    <3> QED BY <2>2, <3>1, <3>2 DEF Commitments
  <2>3. \A s \in pipe' : s.op \notin committed'
    BY <2>1, <2>2 DEF ResultInv
  <2>4. UNCHANGED work
    BY <1>6 DEF HostIsLate
  <2> QED BY <1>1, <1>5, <2>3, <2>4, ResultsGoOn DEF GoesOn
<1>7. CASE ServeDies
  <2>1. UNCHANGED <<disk, native, committed>>
    BY <1>7 DEF ServeDies
  <2>2. ASSUME NEW s \in pipe' PROVE s.op \notin committed
    <3>1. s \in pipe \/ \E h \in Slots : work[h].pc = "sent" /\ s = Request(h)
      BY <1>7 DEF ServeDies
    <3>2. ASSUME NEW h \in Slots, work[h].pc = "sent", s = Request(h) PROVE s.op \notin committed
      <4>1. work[h].op \notin Landed
        BY <3>2, NotYet DEF IInv, SlotInv
      <4> QED BY <3>2, <4>1 DEF Request, Landed
    <3> QED BY <3>1, <3>2 DEF ResultInv
  <2>3. ASSUME NEW h \in Slots PROVE SlotTells(h)'
    <3>1. CASE work[h].pc \in {"free", "done"}
      <4>1. work'[h] = work[h]
        BY <1>7, <3>1 DEF ServeDies
      <4> QED BY <1>4, <4>1
    <3>2. CASE work[h].pc \notin {"free", "done"}
      <4> DEFINE lost == [Idle EXCEPT !.op = work[h].op, !.kind = work[h].kind, !.pc = "done", !.reply = Reply("LOST")]
      <4>1. work'[h] = lost \/ work'[h] = Idle
        BY <1>7, <3>2 DEF ServeDies
      <4>2. /\ lost.pc = "done" /\ lost.reply.code = "LOST"
            /\ Idle.pc = "free" /\ Idle.reply.code = "none"
        BY ReplyCodes DEF Idle, NoReply
      <4> HIDE DEF lost
      <4> QED BY <4>1, <4>2 DEF SlotTells, ToldTruly, Behind
    <3> QED BY <3>1, <3>2
  <2> QED BY <1>1, <2>1, <2>2, <2>3, ResultsGoOn DEF GoesOn
<1>8. CASE EditsWorkingFile
  <2>1. UNCHANGED hostVars
    BY <1>8 DEF EditsWorkingFile
  <2>2. ASSUME NEW h \in Slots PROVE SlotTells(h)'
    <3>1. work'[h] = [work[h] EXCEPT !.raced = @ \/ work[h].pc = "move"] /\ work[h] \in SlotStates
      BY <1>2, <1>8 DEF EditsWorkingFile, Typed
    <3>2. work'[h].op = work[h].op /\ work'[h].pc = work[h].pc /\ work'[h].reply = work[h].reply
      BY <3>1 DEF SlotStates
    <3>3. SlotTells(h) /\ ToldNext(work[h].op, work[h].reply.code)
      BY <1>1, ToldStays DEF ResultInv, GoesOn
    <3> QED BY <1>3, <3>2, <3>3 DEF SlotTells, ToldTruly, ToldNext
  <2> QED BY <1>1, <2>1, <2>2, ResultsGoOn DEF GoesOn, ResultInv, hostVars
<1>9. CASE EditsNative \/ release
  <2>1. UNCHANGED <<work, pipe, committed>>
    BY <1>9 DEF EditsNative, release, hostVars
  <2> QED BY <1>1, <1>5, <2>1, ResultsGoOn DEF GoesOn, ResultInv
<1> QED BY <1>6, <1>7, <1>8, <1>9

LEMMA StepsTellTruly ==
  ASSUME IInv, ResultInv, [Next]_vars
  PROVE  Dispatched \/ (GoesOn /\ ResultInv') \/ \E o, code : IsTold(o, code)
<1>1. ASSUME NEW c \in Clients, NEW kind, NEW text, Dispatch(c, kind, text),
             UNCHANGED <<disk, hostVars, lease, work, moved, counts>>
      PROVE  Dispatched
  BY <1>1 DEF Dispatched, Dispatch, hostVars
<1>2. ASSUME UNCHANGED <<disk, hostVars, nodeVars, work, moved>> PROVE GoesOn /\ ResultInv'
  BY <1>2 DEF GoesOn, LandedStays, ResultInv, SlotTells, ToldTruly, IsWrite, OpIds, nodeVars, hostVars
<1>3. ASSUME NEW c \in Clients, connect(c) \/ sync(c) \/ \E t \in Texts : save(c, t)
      PROVE  Dispatched
  BY <1>1, <1>3 DEF connect, sync, save
<1>4. ASSUME NEW c \in Clients, receive(c) \/ close(c) \/ ConnectionBreaks(c)
      PROVE  GoesOn /\ ResultInv'
  <2>1. UNCHANGED <<disk, hostVars, nodeVars, work, moved>>
    BY <1>4 DEF receive, close, ConnectionBreaks
  <2> QED BY <1>2, <2>1
<1>5. CASE UNCHANGED vars
  <2>1. UNCHANGED <<disk, hostVars, nodeVars, work, moved>>
    BY <1>5 DEF vars, hostVars, nodeVars
  <2> QED BY <1>2, <2>1
<1>6. ASSUME NEW h \in Slots,
             \/ Captures(h) \/ Compares(h) \/ Moves(h) \/ Confirms(h) \/ SaveFails(h) \/ Commits(h)
             \/ HostUnavailable(h) \/ HostAnswers(h) \/ HostFails(h) \/ Forgets(h) \/ Checkpoint(h)
             \/ Identifies(h) \/ CheckpointFails(h)
      PROVE  GoesOn /\ ResultInv'
  BY <1>6, RequestsTellTruly DEF GoesOn
<1>7. CASE Begins \/ Returns \/ Aborts
  BY <1>7, BeginsTellsTruly, ReturnsTellsTruly, AbortsTellsTruly
<1>8. CASE HostIsLate \/ ServeDies \/ EditsWorkingFile \/ EditsNative \/ release
  BY <1>8, OthersTellTruly
<1> QED BY <1>3, <1>4, <1>5, <1>6, <1>7, <1>8, LosingTellsTruly DEF Next

\* What an operation asks does not change, and its outcome is told once; only the
\* news of it may be lost.
OutcomesLast ==
  \A o \in OpIds :
    /\ o \in OpIds' /\ (IsWrite(o)' <=> IsWrite(o)) /\ ops'[o].expected = ops[o].expected
    /\ ops'[o].code = ops[o].code \/ ops[o].code = "none" \/ ops'[o].code = "UNKNOWN"

LEMMA OperationsLast ==
  ASSUME IInv, ResultInv, [Next]_vars
  PROVE  /\ ResultInv' /\ OutcomesLast /\ LandedStays
         /\ \A o \in OpIds' \ OpIds : ops'[o].code = "none"
         /\ UNCHANGED ops \/ UNCHANGED <<moved, committed>>
<1>1. Typed /\ ops \in Seq(Operations) /\ DOMAIN ops = OpIds /\ moved \subseteq OpIds
  BY Types DEF IInv, Typed, OpIds
<1>2. CASE GoesOn /\ ResultInv'
  BY <1>2 DEF GoesOn, OutcomesLast, IsWrite, OpIds
<1>3. CASE Dispatched
  <2>1. PICK operation : operation.code = "none" /\ ops' = Append(ops, operation)
    BY <1>3 DEF Dispatched
  <2>2. /\ UNCHANGED <<moved, committed, pipe, work>>
        /\ OpIds' = OpIds \cup {Len(ops) + 1} /\ ops'[Len(ops) + 1].code = "none"
        /\ \A o \in OpIds : ops'[o] = ops[o] /\ (IsWrite(o)' <=> IsWrite(o))
    BY <1>1, <1>3, <2>1 DEF Dispatched, OpIds, IsWrite
  <2>3. \A h \in Slots : SlotTells(h)'
    <3> SUFFICES ASSUME NEW h \in Slots PROVE SlotTells(h)'
      OBVIOUS
    <3>1. work[h].pc = "move" => work[h].op \in OpIds
      BY DEF IInv, SlotInv
    <3> QED BY <2>2, <3>1 DEF ResultInv, SlotTells, ToldTruly
  <2>4. \A o \in OpIds' : ToldTruly(o, ops[o].code)'
    BY <2>2 DEF ResultInv, ToldTruly, Behind
  <2>5. ResultInv'
    BY <1>1, <2>2, <2>3, <2>4 DEF ResultInv
  <2> QED BY <2>2, <2>5 DEF OutcomesLast, LandedStays
<1>4. ASSUME NEW p, NEW code, IsTold(p, code)
      PROVE  /\ ResultInv' /\ OutcomesLast /\ LandedStays
             /\ \A o \in OpIds' \ OpIds : ops'[o].code = "none"
             /\ UNCHANGED <<moved, committed>>
  <2> DEFINE operation == [ops[p] EXCEPT !.code = code]
  <2>1. p \in OpIds /\ ops[p] \in Operations /\ code \in Codes /\ UNCHANGED <<moved, committed, pipe>>
    BY <1>1, <1>4, Elements DEF IsTold
  <2>2. /\ operation \in Operations /\ operation.code = code /\ operation.kind = ops[p].kind
        /\ operation.text = ops[p].text /\ operation.expected = ops[p].expected
    BY <2>1 DEF Operations
  <2>3. ops' = [ops EXCEPT ![p] = operation]
    BY <1>1, <1>4 DEF IsTold
  <2> HIDE DEF operation
  <2>4. OpIds' = OpIds /\ ops'[p] = operation /\ \A o \in OpIds : o # p => ops'[o] = ops[o]
    BY <1>1, <2>1, <2>2, <2>3, Replaced DEF OpIds
  <2>5. \A o \in OpIds : IsWrite(o)' <=> IsWrite(o)
    BY <2>2, <2>4 DEF IsWrite
  <2>6. \A o \in OpIds' : ToldTruly(o, ops[o].code)'
    BY <1>4, <2>1, <2>2, <2>4 DEF ResultInv, ToldTruly, IsTold
  <2>7. ASSUME NEW h \in Slots PROVE SlotTells(h)'
    <3>1. CASE work'[h] = work[h]
      <4>1. work[h].pc = "move" => work[h].op \in OpIds
        BY DEF IInv, SlotInv
      <4> QED BY <2>1, <2>5, <3>1, <4>1 DEF ResultInv, SlotTells, ToldTruly
    <3>2. CASE work'[h] = Idle
      BY <3>2 DEF Idle, NoReply, SlotTells, ToldTruly, Behind
    <3> QED BY <1>4, <3>1, <3>2 DEF IsTold
  <2>8. ResultInv'
    BY <1>1, <2>1, <2>5, <2>6, <2>7 DEF ResultInv
  <2>9. OutcomesLast
    BY <1>4, <2>1, <2>2, <2>4, <2>5 DEF OutcomesLast, IsTold
  <2> QED BY <2>1, <2>4, <2>8, <2>9 DEF LandedStays
<1> QED BY <1>2, <1>3, <1>4, StepsTellTruly DEF GoesOn, Dispatched

LEMMA ResultsAtFirst == Init => ResultInv
<1> SUFFICES ASSUME Init PROVE ResultInv
  OBVIOUS
<1>1. OpIds = {} /\ moved = {} /\ pipe = {}
  BY DEF Init, OpIds
<1>2. \A h \in Slots : work[h] = Idle
  BY DEF Init
<1>3. Idle.reply.code = "none" /\ Idle.pc = "free"
  BY DEF Idle, NoReply
<1> QED BY <1>1, <1>2, <1>3 DEF ResultInv, SlotTells, ToldTruly, Behind

THEOREM ResultsAreTrue == Spec => []ResultInv
<1>1. IInv /\ ResultInv /\ [Next]_vars => ResultInv'
  BY OperationsLast
<1> QED BY <1>1, ResultsAtFirst, BundleInvariant, PTL DEF Spec

(* No refusal is answered for a write that happened or still will, and no  *)
(* confirmation for one that did not, whoever gave up in the meantime and  *)
(* however the host failed: it refuses only before its save, and reports a *)
(* failure behind it as such (editSourceBundleDocument, syncSourceBundle-  *)
(* Document, Apply).                                                       *)
THEOREM AnswersAreAlwaysTrue == Spec => []AnswersAreTrue
<1>1. IInv /\ ResultInv => AnswersAreTrue
  BY DEF IInv, CodesAreTrue, ResultInv, ToldTruly, Behind, AnswersAreTrue
<1> QED BY <1>1, BundleInvariant, ResultsAreTrue, PTL

-----------------------------------------------------------------------------
(* What is over stays over: a request belongs to the operation it was made  *)
(* for, or to the first one of the chain, which has not been answered.      *)

TakesUpNothing ==
  /\ \A h \in Slots : \/ work'[h].op \in {work[h].op, 0}
                      \/ chain # <<>> /\ work'[h].op = Running.op
  /\ \A r \in pipe' : r \in pipe \/ \E h \in Slots : r.op = work[h].op

LEMMA RequestsTakeUpNothing ==
  ASSUME IInv, NEW h \in Slots,
         \/ Captures(h) \/ Compares(h) \/ Moves(h) \/ Confirms(h) \/ SaveFails(h) \/ Commits(h)
         \/ HostUnavailable(h) \/ HostAnswers(h) \/ HostFails(h) \/ Forgets(h) \/ Checkpoint(h)
         \/ Identifies(h) \/ CheckpointFails(h)
  PROVE  TakesUpNothing
<1>1. work \in [Slots -> SlotStates]
  BY Types DEF IInv, Typed
<1>2. ASSUME NEW reply, Answers(h, reply) PROVE \A g \in Slots : work'[g].op \in {work[g].op, 0}
  <2>1. Idle.op = 0
    BY DEF Idle
  <2>2. [Idle EXCEPT !.op = work[h].op, !.kind = work[h].kind, !.pc = "done", !.reply = reply].op = work[h].op
    BY DEF Idle
  <2> QED BY <1>1, <1>2, <2>1, <2>2 DEF Answers, Answered
<1>3. ASSUME NEW pc, Goes(h, pc) PROVE \A g \in Slots : work'[g].op = work[g].op
  BY <1>1, <1>3 DEF Goes, SlotStates
<1>4. ASSUME NEW cap, NEW pc, work' = [work EXCEPT ![h].cap = cap, ![h].pc = pc]
      PROVE  \A g \in Slots : work'[g].op = work[g].op
  BY <1>1, <1>4 DEF SlotStates
<1>5. \/ \E reply : Answers(h, reply)
      \/ \E pc : Goes(h, pc)
      \/ \E cap, pc : work' = [work EXCEPT ![h].cap = cap, ![h].pc = pc]
  <2>1. CASE Captures(h)
    BY <2>1 DEF Captures
  <2>2. CASE Compares(h) \/ Moves(h) \/ Confirms(h) \/ SaveFails(h)
    BY <2>2 DEF Compares, Moves, Confirms, SaveFails
  <2>3. CASE Commits(h) \/ HostUnavailable(h) \/ HostAnswers(h) \/ HostFails(h) \/ Forgets(h)
    BY <2>3 DEF Commits, HostUnavailable, HostAnswers, HostFails, Forgets
  <2>4. CASE Checkpoint(h) \/ Identifies(h) \/ CheckpointFails(h)
    BY <2>4 DEF Checkpoint, Identifies, CheckpointFails
  <2> QED BY <2>1, <2>2, <2>3, <2>4
<1>6. pipe' = pipe \/ pipe' = pipe \cup {Request(h)}
  <2>1. CASE Forgets(h)
    BY <2>1 DEF Forgets
  <2>2. CASE Captures(h) \/ Compares(h) \/ Moves(h) \/ Confirms(h) \/ SaveFails(h) \/ Commits(h)
    BY <2>2 DEF Captures, Compares, Moves, Confirms, SaveFails, Commits, hostVars
  <2>3. CASE \/ HostUnavailable(h) \/ HostAnswers(h) \/ HostFails(h) \/ Checkpoint(h) \/ Identifies(h)
             \/ CheckpointFails(h)
    BY <2>3 DEF HostUnavailable, HostAnswers, HostFails, Checkpoint, Identifies, CheckpointFails, hostVars
  <2> QED BY <2>1, <2>2, <2>3
<1>7. Request(h).op = work[h].op
  BY DEF Request
<1>8. \A g \in Slots : work'[g].op \in {work[g].op, 0}
  BY <1>2, <1>3, <1>4, <1>5
<1> QED BY <1>6, <1>7, <1>8 DEF TakesUpNothing

LEMMA StepsTakeUpNothing ==
  ASSUME IInv, [Next]_vars
  PROVE  TakesUpNothing
<1>1. work \in [Slots -> SlotStates] /\ Idle.op = 0
  BY Types DEF IInv, Typed, Idle
<1>2. ASSUME UNCHANGED <<work, pipe>> PROVE TakesUpNothing
  BY <1>2 DEF TakesUpNothing
<1>3. ASSUME NEW g \in Slots, NEW w, w.op \in {work[g].op, 0} \/ (chain # <<>> /\ w.op = Running.op),
             work' = [work EXCEPT ![g] = w], UNCHANGED pipe
      PROVE  TakesUpNothing
  BY <1>1, <1>3 DEF TakesUpNothing
<1>4. CASE Begins
  <2>1. \/ UNCHANGED <<work, pipe>>
        \/ Call("inspect", "inspect") /\ chain # <<>> /\ UNCHANGED pipe
    BY <1>4 DEF Begins, hostVars
  <2>2. ASSUME NEW h \in Slots, chain # <<>>, UNCHANGED pipe,
               work' = [work EXCEPT ![h] = [Idle EXCEPT !.op = Running.op, !.kind = "inspect", !.pc = "start"]]
        PROVE  TakesUpNothing
    <3>1. [Idle EXCEPT !.op = Running.op, !.kind = "inspect", !.pc = "start"].op = Running.op
      BY DEF Idle
    <3> QED BY <1>3, <2>2, <3>1
  <2> QED BY <1>2, <2>1, <2>2 DEF Call
<1>5. CASE Returns
  <2>1. chain # <<>> /\ UNCHANGED pipe
    BY <1>5 DEF Returns, hostVars
  <2>2. Running.h \in Slots
    <3>1. Running = chain[1] /\ 1 \in DOMAIN chain /\ Running.h # 0
      BY <1>5, RunningIsFirst, Types DEF IInv, Returns
    <3>2. chain[1] \in Items
      BY <3>1, Elements, Types DEF IInv
    <3> QED BY <3>1, <3>2 DEF Items
  <2>3. \/ work' = [work EXCEPT ![Running.h] = Idle]
        \/ \E kind : work' = [work EXCEPT ![Running.h] = [Idle EXCEPT !.op = Running.op, !.kind = kind, !.pc = "start"]]
    BY <1>5 DEF Returns
  <2>4. ASSUME work' = [work EXCEPT ![Running.h] = Idle] PROVE TakesUpNothing
    BY <1>1, <1>3, <2>1, <2>2, <2>4
  <2>5. ASSUME NEW kind,
               work' = [work EXCEPT ![Running.h] = [Idle EXCEPT !.op = Running.op, !.kind = kind, !.pc = "start"]]
        PROVE  TakesUpNothing
    <3>1. [Idle EXCEPT !.op = Running.op, !.kind = kind, !.pc = "start"].op = Running.op
      BY DEF Idle
    <3> QED BY <1>3, <2>1, <2>2, <2>5, <3>1
  <2> QED BY <2>3, <2>4, <2>5
<1>6. CASE Aborts
  <2>1. UNCHANGED pipe /\ \A h \in Slots : work'[h] \in {work[h], Idle}
    BY <1>1, <1>6 DEF Aborts, hostVars
  <2> QED BY <1>1, <2>1 DEF TakesUpNothing
<1>7. CASE ServeDies
  <2>1. \A h \in Slots : work'[h].op \in {work[h].op, 0}
    <3> SUFFICES ASSUME NEW h \in Slots PROVE work'[h].op \in {work[h].op, 0}
      OBVIOUS
    <3> DEFINE lost == [Idle EXCEPT !.op = work[h].op, !.kind = work[h].kind, !.pc = "done", !.reply = Reply("LOST")]
    <3>1. work'[h] \in {work[h], lost, Idle}
      BY <1>7 DEF ServeDies
    <3>2. lost.op = work[h].op
      BY DEF Idle
    <3> HIDE DEF lost
    <3> QED BY <1>1, <3>1, <3>2
  <2>2. \A r \in pipe' : r \in pipe \/ \E h \in Slots : r = Request(h)
    BY <1>7 DEF ServeDies
  <2>3. \A h : Request(h).op = work[h].op
    BY DEF Request
  <2> QED BY <2>1, <2>2, <2>3 DEF TakesUpNothing
<1>8. CASE EditsWorkingFile
  <2>1. \A h \in Slots : work'[h].op = work[h].op
    BY <1>1, <1>8 DEF EditsWorkingFile, SlotStates
  <2> QED BY <1>8, <2>1 DEF EditsWorkingFile, TakesUpNothing, hostVars
<1>9. CASE HostIsLate
  BY <1>9 DEF HostIsLate, TakesUpNothing
<1>10. CASE EditsNative \/ release \/ UNCHANGED vars
  BY <1>2, <1>10 DEF EditsNative, release, vars, hostVars
<1>11. ASSUME NEW c \in Clients,
              \/ connect(c) \/ sync(c) \/ receive(c) \/ close(c) \/ ConnectionBreaks(c) \/ AnswerIsLost(c)
              \/ \E t \in Texts : save(c, t)
       PROVE  TakesUpNothing
  <2>1. UNCHANGED <<work, pipe>>
    BY <1>11 DEF connect, sync, receive, close, ConnectionBreaks, AnswerIsLost, save, hostVars
  <2> QED BY <1>2, <2>1
<1> QED BY <1>4, <1>5, <1>6, <1>7, <1>8, <1>9, <1>10, <1>11, RequestsTakeUpNothing DEF Next

LEMMA AnsweredIsServed ==
  ASSUME IInv, NEW o \in OpIds, ops[o].code # "none", NEW h \in Slots, work[h].op = o
  PROVE  ops[o].code = "UNKNOWN"
<1>1. o # 0 /\ o \in Nat
  BY Types DEF IInv, Typed, OpIds
<1>2. work[h].pc # "free"
  BY <1>1 DEF IInv, SlotInv, Idle
<1>3. ~Waited(h)
  <2> SUFFICES ASSUME NEW i \in DOMAIN chain, chain[i].h = h PROVE chain[i].op = o
    BY DEF IInv, ChainInv, Waited
  <2> QED BY DocumentAssumption DEF IInv, ChainInv, Slots
<1> QED BY <1>2, <1>3 DEF IInv, SlotInv

(* An operation that was refused or confirmed is over, and what is over is  *)
(* not taken up again.                                                      *)
LEMMA OverStaysOver ==
  ASSUME IInv, ResultInv, [Next]_vars, NEW o \in OpIds, ops[o].code # "none"
  PROVE  /\ UnderWay(o)' => UnderWay(o)
         /\ ops[o].code # "UNKNOWN" /\ UnderWay(o) => \E r \in pipe : r.op = o
<1>1. chain # <<>> => Running.op # o
  <2> SUFFICES ASSUME chain # <<>> PROVE ops[Running.op].code = "none"
    OBVIOUS
  <2> QED BY RunningIsFirst, Types DEF IInv, ChainInv
<1>2. o # 0 /\ o \in Nat
  BY Types DEF IInv, Typed, OpIds
<1>3. UnderWay(o)' => UnderWay(o)
  BY <1>1, <1>2, StepsTakeUpNothing DEF TakesUpNothing, UnderWay, Slots
<1>4. ASSUME NEW h \in Slots, work[h].op = o PROVE ops[o].code = "UNKNOWN"
  BY <1>4, AnsweredIsServed
<1> QED BY <1>3, <1>4 DEF UnderWay

(* A commit that changes the action adds to its versions, and names the     *)
(* last one: no two are made from one version.                              *)
VersionsInv ==
  /\ \A o \in committed : /\ ops[o].expected.base.version <= Len(native)
                          /\ Changes(ops[o].expected) => ops[o].expected.base.version < Len(native)
  /\ \A o, p \in Changed : o # p => ops[o].expected.base.version # ops[p].expected.base.version

LEMMA VersionsNext ==
  ASSUME IInv, ResultInv, VersionsInv, [Next]_vars
  PROVE  VersionsInv'
<1>1. /\ Typed /\ Len(native) \in Nat
      /\ \A o \in committed : o \in OpIds /\ ops[o].expected \in Snapshots /\ ops[o].expected.base.version \in Nat
  BY Types, Elements, BodiesOf DEF IInv, Typed, Operations
<1>2. \A o \in OpIds : ops'[o].expected = ops[o].expected
  BY OperationsLast DEF OutcomesLast
<1>3. CASE UNCHANGED committed /\ NativeGrows
  <2>1. Len(native') \in Nat /\ Len(native) <= Len(native')
    BY <1>1, <1>3, NativeKeeps
  <2>2. \A o \in committed : (Changes(ops[o].expected))' <=> Changes(ops[o].expected)
    BY <1>1, <1>2 DEF Changes
  <2>3. Changed' = Changed /\ Changed \subseteq committed
    BY <1>3, <2>2 DEF Changed
  <2>4. ASSUME NEW o \in committed
        PROVE  /\ ops'[o].expected.base.version <= Len(native')
               /\ Changes(ops'[o].expected) => ops'[o].expected.base.version < Len(native')
    BY <1>1, <1>2, <2>1 DEF VersionsInv
  <2>5. \A o, p \in Changed : o # p => ops'[o].expected.base.version # ops'[p].expected.base.version
    BY <1>1, <1>2, <2>3 DEF VersionsInv
  <2> QED BY <1>3, <2>3, <2>4, <2>5 DEF VersionsInv, Changes
<1>4. ASSUME NEW o \in OpIds, CommitsFor(o)
      PROVE  VersionsInv'
  <2> DEFINE version(p) == ops[p].expected.base.version
  <2>1. /\ committed' = committed \cup {o} /\ version(o) = Len(native) /\ version(o) \in Nat
        /\ Len(native') = NextVersion(ops[o].expected) /\ \A p : ops'[p] = ops[p]
    BY <1>1, <1>4 DEF CommitsFor
  <2>2. /\ Changes(ops[o].expected) => Len(native') = Len(native) + 1
        /\ ~Changes(ops[o].expected) => Len(native') = Len(native)
    BY <2>1 DEF NextVersion
  <2>3. ASSUME NEW p \in committed'
        PROVE  version(p) <= Len(native') /\ (Changes(ops[p].expected) => version(p) < Len(native'))
    BY <1>1, <2>1, <2>2, <2>3 DEF VersionsInv
  <2>4. ASSUME NEW p \in committed', NEW q \in committed', p # q,
               Changes(ops[p].expected), Changes(ops[q].expected)
        PROVE  version(p) # version(q)
    BY <1>1, <2>1, <2>4 DEF VersionsInv, Changed
  <2> QED BY <2>1, <2>3, <2>4 DEF VersionsInv, Changed, Changes
<1> QED BY <1>3, <1>4, CommitsAreRight

(* A client writes again only when nothing is under way of a write whose   *)
(* result it does not know, also after the answers that do not block it:   *)
(* a malformed success of the host, and a failure the host reports.  And   *)
(* of the commits from one baseline no second one changes the action, who- *)
(* ever repeats it (block and capture in the document client, Apply).      *)
THEOREM UnconfirmedIsNeverRepeated == Spec => []UnconfirmedIsNotRepeated
<1>1. Init => VersionsInv
  BY DEF Init, VersionsInv, Changed
<1>2. IInv /\ ResultInv /\ VersionsInv /\ [Next]_vars => VersionsInv'
  BY VersionsNext
<1>3. IInv /\ ResultInv /\ VersionsInv => UnconfirmedIsNotRepeated
  <2> SUFFICES ASSUME IInv, ResultInv, VersionsInv, NEW o \in OpIds, NEW p \in OpIds,
                      o # p, ops[o].code \in Unconfirmed
               PROVE  /\ o < p /\ ops[o].client = ops[p].client => ~UnderWay(o)
                      /\ o \in Changed /\ p \in Changed =>
                           ops[o].expected.base.version # ops[p].expected.base.version
    BY DEF UnconfirmedIsNotRepeated
  <2>1. ASSUME o < p, ops[o].client = ops[p].client PROVE ~UnderWay(o)
    <3>1. ops[o].code \in {"ACK", "HOST_UNKNOWN", "HOST_PERSISTED"}
      BY <2>1 DEF IInv, NothingAfterDoubt, Doubtful, Unconfirmed
    <3>2. \A h \in Slots : work[h].op # o
      BY <3>1, AnsweredIsServed
    <3>3. \A r \in pipe : r.op # o
      BY <3>1 DEF ResultInv, ToldTruly, Behind
    <3> QED BY <3>2, <3>3 DEF UnderWay
  <2> QED BY <2>1 DEF VersionsInv
<1> QED BY <1>1, <1>2, <1>3, BundleInvariant, ResultsAreTrue, PTL DEF Spec

Written(o) == o \in moved \cup committed

\* What is told of an operation is what was written.
Agrees(o) ==
  /\ ResultOf(o) \in WriteContract!Results
  /\ ResultOf(o) = "applied" => Written(o)
  /\ ResultOf(o) = "not_applied" => ~Written(o)
  /\ o \notin OpIds => ResultOf(o) = "none" /\ ~Written(o)

AllAgree == \A o \in 1 .. MaxOps : Agrees(o)

LEMMA ResultsAgree == IInv /\ ResultInv => AllAgree
<1> SUFFICES ASSUME IInv, ResultInv, NEW o \in 1 .. MaxOps PROVE Agrees(o)
  BY DEF AllAgree
<1>1. moved \subseteq OpIds /\ committed \subseteq OpIds /\ Len(ops) \in Nat /\ o \in Nat /\ o >= 1
  BY Types, DocumentAssumption DEF IInv, Typed
<1>2. o \notin OpIds <=> o > Len(ops)
  BY <1>1 DEF OpIds
<1>3. ASSUME o \in OpIds, ops[o].code \in Refusals PROVE ~Written(o)
  BY <1>3 DEF IInv, CodesAreTrue, Written
<1>4. ASSUME o \in OpIds, ops[o].code \in Confirmations, IsWrite(o) PROVE Written(o)
  BY <1>4 DEF IInv, CodesAreTrue, ResultInv, CodesInv, ToldTruly, Behind, Confirmations, IsWrite, Written
<1>5. ASSUME o \in OpIds, ~IsWrite(o) PROVE ~Written(o)
  BY <1>5 DEF IInv, LandedInv, ResultInv, IsWrite, Written
<1>6. ResultOf(o) \in WriteContract!Results
  BY DEF ResultOf, WriteContract!Results
<1>7. ResultOf(o) = "applied" => Written(o)
  BY <1>2, <1>4 DEF ResultOf
<1>8. ResultOf(o) = "not_applied" => ~Written(o)
  BY <1>2, <1>3, <1>5 DEF ResultOf
<1> QED BY <1>1, <1>2, <1>6, <1>7, <1>8 DEF Agrees, ResultOf, Written

(* What was told stays, or is forgotten for good: the answer of a refused   *)
(* or confirmed operation is lost when nothing of it is under way.          *)
LEMMA LossIsFinal ==
  ASSUME IInv, ResultInv, AllAgree, [Next]_vars, NEW o \in OpIds
  PROVE  ResultOf(o)' \in {ResultOf(o), "forgotten"} \/ ResultOf(o) = "none"
<1> SUFFICES ASSUME ops[o].code # "none" PROVE ResultOf(o)' \in {ResultOf(o), "forgotten"}
  BY DEF ResultOf
<1>1. /\ Len(ops) \in Nat /\ o \in Nat /\ o <= Len(ops) /\ o <= Len(ops')
      /\ (IsWrite(o)' <=> IsWrite(o)) /\ ops'[o].code \in {ops[o].code, "UNKNOWN"}
  BY OperationsLast, Types DEF IInv, Typed, OutcomesLast, OpIds
<1>2. "UNKNOWN" \notin Refusals \cup Confirmations /\ "UNKNOWN" # "none" /\ "none" \notin Refusals
  BY DEF Refusals, Confirmations
<1>3. UnderWay(o)' => UnderWay(o)
  BY OverStaysOver
<1>4. CASE ops[o].code \notin Refusals \cup Confirmations
  <2>1. ops'[o].code \notin Refusals \cup Confirmations /\ ops'[o].code # "none"
    BY <1>1, <1>2, <1>4
  <2> QED BY <1>1, <1>3, <1>4, <2>1 DEF ResultOf
<1>5. CASE ops[o].code \in Refusals \cup Confirmations /\ ops'[o].code = ops[o].code
  BY <1>1, <1>5 DEF ResultOf
<1>6. CASE ops[o].code \in Refusals \cup Confirmations /\ ops'[o].code = "UNKNOWN"
  <2>1. \A r \in pipe : r.op # o
    <3> SUFFICES ASSUME NEW r \in pipe, r.op = o PROVE FALSE
      OBVIOUS
    <3>1. ops[o].kind = "sync" /\ o \notin committed /\ o \in Landed
      BY DEF IInv, LandedInv, ResultInv, Landed
    <3>2. ops[o].code \in Confirmations
      BY <1>6, <3>1 DEF IInv, CodesInv
    <3>3. IsWrite(o) /\ ops[o].code # "PARTIAL"
      BY <3>1 DEF IsWrite, IInv, CodesInv
    <3>4. o \in committed
      BY <3>1, <3>2, <3>3 DEF IInv, CodesAreTrue, ResultInv, ToldTruly, Behind, Confirmations
    <3> QED BY <3>1, <3>4
  <2>2. ~UnderWay(o)'
    BY <1>2, <1>3, <1>6, <2>1, OverStaysOver
  <2> QED BY <1>1, <1>2, <1>6, <2>2 DEF ResultOf
<1> QED BY <1>1, <1>4, <1>5, <1>6

(* Nothing lands of what is forgotten: a source is moved for the operation  *)
(* of a request, and a body committed for that or for one of the pipe.      *)
LEMMA ForgottenIsOver ==
  ASSUME IInv, [Next]_vars, NEW o, ~Written(o), Written(o)'
  PROVE  UnderWay(o)
<1>1. ASSUME NEW h \in Slots, o = work[h].op PROVE UnderWay(o)
  BY <1>1 DEF UnderWay
<1>2. CASE UNCHANGED <<moved, committed>>
  BY <1>2 DEF Written
<1>3. ASSUME NEW h \in Slots,
             \/ Captures(h) \/ Compares(h) \/ Moves(h) \/ Confirms(h) \/ SaveFails(h) \/ Commits(h)
             \/ HostUnavailable(h) \/ HostAnswers(h) \/ HostFails(h) \/ Forgets(h) \/ Checkpoint(h)
             \/ Identifies(h) \/ CheckpointFails(h)
      PROVE  UnderWay(o)
  <2>1. CASE Moves(h)
    BY <1>1, <2>1 DEF Moves, Written, hostVars
  <2>2. CASE HostAnswers(h) \/ HostFails(h)
    BY <1>1, <2>2 DEF HostAnswers, HostFails, Written
  <2>3. CASE Captures(h) \/ Compares(h) \/ Confirms(h) \/ SaveFails(h) \/ Commits(h)
    <3>1. UNCHANGED <<moved, committed>>
      BY <2>3 DEF Captures, Compares, Confirms, SaveFails, Commits, hostVars
    <3> QED BY <1>2, <3>1
  <2>4. CASE HostUnavailable(h) \/ Forgets(h) \/ Checkpoint(h) \/ Identifies(h) \/ CheckpointFails(h)
    <3>1. UNCHANGED <<moved, committed>>
      BY <2>4 DEF HostUnavailable, Forgets, Checkpoint, Identifies, CheckpointFails, hostVars
    <3> QED BY <1>2, <3>1
  <2> QED BY <1>3, <2>1, <2>2, <2>3, <2>4
<1>4. CASE HostIsLate
  BY <1>4 DEF HostIsLate, Written, UnderWay
<1>5. CASE \/ Begins \/ Returns \/ release \/ Aborts \/ ServeDies \/ EditsWorkingFile \/ EditsNative
           \/ UNCHANGED vars
  <2>1. UNCHANGED <<moved, committed>>
    BY <1>5 DEF Begins, Returns, release, Aborts, ServeDies, EditsWorkingFile, EditsNative, vars, hostVars
  <2> QED BY <1>2, <2>1
<1>6. ASSUME NEW c \in Clients,
             \/ connect(c) \/ sync(c) \/ receive(c) \/ close(c) \/ ConnectionBreaks(c) \/ AnswerIsLost(c)
             \/ \E t \in Texts : save(c, t)
      PROVE  UnderWay(o)
  <2>1. UNCHANGED <<moved, committed>>
    BY <1>6 DEF connect, sync, receive, close, ConnectionBreaks, AnswerIsLost, save, hostVars
  <2> QED BY <1>2, <2>1
<1> QED BY <1>3, <1>4, <1>5, <1>6 DEF Next

(* Saves and syncs keep the contract of writes, for any number of clients,  *)
(* requests, edits and faults: also an answer that reports a failure behind *)
(* the write tells the truth about it, and nothing lands after its client   *)
(* was told how it ended (editSourceBundleDocument, syncSourceBundle-       *)
(* Document, Document, SavePreparedAsync).                                  *)
THEOREM SavesKeepTheContract == Spec => ImplementsWriteResults
<1>1. Init => WriteContract!ContractInit
  BY DEF Init, ResultOf, WriteContract!ContractInit
<1>2. IInv /\ ResultInv /\ AllAgree /\ AllAgree' /\ [Next]_vars
        => [WriteContract!ContractNext]_(WriteContract!resultVars)
  <2> SUFFICES ASSUME IInv, ResultInv, AllAgree, AllAgree', [Next]_vars PROVE WriteContract!ContractNext
    OBVIOUS
  <2> DEFINE effect(o) == IF o \in moved \cup committed THEN 1 ELSE 0
             effectNext(o) == IF o \in moved' \cup committed' THEN 1 ELSE 0
  <2>1. ASSUME NEW o \in 1 .. MaxOps
        PROVE  /\ effectNext(o) \in {0, 1} /\ ResultOf(o)' \in WriteContract!Results
               /\ \/ effectNext(o) = effect(o)
                  \/ effect(o) = 0 /\ ResultOf(o) \in {"none", "unknown"} /\ effectNext(o) = 1
               /\ \/ ResultOf(o)' = ResultOf(o)
                  \/ ResultOf(o) = "none" /\ ResultOf(o)' = IF effectNext(o) = 1 THEN "applied" ELSE "not_applied"
                  \/ ResultOf(o) = "none" /\ ResultOf(o)' = "unknown"
                  \/ ResultOf(o)' = "forgotten"
    <3>1. Agrees(o) /\ Agrees(o)'
      BY DEF AllAgree
    <3>2. /\ LandedStays /\ (UNCHANGED ops \/ UNCHANGED <<moved, committed>>)
          /\ OutcomesLast /\ \A p \in OpIds' \ OpIds : ops'[p].code = "none"
      BY OperationsLast
    <3>3. Written(o) => Written(o)'
      BY <3>2 DEF LandedStays, Written
    <3>4. UNCHANGED ops => ResultOf(o)' = ResultOf(o) \/ ResultOf(o) \in {"unknown", "forgotten"}
      BY DEF ResultOf, IsWrite
    <3>5. \/ effectNext(o) = effect(o)
          \/ effect(o) = 0 /\ ResultOf(o) \in {"none", "unknown"} /\ effectNext(o) = 1
      <4>1. ~Written(o) /\ Written(o)' => UnderWay(o)
        BY ForgottenIsOver
      <4>2. ResultOf(o) = "forgotten" => ~UnderWay(o)
        BY DEF ResultOf
      <4> QED BY <3>1, <3>2, <3>3, <3>4, <4>1, <4>2 DEF Agrees, Written, WriteContract!Results
    <3>6. ResultOf(o)' \in {ResultOf(o), "forgotten"} \/ ResultOf(o) = "none"
      <4>1. CASE o \in OpIds
        BY <3>1, <3>2, <4>1, LossIsFinal DEF Agrees
      <4>2. CASE o \notin OpIds
        BY <3>1, <4>2 DEF Agrees
      <4> QED BY <4>1, <4>2
    <3>7. ResultOf(o)' \in {"none", "unknown", "forgotten"}
            \/ ResultOf(o)' = IF effectNext(o) = 1 THEN "applied" ELSE "not_applied"
      BY <3>1 DEF Agrees, Written, WriteContract!Results
    <3>8. effectNext(o) \in {0, 1} /\ ResultOf(o)' \in WriteContract!Results
      BY <3>1 DEF Agrees
    <3> QED BY <3>5, <3>6, <3>7, <3>8
  <2> QED BY <2>1 DEF WriteContract!ContractNext, WriteContract!CarriedOut, WriteContract!Told,
             WriteContract!GivenUp, WriteContract!Forgotten
<1> QED BY <1>1, <1>2, BundleInvariant, ResultsAreTrue, ResultsAgree, PTL
        DEF Spec, ImplementsWriteResults, WriteContract!ContractSpec

\* Every write lands at most once: the source file is moved, and the body handed to
\* the native action, for an operation that has done neither before.
LandsOnce ==
  [][/\ \A h \in Slots : Moves(h) => ~Written(work[h].op)
     /\ \A h \in Slots : HostAnswers(h) \/ HostFails(h) => ~Written(work[h].op)
     /\ \A r \in pipe : r \notin pipe' => ~Written(r.op)]_vars

(* No request and no late commit repeats what was done, whatever was given  *)
(* up, lost or answered in between (Document, SavePreparedAsync).           *)
THEOREM EveryWriteLandsOnce == Spec => LandsOnce
<1>1. IInv /\ ResultInv /\ [Next]_vars =>
        [/\ \A h \in Slots : Moves(h) => ~Written(work[h].op)
         /\ \A h \in Slots : HostAnswers(h) \/ HostFails(h) => ~Written(work[h].op)
         /\ \A r \in pipe : r \notin pipe' => ~Written(r.op)]_vars
  <2> SUFFICES ASSUME IInv, ResultInv
               PROVE  /\ \A h \in Slots : work[h].pc \in {"move", "sent"} => ~Written(work[h].op)
                      /\ \A r \in pipe : ~Written(r.op)
    BY DEF Moves, HostAnswers, HostFails
  <2>1. ASSUME NEW h \in Slots, work[h].pc \in {"move", "sent"} PROVE ~Written(work[h].op)
    BY <2>1, NotYet DEF IInv, SlotInv, Landed, Written
  <2>2. ASSUME NEW r \in pipe PROVE ~Written(r.op)
    BY DEF IInv, LandedInv, ResultInv, Written
  <2> QED BY <2>1, <2>2
<1> QED BY <1>1, BundleInvariant, ResultsAreTrue, PTL DEF Spec, LandsOnce

===============================================================================
