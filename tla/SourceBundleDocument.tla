------------------------ MODULE SourceBundleDocument ------------------------
(***************************************************************************)
(* One source bundle (program.source.yaml, files/, quicker.source.json and  *)
(* .qkrpc/baseline.json) from the designer to the disk and to the native    *)
(* action: the document client of a designer (source-bundle-document-       *)
(* client.ts), the Node operations behind it, one at a time in the owner's  *)
(* chain (source-bundle-document.server.ts), the serve process that reads,  *)
(* writes and commits (ActionSourceDocument.cs, ActionSourceWorkspace.cs,   *)
(* ActionSourceServeOps.cs) and the plugin of the host that holds the       *)
(* action (ActionProgramSourceService.cs, V2ActionProgramSourceService.cs). *)
(* A request that its caller gave up leaves the chain; the serve process    *)
(* goes on with it.                                                         *)
(***************************************************************************)
EXTENDS Integers, FiniteSets, Sequences

CONSTANTS
  Clients,      \* document clients, each of which connects once
  NoClient,
  Texts,        \* values of a working file; Original is on disk at the start
  Original,
  KeepsUnchanged, \* whether the host leaves an action alone whose body a save does not change
  MaxOps,       \* bound on the operations that are dispatched
  MaxHandlers,  \* bound on the requests the serve process has at a time
  MaxEdits,     \* bound on edits by programs outside the product, of disk and native action
  MaxFaults     \* bound on aborts, losses, failures and deaths of the serve process

ASSUME DocumentAssumption ==
  /\ NoClient \notin Clients /\ Original \in Texts /\ KeepsUnchanged \in BOOLEAN
  /\ {MaxOps, MaxHandlers} \subseteq Nat \ {0} /\ {MaxEdits, MaxFaults} \subseteq Nat

VARIABLES
  disk,       \* the bundle
  native,     \* the bodies the native action has had: its edit version is the length
  pipe,       \* commits that reached the host's pipe and nobody waits for
  lease,      \* the client whose document owns the bundle in the Node process
  client,     \* the document clients
  chain,      \* the owner's chain of operations; the first one runs
  work,       \* the requests in the serve process
  ops,        \* the operations dispatched so far: whose, what they asked, their answer
  moved,      \* the operations that replaced the source file
  committed,  \* the operations whose commit the host carried out
  edits, faults

vars == <<disk, native, pipe, lease, client, chain, work, ops, moved, committed, edits, faults>>
nodeVars == <<lease, chain, ops>>
hostVars == <<native, pipe, committed>>
counts == <<edits, faults>>

Slots == 1 .. MaxHandlers
OpIds == 1 .. Len(ops)
Bodies == Texts \X Texts
Body(d) == <<d.source, d.file>>
Managed(d) == <<d.id, d.base>>
Changes(d) == ~KeepsUnchanged \/ Body(d) # d.base.body
NextVersion(d) == IF Changes(d) THEN d.base.version + 1 ELSE d.base.version
Torn(d) == d.id # d.base.version

Snapshots == [source : Texts, file : Texts, id : Nat, base : [version : Nat, body : Bodies]]
FirstSnapshot == [source |-> Original, file |-> Original, id |-> 1,
                  base |-> [version |-> 1, body |-> <<Original, Original>>]]

\* Answers.  CHECKPOINT: the host saved, the checkpoint did not follow; READBACK:
\* both did, the bundle could not be read again; ACK: the host's success is malformed.
\* The host reports a failure of its own with what it persisted: nothing (HOST), the
\* new body (HOST_PERSISTED), or it does not know (HOST_UNKNOWN).
Refusals == {"BUSY", "CONFLICT", "FAILED", "STALE", "OPEN", "HOST"}
Unconfirmed == {"UNKNOWN", "PARTIAL", "CHECKPOINT", "READBACK", "ACK", "HOST_UNKNOWN", "HOST_PERSISTED"}
Codes == Refusals \cup Unconfirmed \cup {"ok", "TIMEOUT", "LOST"}
NoReply == [code |-> "none", doc |-> FirstSnapshot]
Reply(code) == [code |-> code, doc |-> FirstSnapshot]
Receipt(doc) == [code |-> "ok", doc |-> doc]
Replies == [code : Codes \cup {"none"}, doc : Snapshots]

Idle == [op |-> 0, kind |-> "none", pc |-> "free", cap |-> FirstSnapshot, raced |-> FALSE, reply |-> NoReply]

TypeOK ==
  /\ disk \in Snapshots /\ native \in Seq(Bodies)
  /\ pipe \in SUBSET [op : OpIds, version : Nat, body : Bodies]
  /\ lease \in Clients \cup {NoClient}
  /\ client \in [Clients -> [st : {"new", "opening", "open", "closed"}, owns : BOOLEAN, blocked : BOOLEAN,
                             doc : Snapshots, op : 0 .. MaxOps, reply : Replies]]
  /\ chain \in Seq([op : OpIds, h : Slots \cup {0}, step :
                  {"queued", "inspect", "write", "validate", "commit", "readback"}])
  /\ ops \in Seq([client : Clients, kind : {"open", "save", "sync"}, expected : Snapshots, text : Texts,
                  code : Codes \cup {"none"}])
  /\ work \in [Slots -> [op : 0 .. MaxOps, kind : {"none", "inspect", "save", "validate", "commit"},
       pc : {"free", "start", "compare", "move", "after", "managed", "sent", "acked", "identity", "done"},
       cap : Snapshots, raced : BOOLEAN, reply : Replies]]
  /\ moved \subseteq OpIds /\ committed \subseteq OpIds
  /\ edits \in 0 .. MaxEdits /\ faults \in 0 .. MaxFaults

Init ==
  /\ disk = FirstSnapshot /\ native = <<Body(disk)>> /\ pipe = {}
  /\ lease = NoClient /\ chain = <<>> /\ ops = <<>>
  /\ client = [c \in Clients |-> [st |-> "new", owns |-> FALSE, blocked |-> TRUE, doc |-> FirstSnapshot,
                                  op |-> 0, reply |-> NoReply]]
  /\ work = [h \in Slots |-> Idle]
  /\ moved = {} /\ committed = {} /\ edits = 0 /\ faults = 0

Fault == faults < MaxFaults /\ faults' = faults + 1
Edit == edits < MaxEdits /\ edits' = edits + 1

---------------------------------------------------------------------------
(* The document client. *)

Dispatch(c, kind, text) ==
  /\ Len(ops) < MaxOps
  /\ ops' = Append(ops, [client |-> c, kind |-> kind, expected |-> client[c].doc, text |-> text, code |-> "none"])
  /\ chain' = Append(chain, [op |-> Len(ops) + 1, h |-> 0, step |-> "queued"])

connect(c) ==
  /\ client[c].st = "new" /\ Dispatch(c, "open", Original)
  /\ client' = [client EXCEPT ![c].st = "opening", ![c].op = Len(ops) + 1]
  /\ UNCHANGED <<disk, hostVars, lease, work, moved, counts>>

\* capture: what a save or a sync needs before it is dispatched.
capture(c) == client[c].st = "open" /\ client[c].owns /\ ~client[c].blocked /\ client[c].op = 0

save(c, text) ==
  /\ capture(c) /\ Dispatch(c, "save", text)
  /\ client' = [client EXCEPT ![c].op = Len(ops) + 1]
  /\ UNCHANGED <<disk, hostVars, lease, work, moved, counts>>

sync(c) ==
  /\ capture(c) /\ Dispatch(c, "sync", client[c].doc.source)
  /\ client' = [client EXCEPT ![c].op = Len(ops) + 1]
  /\ UNCHANGED <<disk, hostVars, lease, work, moved, counts>>

\* The codes after which the client refuses to save and to sync.
BlocksNothing(kind, code) == kind = "open"
Blocks(kind, code) ==
  \/ kind = "save" /\ code \in {"UNKNOWN", "PARTIAL", "CONFLICT", "STALE"}
  \/ kind = "sync" /\ code \in {"UNKNOWN", "CHECKPOINT", "READBACK", "CONFLICT"}

\* An answer arrives.  A save that is confirmed carries its own text; a sync that
\* finds other working files than it left blocks the draft.
receive(c) ==
  LET r == client[c].reply
      kind == ops[client[c].op].kind
      free == [client[c] EXCEPT !.op = 0, !.reply = NoReply]
  IN /\ r.code # "none"
     /\ client' = [client EXCEPT ![c] =
          CASE client[c].st = "closed" -> free
            [] kind = "open" /\ r.code = "ok" -> [free EXCEPT !.st = "open", !.owns = TRUE, !.blocked = FALSE, !.doc = r.doc]
            [] kind = "open" /\ r.code # "ok" -> [free EXCEPT !.st = "closed"]
            [] kind # "open" /\ ~client[c].owns -> free
            [] kind # "open" /\ client[c].owns /\ r.code = "ok" ->
                 [free EXCEPT !.doc = r.doc, !.blocked = kind = "sync" /\ Body(client[c].doc) # Body(r.doc)]
            [] OTHER -> [free EXCEPT !.blocked = @ \/ Blocks(kind, r.code)]]
     /\ UNCHANGED <<disk, hostVars, nodeVars, work, moved, counts>>

close(c) ==
  /\ client[c].st \in {"opening", "open"}
  /\ client' = [client EXCEPT ![c].st = "closed", ![c].owns = FALSE, ![c].blocked = TRUE]
  /\ UNCHANGED <<disk, hostVars, nodeVars, work, moved, counts>>

\* The stream of the owner breaks: the client sees its end, the server cancels it.
ConnectionBreaks(c) ==
  /\ client[c].st = "open" /\ client[c].owns /\ Fault
  /\ client' = [client EXCEPT ![c].owns = FALSE, ![c].blocked = TRUE]
  /\ UNCHANGED <<disk, hostVars, nodeVars, work, moved, edits>>

---------------------------------------------------------------------------
(* The owner's chain in the Node process. *)

Running == Head(chain)
Op == ops[Running.op]

Call(kind, step) ==
  \E h \in Slots :
    /\ work[h].pc = "free" /\ \A g \in 1 .. h - 1 : work[g].pc # "free"
    /\ work' = [work EXCEPT ![h] = [Idle EXCEPT !.op = Running.op, !.kind = kind, !.pc = "start"]]
    /\ chain' = <<[Running EXCEPT !.h = h, !.step = step]>> \o Tail(chain)

\* A lost or timed-out write may have been carried out; a lost read was not one.
LostIsFailure(kind, code) == IF code \in {"LOST", "TIMEOUT"} THEN "FAILED" ELSE code
Meaning(kind, code) == IF code \notin {"LOST", "TIMEOUT"} THEN code
                       ELSE IF kind \in {"save", "commit"} THEN "UNKNOWN" ELSE "FAILED"

Finish(reply) ==
  /\ chain' = Tail(chain)
  /\ ops' = [ops EXCEPT ![Running.op].code = reply.code]
  /\ client' = [client EXCEPT ![Op.client].reply = reply]

\* The lease of the document is claimed, or found, before the bundle is inspected.
Begins ==
  /\ chain # <<>> /\ Running.step = "queued"
  /\ \/ /\ IF Op.kind = "open" THEN lease = NoClient ELSE lease = Op.client
        /\ Call("inspect", "inspect") /\ lease' = Op.client
        /\ UNCHANGED <<client, ops>>
     \/ /\ Op.kind = "open" /\ lease # NoClient
        /\ Finish(Reply("OPEN")) /\ UNCHANGED <<lease, work>>
     \/ /\ Op.kind # "open" /\ lease # Op.client
        /\ Finish(Reply("STALE")) /\ UNCHANGED <<lease, work>>
  /\ UNCHANGED <<disk, hostVars, moved, counts>>

\* The serve process answered: the next request of the operation, or its end.
Returns ==
  LET h == Running.h
      r == [work[h].reply EXCEPT !.code = Meaning(work[h].kind, @)]
      freed == [work EXCEPT ![h] = Idle]
      Next1(kind, step) == /\ work' = [work EXCEPT ![h] = [Idle EXCEPT !.op = Running.op, !.kind = kind, !.pc = "start"]]
                           /\ chain' = <<[Running EXCEPT !.step = step]>> \o Tail(chain)
                           /\ UNCHANGED <<client, ops, lease>>
      Ends(reply) == Finish(reply) /\ work' = freed /\ UNCHANGED lease
  IN /\ chain # <<>> /\ Running.h # 0 /\ work[h].pc = "done"
     /\ \/ /\ Op.kind = "open"
           /\ Finish(r) /\ work' = freed
           /\ lease' = IF r.code = "ok" THEN lease ELSE NoClient
        \/ /\ Op.kind # "open" /\ r.code # "ok" /\ Running.step # "readback" /\ Ends(r)
        \/ /\ Running.step = "readback" /\ r.code # "ok" /\ Ends(Reply("READBACK"))
        \/ /\ Op.kind # "open" /\ Running.step = "inspect" /\ r.code = "ok"
           /\ \/ r.doc # Op.expected /\ Ends(Reply("CONFLICT"))
              \/ r.doc = Op.expected /\ lease # Op.client /\ Ends(Reply("STALE"))
              \/ /\ r.doc = Op.expected /\ lease = Op.client
                 /\ IF Op.kind = "save" THEN Next1("save", "write") ELSE Next1("validate", "validate")
        \/ /\ Running.step = "write" /\ r.code = "ok"
           /\ Ends(IF Managed(r.doc) = Managed(Op.expected) THEN r ELSE Reply("UNKNOWN"))
        \/ /\ Running.step = "validate" /\ r.code = "ok"
           /\ \/ lease # Op.client /\ Ends(Reply("STALE"))
              \/ lease = Op.client /\ Next1("commit", "commit")
        \/ /\ Running.step = "commit" /\ r.code = "ok" /\ Next1("inspect", "readback")
        \* The receipt's version and body are those of the checkpoint that is read back.
        \/ /\ Running.step = "readback" /\ r.code = "ok"
           /\ Ends(IF r.doc.base.body = Body(Op.expected) /\ r.doc.base.version = NextVersion(Op.expected)
                   THEN r ELSE Reply("READBACK"))
     /\ UNCHANGED <<disk, hostVars, moved, counts>>

\* The caller is gone: the operation leaves the chain, what the serve process
\* has of it goes on.  A client that is still there has no valid answer.
TakesTheRestAlong(i) == SubSeq(chain, 1, i - 1)
Leave(i) == SubSeq(chain, 1, i - 1) \o SubSeq(chain, i + 1, Len(chain))
Aborts ==
  \E i \in DOMAIN chain :
    LET o == chain[i].op IN
    /\ Fault
    /\ chain' = Leave(i)
    /\ ops' = [ops EXCEPT ![o].code = "UNKNOWN"]
    /\ client' = [client EXCEPT ![ops[o].client].reply = Reply("UNKNOWN")]
    /\ work' = IF chain[i].h # 0 /\ work[chain[i].h].pc = "done" THEN [work EXCEPT ![chain[i].h] = Idle] ELSE work
    /\ lease' = IF ops[o].kind = "open" /\ chain[i].h # 0 THEN NoClient ELSE lease
    /\ UNCHANGED <<disk, hostVars, moved, edits>>

\* The answer of an operation is lost between Node and the browser.
AnswerIsLost(c) ==
  /\ client[c].reply.code \notin {"none", "UNKNOWN"} /\ ops[client[c].op].kind # "open" /\ Fault
  /\ client' = [client EXCEPT ![c].reply = Reply("UNKNOWN")]
  /\ ops' = [ops EXCEPT ![client[c].op].code = "UNKNOWN"]
  /\ UNCHANGED <<disk, hostVars, lease, chain, work, moved, edits>>

\* release: the response of the owner has ended.
release ==
  /\ lease # NoClient /\ ~client[lease].owns /\ client[lease].st # "opening"
  /\ \A i \in DOMAIN chain : ops[chain[i].op].client = lease => ops[chain[i].op].kind # "open"
  /\ lease' = NoClient
  /\ UNCHANGED <<disk, hostVars, client, chain, ops, work, moved, counts>>

---------------------------------------------------------------------------
(* The serve process. *)

\* Whoever writes in the bundle holds its lease file from the capture on.
Holds(h) == work[h].pc \in {"compare", "move", "after", "identity"}
Busy(h) == \E g \in Slots \ {h} : Holds(g)

\* The request is answered; nobody reads the answer of one that was given up.
Answered(h, reply) ==
  IF \E i \in DOMAIN chain : chain[i].h = h
    THEN [work EXCEPT ![h] = [Idle EXCEPT !.op = work[h].op, !.kind = work[h].kind, !.pc = "done", !.reply = reply]]
    ELSE [work EXCEPT ![h] = Idle]
Answers(h, reply) == work' = Answered(h, reply)
Goes(h, pc) == work' = [work EXCEPT ![h].pc = pc]

AnySnapshot(h) == h \in Slots
RequireExpected(h) == disk = ops[work[h].op].expected

\* Claim, capture and check.  An inspect or a validation is over with that; a
\* local save keeps the lease, a commit keeps what it captured.
Captures(h) ==
  /\ work[h].pc = "start"
  /\ \/ Busy(h) /\ Answers(h, Reply("BUSY"))
     \/ ~Busy(h) /\ work[h].kind # "inspect" /\ ~RequireExpected(h) /\ Answers(h, Reply("CONFLICT"))
     \/ ~Busy(h) /\ Torn(disk) /\ (work[h].kind = "inspect" \/ RequireExpected(h)) /\ Answers(h, Reply("FAILED"))
     \/ ~Busy(h) /\ ~Torn(disk) /\ work[h].kind = "inspect" /\ Answers(h, Receipt(disk))
     \/ ~Busy(h) /\ ~Torn(disk) /\ work[h].kind = "validate" /\ RequireExpected(h) /\ Answers(h, Receipt(disk))
     \/ /\ ~Busy(h) /\ ~Torn(disk) /\ work[h].kind \in {"save", "commit"} /\ RequireExpected(h)
        /\ work' = [work EXCEPT ![h].cap = disk, ![h].pc = IF work[h].kind = "save" THEN "compare" ELSE "managed"]
  /\ UNCHANGED <<disk, hostVars, nodeVars, client, moved, counts>>

\* The last look before the rename: the captured bundle, and the bytes to replace.
Compares(h) ==
  /\ work[h].pc = "compare"
  /\ \/ disk # work[h].cap /\ Answers(h, Reply("CONFLICT"))
     \/ disk = work[h].cap /\ Goes(h, IF ops[work[h].op].text = disk.source THEN "after" ELSE "move")
  /\ UNCHANGED <<disk, hostVars, nodeVars, client, moved, counts>>

Moves(h) ==
  /\ work[h].pc = "move"
  /\ disk' = [disk EXCEPT !.source = ops[work[h].op].text]
  /\ moved' = moved \cup {work[h].op}
  /\ Goes(h, "after")
  /\ UNCHANGED <<hostVars, nodeVars, client, counts>>

\* The save is confirmed when the bundle is the captured one with the new source.
Confirms(h) ==
  /\ work[h].pc = "after"
  /\ Answers(h, IF disk = [work[h].cap EXCEPT !.source = ops[work[h].op].text] THEN Receipt(disk)
                ELSE IF work[h].op \in moved THEN Reply("PARTIAL") ELSE Reply("CONFLICT"))
  /\ UNCHANGED <<disk, hostVars, nodeVars, client, moved, counts>>

\* I/O fails or the deadline passes.
SaveFails(h) ==
  /\ work[h].kind = "save" /\ work[h].pc \in {"compare", "move", "after"} /\ Fault
  /\ \E code \in {"FAILED", "TIMEOUT"} :
       Answers(h, Reply(IF work[h].op \in moved THEN "PARTIAL" ELSE code))
  /\ UNCHANGED <<disk, hostVars, nodeVars, client, moved, edits>>

\* The commit goes to the host when the managed files are the captured ones.
Commits(h) ==
  /\ work[h].pc = "managed"
  /\ \/ Busy(h) /\ Answers(h, Reply("BUSY"))
     \/ ~Busy(h) /\ Managed(disk) # Managed(work[h].cap) /\ Answers(h, Reply("CONFLICT"))
     \/ ~Busy(h) /\ Managed(disk) = Managed(work[h].cap) /\ Goes(h, "sent")
  /\ UNCHANGED <<disk, hostVars, nodeVars, client, moved, counts>>

HostUnavailable(h) ==
  /\ work[h].pc = "managed" /\ Fault
  /\ Answers(h, Reply("FAILED"))
  /\ UNCHANGED <<disk, hostVars, nodeVars, client, moved, edits>>

Request(h) == [op |-> work[h].op, version |-> work[h].cap.base.version, body |-> Body(work[h].cap)]

\* The host replaces the body when its edit version is the one the request names.
\* The first host saves an unchanged body again, the second one leaves it alone.
Saved(r) == IF KeepsUnchanged /\ r.body = native[Len(native)] THEN native ELSE Append(native, r.body)
HostAnswers(h) ==
  /\ work[h].pc = "sent"
  /\ \/ /\ Request(h).version = Len(native)
        /\ native' = Saved(Request(h)) /\ committed' = committed \cup {work[h].op}
        /\ Goes(h, "acked")
     \/ /\ Request(h).version # Len(native)
        /\ Answers(h, Reply("HOST")) /\ UNCHANGED <<native, committed>>
  /\ UNCHANGED <<disk, pipe, nodeVars, client, moved, counts>>

\* What the host reports when it fails before, in or after the native save: an
\* open designer or a failing preparation has written nothing, a save that throws
\* may have, and a notification or a readback fails after it.
HostReports(saved) == IF saved THEN {"HOST_UNKNOWN", "HOST_PERSISTED"} ELSE {"HOST", "HOST_UNKNOWN"}
HostFails(h) ==
  /\ work[h].pc = "sent" /\ Request(h).version = Len(native) /\ Fault
  /\ \/ /\ native' = Saved(Request(h)) /\ committed' = committed \cup {work[h].op}
        /\ \E code \in HostReports(TRUE) : Answers(h, Reply(code))
     \/ /\ UNCHANGED <<native, committed>>
        /\ \E code \in HostReports(FALSE) : Answers(h, Reply(code))
  /\ UNCHANGED <<disk, pipe, nodeVars, client, moved, edits>>

\* The answer of the host does not come, or the host's success is malformed.
Forgets(h) ==
  /\ work[h].pc \in {"sent", "acked"} /\ Fault
  /\ \E code \in {"UNKNOWN", "ACK"} :
       /\ code = "ACK" => work[h].pc = "acked"
       /\ Answers(h, Reply(code))
  /\ pipe' = IF work[h].pc = "sent" THEN pipe \cup {Request(h)} ELSE pipe
  /\ UNCHANGED <<disk, native, committed, nodeVars, client, moved, edits>>

\* A request that was written to the pipe is carried out, or fails, later.
HostIsLate ==
  \E r \in pipe :
    /\ pipe' = pipe \ {r}
    /\ \/ /\ r.version = Len(native)
          /\ native' = Saved(r) /\ committed' = committed \cup {r.op}
       \/ UNCHANGED <<native, committed>>
    /\ UNCHANGED <<disk, nodeVars, client, work, moved, counts>>

CurrentBody(h) == Body(disk)
FrozenBody(h) == Body(work[h].cap)

\* The checkpoint: the baseline first, with the version that the host acknowledged,
\* then the identity that names it.
Checkpoint(h) ==
  /\ work[h].pc = "acked"
  /\ \/ (Busy(h) \/ Managed(disk) # Managed(work[h].cap)) /\ Answers(h, Reply("CHECKPOINT")) /\ UNCHANGED disk
     \/ /\ ~Busy(h) /\ Managed(disk) = Managed(work[h].cap)
        /\ disk' = [disk EXCEPT !.base = [version |-> NextVersion(work[h].cap), body |-> FrozenBody(h)]]
        /\ Goes(h, "identity")
  /\ UNCHANGED <<hostVars, nodeVars, client, moved, counts>>

Identifies(h) ==
  /\ work[h].pc = "identity"
  /\ disk' = [disk EXCEPT !.id = disk.base.version]
  /\ Answers(h, Receipt(disk'))
  /\ UNCHANGED <<hostVars, nodeVars, client, moved, counts>>

CheckpointFails(h) ==
  /\ work[h].pc \in {"acked", "identity"} /\ Fault
  /\ Answers(h, Reply("CHECKPOINT"))
  /\ UNCHANGED <<disk, hostVars, nodeVars, client, moved, edits>>

\* The serve process dies: the lease file goes with it, requests at the host stay.
ServeDies ==
  /\ Fault /\ \E h \in Slots : work[h].pc \notin {"free", "done"}
  /\ LET dead == {h \in Slots : work[h].pc \notin {"free", "done"}}
         waited(h) == \E i \in DOMAIN chain : chain[i].h = h
     IN /\ work' = [h \in Slots |-> IF h \notin dead THEN work[h]
                    ELSE IF waited(h) THEN [Idle EXCEPT !.op = work[h].op, !.kind = work[h].kind, !.pc = "done", !.reply = Reply("LOST")]
                    ELSE Idle]
        /\ pipe' = pipe \cup {Request(h) : h \in {g \in dead : work[g].pc = "sent"}}
  /\ UNCHANGED <<disk, native, committed, nodeVars, client, moved, edits>>

---------------------------------------------------------------------------
(* Programs outside the product edit the working files and the native action. *)

EditsWorkingFile ==
  /\ Edit
  /\ \E t \in Texts : disk' \in {[disk EXCEPT !.source = t], [disk EXCEPT !.file = t]} \ {disk}
  /\ work' = [h \in Slots |-> [work[h] EXCEPT !.raced = @ \/ work[h].pc = "move"]]
  /\ UNCHANGED <<hostVars, nodeVars, client, moved, faults>>

EditsNative ==
  /\ Edit
  /\ \E b \in Bodies : b # native[Len(native)] /\ native' = Append(native, b)
  /\ UNCHANGED <<disk, pipe, committed, nodeVars, client, work, moved, faults>>

Serve(h) == Captures(h) \/ Compares(h) \/ Moves(h) \/ Confirms(h) \/ Commits(h) \/ HostAnswers(h)
            \/ Checkpoint(h) \/ Identifies(h)

Next ==
  \/ \E c \in Clients : connect(c) \/ sync(c) \/ receive(c) \/ close(c) \/ ConnectionBreaks(c) \/ AnswerIsLost(c)
  \/ \E c \in Clients, t \in Texts : save(c, t)
  \/ Begins \/ Returns \/ release \/ Aborts
  \/ \E h \in Slots : Captures(h) \/ Compares(h) \/ Moves(h) \/ Confirms(h) \/ SaveFails(h) \/ Commits(h)
                       \/ HostUnavailable(h) \/ HostAnswers(h) \/ HostFails(h) \/ Forgets(h)
                       \/ Checkpoint(h) \/ Identifies(h) \/ CheckpointFails(h)
  \/ HostIsLate \/ ServeDies \/ EditsWorkingFile \/ EditsNative

\* What the three processes do by themselves.
System ==
  \/ Begins \/ Returns
  \/ \E c \in Clients : receive(c)
  \/ \E h \in Slots : Serve(h)

Spec == Init /\ [][Next]_vars

---------------------------------------------------------------------------
(* Properties. *)

\* A save replaces the source its editor had loaded, and a commit the native body
\* its baseline names, whoever else wrote in the meantime: an older request of a
\* document that was closed, another program, the native editor.  Excepted is an
\* edit that falls between the last comparison and the rename, which the code
\* does not promise to see (Document, SavePreparedAsync).
WritesReplaceWhatTheyRead ==
  [][/\ \A h \in Slots : work[h].pc = "move" /\ work'[h].pc = "after" =>
                          /\ work[h].raced \/ disk.source = ops[work[h].op].expected.source
                          /\ Managed(disk) = Managed(ops[work[h].op].expected)
     /\ \A o \in committed' \ committed :
           /\ native[Len(native)] = ops[o].expected.base.body
           /\ native'[Len(native')] = Body(ops[o].expected)]_vars

\* The baseline on disk is a body the native action had at that version, also when
\* the source changed while the commit was under way and when the checkpoint
\* stopped half-way (Checkpoint).
BaselineWasNative ==
  /\ TypeOK
  /\ disk.base.version \in 1 .. Len(native)
  /\ disk.base.body = native[disk.base.version]

\* An answer that refuses is final: the operation has not written and will not.
\* One that confirms names what was written: the source of a save, the commit of
\* a sync, also when the host failed behind it (editSourceBundleDocument,
\* syncSourceBundleDocument).
AnswersAreTrue ==
  \A o \in OpIds :
    /\ ops[o].code \in Refusals => o \notin moved \cup committed
    /\ ops[o].code = "ok" /\ ops[o].kind = "sync" => o \in committed
    /\ ops[o].code = "HOST_PERSISTED" => o \in committed
    /\ ops[o].code = "ok" /\ ops[o].kind = "save" => o \in moved \/ ops[o].text = ops[o].expected.source

\* What the client of an operation knows of its write.  Opening writes nothing, and
\* neither does a save of the text that was loaded; PARTIAL, CHECKPOINT, READBACK and
\* HOST_PERSISTED say that the source, or the action, was replaced before something
\* else failed.  Of an answer that is lost, or leaves it open, only what still runs
\* is unknown.
IsWrite(o) ==
  \/ ops[o].kind = "sync"
  \/ ops[o].kind = "save" /\ ops[o].text # ops[o].expected.source
Confirmations == {"ok", "PARTIAL", "CHECKPOINT", "READBACK", "HOST_PERSISTED"}
UnderWay(o) == (\E h \in Slots : work[h].op = o) \/ (\E r \in pipe : r.op = o)
ResultOf(o) ==
  IF o > Len(ops) \/ ops[o].code = "none" THEN "none"
  ELSE IF ops[o].code \in Refusals THEN "not_applied"
  ELSE IF ops[o].code \notin Confirmations THEN IF UnderWay(o) THEN "unknown" ELSE "forgotten"
  ELSE IF IsWrite(o) THEN "applied" ELSE "not_applied"

WriteContract == INSTANCE WriteResults WITH
  Writes <- 1 .. MaxOps,
  effects <- [o \in 1 .. MaxOps |-> IF o \in moved \cup committed THEN 1 ELSE 0],
  result <- [o \in 1 .. MaxOps |-> ResultOf(o)]

\* Saves and syncs keep the contract of writes: what a client is told has happened
\* when it is told, also by an answer that reports a failure behind the write, and
\* only a write of unknown result may still be under way (Document, SavePreparedAsync).
ImplementsWriteResults == WriteContract!ContractSpec

\* A write without a confirmed result is not done twice.  Its client writes again
\* only when nothing of it is under way any more: it is blocked after an unknown or
\* a half-finished write, though not after a failure that the host reports, or a
\* success of the host that is malformed (save, sync).  And of the commits from one
\* baseline, by that client or by one that opened the bundle anew, no second one
\* changes the action (Apply).
Changed == {o \in committed : Changes(ops[o].expected)}
UnconfirmedIsNotRepeated ==
  \A o, p \in OpIds :
    o # p /\ ops[o].code \in Unconfirmed =>
      /\ o < p /\ ops[o].client = ops[p].client => ~UnderWay(o)
      /\ o \in Changed /\ p \in Changed => ops[o].expected.base.version # ops[p].expected.base.version

\* Nobody waits for good: while an operation is unanswered, one of the three
\* processes has something to do, although requests that were given up, losses and
\* deaths of the serve process came in between.  Each of their steps takes an
\* operation or a request further, so that its answer comes (serialized, invoke).
NobodyWaitsForGood ==
  (\E c \in Clients : client[c].op # 0) => ENABLED System

=============================================================================
