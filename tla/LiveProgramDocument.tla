-------------------------- MODULE LiveProgramDocument --------------------------
(***************************************************************************)
(* The agent's access to the document that is open in the editor: the      *)
(* registry of live endpoints, pins and scopes                             *)
(* (live-program-document-registry.ts), the endpoint of the mounted editor *)
(* (liveProgramDocumentEndpoint.ts) and the chat turn that executes the    *)
(* agent's tool calls (live-program-document-turn.ts), over a session that *)
(* keeps DocumentContract.                                                 *)
(*                                                                         *)
(* The user pins a step; sending a message turns the pins into the scope   *)
(* of that turn.  In the scope the agent reads the document and edits the  *)
(* pinned steps, each call under an operation id chosen by the caller,     *)
(* which may repeat an id, reuse it with another input, or name any        *)
(* revision and any earlier read.  Meanwhile the user edits, undoes, saves,*)
(* stops the turn, sends the next message, or the editor is remounted.     *)
(*                                                                         *)
(* Everything runs on one renderer thread; a step runs up to an await.     *)
(* Only the read of a step's input schema awaits (the host's catalog), and *)
(* the turn then takes its receipt in a microtask of its own.              *)
(***************************************************************************)
EXTENDS DocumentContract, FiniteSets

CONSTANTS
  Steps,         \* step ids of the program
  Texts,         \* what the notes and inputs of the steps can say
  AgentText,     \* what the agent writes
  Ops,           \* operation ids
  Calls,         \* the inputs the agent may call with
  None,          \* no receipt, read, result or scope
  MaxRevision,   \* bound: revisions the user makes in a session, and one edit
  MaxSessions,   \* bound: mounts of the editor
  MaxTurns,      \* bound: messages the user sends
  LedgerLimit,   \* receipts of a scope (128 in the code)
  ScopeLimit,    \* scopes retained (64)
  PinLimit       \* pins retained (512)

VARIABLES
  session,       \* which mount of the editor is registered
  rows,          \* endpoint: the identity token of each step row it handed out
  sequence,      \* endpoint: tokens allocated
  pins,
  scopes,        \* scopes[t]: the scope of turn t
  ledger,        \* scope.operations: receipts by operation id
  reads,         \* scope.pending: schema reads in flight
  turn,          \* generation of the turn, and the turn's scope
  stopped,
  results,       \* the turn's results, by operation id
  deliveries,    \* receipts of executeAsync the turn has not taken yet
  birth,         \* history: how often each row has come into being
  applied        \* history: changes made under each turn and operation id

doc      == contractVars
endpoint == <<session, rows, sequence>>
registry == <<pins, scopes, ledger, reads>>
chat     == <<turn, stopped, results, deliveries>>
vars     == <<doc, endpoint, registry, chat, birth, applied>>

Turns     == 1 .. MaxTurns
Revisions == 0 .. MaxRevision

\* A complete read, a read with the input schema of a step, an edit of a
\* step's note, an edit of its inputs (which needs the schema read).
Inputs ==
  [kind : {"read"}]
    \cup [kind : {"schema"}, step : Steps]
    \cup [kind : {"note", "inputs"}, step : Steps, readOp : Ops,
          revision : Revisions]

ASSUME CallsAssumption == Calls \subseteq Inputs

\* Refusals and unknown outcomes, reads, edits.
Receipts ==
  [input : Calls, ok : {FALSE}, application : {"not_applied", "unknown"}]
    \cup [input : Calls, ok : {TRUE}, revision : Nat, document : Documents,
          session : Nat]
    \cup [input : Calls, ok : {TRUE}, changed : BOOLEAN]

ASSUME NoneAssumption == None \notin Receipts \cup [turn : Turns, ok : BOOLEAN]
ASSUME DocumentsAssumption ==
  Documents \subseteq [rows : SUBSET Steps, text : Texts]
ASSUME BoundsAssumption ==
  MaxSessions \in Nat \ {0} /\ {MaxTurns, MaxRevision} \subseteq Nat

Init ==
  /\ ContractInit
  /\ session = 1
  /\ rows = [s \in Steps |-> [token |-> 0, removed |-> FALSE]]
  /\ sequence = 0
  /\ pins = {}
  /\ scopes = [t \in Turns |-> None]
  /\ ledger = [t \in Turns |-> [o \in Ops |-> None]]
  /\ reads = [t \in Turns |-> [o \in Ops |-> None]]
  /\ turn = 0
  /\ stopped = TRUE
  /\ results = [o \in Ops |-> None]
  /\ deliveries = {}
  /\ birth = [s \in Steps |-> IF s \in document.rows THEN 1 ELSE 0]
  /\ applied = [t \in Turns |-> [o \in Ops |-> 0]]

-----------------------------------------------------------------------------
(* The document as the endpoint sees it.                                   *)

\* Observers run on every committed change: a row that is gone is marked, so
\* that a row created later under the same id is not taken for it.
ObserveNothing(table) == table
Observe(table) ==
  [s \in Steps |-> [table[s] EXCEPT !.removed =
                      @ \/ (table[s].token # 0 /\ s \notin document'.rows)]]

Born == birth' = [s \in Steps |->
                    IF s \in document'.rows \ document.rows THEN birth[s] + 1
                                                            ELSE birth[s]]

\* A change that is not the agent's; also the flush of a pending editor draft.
UserChange ==
  /\ revision < MaxRevision
  /\ Change
  /\ rows' = Observe(rows)
  /\ Born

Unavailable == closed \/ saving

\* getTarget: a document whose project is not known yet has no live target.
HasTarget == ~closed /\ identity.target # Unloaded
Target    == [session |-> session, identity |-> identity]

\* readStep allocates a token for a row seen for the first time or anew.
Fresh(s)    == rows[s].token = 0 \/ rows[s].removed
TokenOf(s)  == IF Fresh(s) THEN sequence + 1 ELSE rows[s].token
CanReadStep(s) == ~Unavailable /\ s \in document.rows
ReadStep(s) ==
  IF CanReadStep(s) /\ Fresh(s)
    THEN /\ rows' = [rows EXCEPT ![s] = [token |-> sequence + 1,
                                         removed |-> FALSE]]
         /\ sequence' = sequence + 1
    ELSE UNCHANGED <<rows, sequence>>

-----------------------------------------------------------------------------
(* Receipts, and what closes a scope.                                      *)

Refusal(input) == [input |-> input, ok |-> FALSE, application |-> "not_applied"]
NotApplied(input) == Refusal(input)
Unknown(input) == [input |-> input, ok |-> FALSE, application |-> "unknown"]
ReadReceipt(input) ==
  [input |-> input, ok |-> TRUE, revision |-> revision, document |-> document,
   session |-> session]
EditReceipt(input, changed) ==
  [input |-> input, ok |-> TRUE, changed |-> changed]

IsRead(receipt) == receipt # None /\ receipt.ok /\ "document" \in DOMAIN receipt

Open(t) == scopes[t] # None /\ ~scopes[t].closed

\* closeScope: every schema read of the scopes ends with a refusal, which its
\* observers are handed.
Aborted(ts) == {p \in ts \X Ops : reads[p[1]][p[2]] # None}
RefusalOf(p) == Refusal(reads[p[1]][p[2]].input)
CloseAll(ts) ==
  [t \in Turns |-> IF t \in ts THEN [scopes[t] EXCEPT !.closed = TRUE]
                               ELSE scopes[t]]
Closing(ts) ==
  [t \in Turns |-> [o \in Ops |-> IF <<t, o>> \in Aborted(ts)
                                    THEN RefusalOf(<<t, o>>) ELSE ledger[t][o]]]
NoAnswers(ts) == {}
Answers(ts) ==
  {[turn |-> p[1], op |-> p[2], receipt |-> RefusalOf(p),
    first |-> reads[p[1]][p[2]].first] : p \in Aborted(ts)}

Closed(ts) ==
  /\ scopes' = CloseAll(ts)
  /\ ledger' = Closing(ts)
  /\ reads' = [t \in Turns |-> [o \in Ops |-> IF t \in ts THEN None
                                                          ELSE reads[t][o]]]
  /\ deliveries' = deliveries \cup Answers(ts)

-----------------------------------------------------------------------------
(* The editor.                                                             *)

UserEdit ==
  /\ UserChange
  /\ UNCHANGED <<session, sequence, registry, chat, applied>>

\* Saves, their acknowledgements and identity reads notify no observer.
UserSave ==
  /\ \/ document' = document /\ Save
     \/ Saved
     \/ revision < MaxRevision /\ Rebind
  /\ UNCHANGED <<endpoint, registry, chat, birth, applied>>

CloseDocument ==
  /\ ~closed
  /\ Close
  /\ UNCHANGED <<endpoint, registry, chat, birth, applied>>

\* The editor mounts again: a new session, with revisions and rows of its own,
\* registers for the same owner and the previous entry is closed.
Remount ==
  /\ session < MaxSessions
  /\ session' = session + 1
  /\ document' \in Documents /\ identity' \in Identities
  /\ revision' = 0 /\ saving' = FALSE /\ closed' = FALSE
  /\ rows' = [s \in Steps |-> [token |-> 0, removed |-> FALSE]]
  /\ sequence' = 0
  /\ birth' = [s \in Steps |-> IF s \in document'.rows THEN birth[s] + 1
                                                       ELSE birth[s]]
  /\ pins' = {}
  /\ Closed({t \in Turns : scopes[t] # None})
  /\ UNCHANGED <<turn, stopped, results, applied>>

-----------------------------------------------------------------------------
(* Pins and turns.                                                         *)

\* read flushes the editor's pending drafts before it answers.
Pin(s) ==
  /\ HasTarget /\ ~Unavailable
  /\ s \in document.rows
  /\ Cardinality(pins) < PinLimit
  /\ ReadStep(s)
  /\ pins' = pins \cup {[step |-> s, target |-> Target, token |-> TokenOf(s),
                         birth |-> birth[s]]}
  /\ UNCHANGED <<doc, session, scopes, ledger, reads, chat, birth, applied>>

\* The row a pin or a scope was granted is still the row of that id.
SameRow(s, token) == CanReadStep(s) /\ TokenOf(s) = token

\* The oldest closed scopes make room for a new one, with their receipts.
Retained(t) ==
  LET kept == {u \in 1 .. t - 1 : scopes[u] # None}
  IN  {u \in kept : Cardinality({v \in kept : v >= u}) < ScopeLimit}

Granted(chosen, mode) ==
  LET pinOf == [s \in {pin.step : pin \in chosen} |->
                  CHOOSE pin \in chosen : pin.step = s]
  IN  [target |-> Target, mode |-> mode, closed |-> FALSE,
       grants |-> [s \in DOMAIN pinOf |-> pinOf[s].token],
       births |-> [s \in DOMAIN pinOf |-> pinOf[s].birth]]

CanCapture(chosen) ==
  /\ HasTarget /\ ~Unavailable
  /\ \A pin \in chosen : pin.target = Target /\ SameRow(pin.step, pin.token)

\* begin: the previous turn is revoked and forgotten before anything of the
\* new one exists.  Without pins, or when they are stale, it has no scope.
Begin(chosen, mode) ==
  LET t == turn + 1
      previous == {u \in 1 .. turn : scopes[u] # None}
      kept == Retained(t)
  IN  /\ turn < MaxTurns
      /\ turn' = t
      /\ stopped' = FALSE
      /\ results' = [o \in Ops |-> None]
      /\ \/ /\ chosen # {} /\ CanCapture(chosen)
            /\ pins' = pins \ chosen
            /\ scopes' = [u \in Turns |->
                 IF u = t THEN Granted(chosen, mode)
                 ELSE IF u \in kept THEN [scopes[u] EXCEPT !.closed = TRUE]
                 ELSE None]
            /\ ledger' = [u \in Turns |-> IF u \in kept THEN Closing(kept)[u]
                                          ELSE [o \in Ops |-> None]]
         \/ /\ chosen = {} \/ ~CanCapture(chosen)
            /\ scopes' = CloseAll(previous)
            /\ ledger' = Closing(previous)
            /\ UNCHANGED pins
      /\ reads' = [u \in Turns |-> [o \in Ops |-> None]]
      /\ deliveries' = deliveries \cup Answers(previous)
      /\ UNCHANGED <<doc, endpoint, birth, applied>>

Stop ==
  /\ ~stopped
  /\ stopped' = TRUE
  /\ Closed({turn} \cap {t \in Turns : scopes[t] # None})
  /\ UNCHANGED <<doc, endpoint, pins, turn, results, birth, applied>>

-----------------------------------------------------------------------------
(* The agent's calls, in the scope of the turn.                            *)

Scope == scopes[turn]

\* Calls reach the registry in a turn that has a scope; a stopped turn only
\* hands out what it has a result for.
Reaches(op) == turn > 0 /\ Scope # None /\ (stopped => results[op] # None)

New(op) == ledger[turn][op] = None /\ reads[turn][op] = None

Used(t) == {o \in Ops : ledger[t][o] # None \/ reads[t][o] # None}
HasRoom == Cardinality(Used(turn)) < LedgerLimit

\* The turn keeps the first result of an operation.
Result(generation, ok) == [turn |-> generation, ok |-> ok]
Keep(op, receipt) ==
  results' = IF results[op] # None THEN results
             ELSE [results EXCEPT ![op] = Result(turn, receipt.ok)]

Store(op, receipt) ==
  /\ ledger' = [ledger EXCEPT ![turn][op] = receipt]
  /\ Keep(op, receipt)

\* What every accepted command needs: the open scope of this turn, the target
\* it was captured for, and an editor that is neither saving nor closed.
Authorized == ~stopped /\ ~Scope.closed /\ HasTarget /\ Target = Scope.target
                /\ ~Unavailable

GrantedStep(s) == s \in DOMAIN Scope.grants /\ SameRow(s, Scope.grants[s])

\* A repeated id answers with its receipt, or with a conflict for another
\* input; a pending id and a full ledger refuse and are not recorded.  The
\* schema read that is in flight is joined: one answer serves both calls.
Joins(op, input) == reads[turn][op] # None /\ reads[turn][op].input = input

Replay(op, input) ==
  /\ Reaches(op)
  /\ ~New(op) \/ ~HasRoom
  /\ ~Joins(op, input)
  /\ Keep(op, IF ledger[turn][op] # None /\ ledger[turn][op].input = input
                THEN ledger[turn][op] ELSE Refusal(input))
  /\ UNCHANGED <<doc, endpoint, registry, turn, stopped, deliveries, birth,
                 applied>>

\* A refusal is recorded under its id.  Any call can be refused: the limits on
\* calls per turn and on the size of a read are not modelled as counters.
Refuse(op, input) ==
  /\ Reaches(op) /\ New(op) /\ HasRoom
  /\ Store(op, Refusal(input))
  /\ \/ UNCHANGED <<rows, sequence>>
     \/ /\ "step" \in DOMAIN input
        /\ Authorized /\ input.step \in DOMAIN Scope.grants
        /\ ReadStep(input.step)
  /\ UNCHANGED <<doc, session, pins, scopes, reads, turn, stopped, deliveries,
                 birth, applied>>

ReadLive(op, input) ==
  /\ input.kind = "read"
  /\ Reaches(op) /\ New(op) /\ HasRoom
  /\ Authorized
  /\ Store(op, ReadReceipt(input))
  /\ UNCHANGED <<doc, endpoint, pins, scopes, reads, turn, stopped, deliveries,
                 birth, applied>>

\* The edit names a read of this scope, at the revision that is still current.
AnyReadProof(input) ==
  LET receipt == ledger[turn][input.readOp]
  IN  IsRead(receipt) /\ receipt.revision = input.revision
ReadProof(input) ==
  LET receipt == ledger[turn][input.readOp]
  IN  /\ IsRead(receipt)
      /\ receipt.revision = input.revision
      /\ input.kind = "inputs" => receipt.input = [kind |-> "schema",
                                                   step |-> input.step]
CurrentRevision(input) == revision = input.revision

MayEdit(input) ==
  /\ Authorized
  /\ Scope.mode = "edit"
  /\ GrantedStep(input.step)
  /\ ReadProof(input)
  /\ CurrentRevision(input)

AgentChange(op) ==
  /\ revision <= MaxRevision
  /\ document.text # AgentText
  /\ Change
  /\ document' = [document EXCEPT !.text = AgentText]
  /\ applied' = [applied EXCEPT ![turn][op] = @ + 1]

\* The change is committed and its receipt kept in one step.  An exception out
\* of the editor, before or after the commit, leaves the outcome unknown.
EditLive(op, input) ==
  /\ input.kind \in {"note", "inputs"}
  /\ Reaches(op) /\ New(op) /\ HasRoom
  /\ MayEdit(input)
  /\ \/ AgentChange(op) /\ Store(op, EditReceipt(input, TRUE))
     \/ AgentChange(op) /\ Store(op, Unknown(input))
     \/ /\ document.text = AgentText
        /\ Store(op, EditReceipt(input, FALSE))
        /\ UNCHANGED <<doc, applied>>
     \/ Store(op, Unknown(input)) /\ UNCHANGED <<doc, applied>>
  /\ UNCHANGED <<endpoint, pins, scopes, reads, turn, stopped, deliveries,
                 birth>>

-----------------------------------------------------------------------------
(* The schema read, which awaits the host.                                 *)

StartRead(op, input) ==
  /\ input.kind = "schema"
  /\ Reaches(op) /\ New(op) /\ HasRoom
  /\ ~stopped
  /\ reads' = [reads EXCEPT ![turn][op] =
       [input |-> input, stage |-> "queued",
        seen |-> None, first |-> results[op] = None]]
  /\ UNCHANGED <<doc, endpoint, pins, scopes, ledger, chat, birth, applied>>

\* finishPending: the receipt is recorded and handed to the turn.
FinishRead(op, receipt) ==
  /\ ledger' = [ledger EXCEPT ![turn][op] = receipt]
  /\ deliveries' = deliveries \cup
       {[turn |-> turn, op |-> op, receipt |-> receipt,
         first |-> reads[turn][op].first]}
  /\ reads' = [reads EXCEPT ![turn][op] = None]

Reading(op, stages) ==
  /\ turn > 0
  /\ reads[turn][op] # None
  /\ reads[turn][op].stage \in stages

\* The microtask after the call: the base read, as any read, then the request.
RequestSchema(op) ==
  /\ Reading(op, {"queued"})
  /\ LET read == reads[turn][op]
     IN  \/ /\ Authorized /\ GrantedStep(read.input.step)
            /\ reads' = [reads EXCEPT ![turn][op].stage = "loading",
                          ![turn][op].seen = ReadReceipt(read.input)]
            /\ UNCHANGED <<ledger, deliveries>>
         \/ FinishRead(op, Refusal(read.input))
  /\ UNCHANGED <<doc, endpoint, pins, scopes, turn, stopped, results, birth,
                 applied>>

\* assertMetadataCurrent: the document is still the one the read has seen.
StillSeen(op) ==
  /\ Authorized
  /\ reads[turn][op].seen.revision = revision
  /\ reads[turn][op].seen.document = document

\* The host answers, or fails; a control field makes for one more request.
SchemaAnswered(op) ==
  /\ Reading(op, {"loading", "control"})
  /\ \/ /\ StillSeen(op)
        /\ reads[turn][op].stage = "loading"
        /\ reads' = [reads EXCEPT ![turn][op].stage = "control"]
        /\ UNCHANGED <<ledger, deliveries>>
     \/ StillSeen(op) /\ FinishRead(op, reads[turn][op].seen)
     \/ FinishRead(op, Refusal(reads[turn][op].input))
  /\ UNCHANGED <<doc, endpoint, pins, scopes, turn, stopped, results, birth,
                 applied>>

\* The turn takes the receipt, unless a newer message has replaced it; a turn
\* that was stopped meanwhile keeps a refusal in its place.
OfAnyTurn(delivery) == TRUE
OfThisTurn(delivery) == delivery.turn = turn
TakeDelivery ==
  \E delivery \in deliveries :
    /\ deliveries' = deliveries \ {delivery}
    /\ IF OfThisTurn(delivery) /\ delivery.first
         THEN results' = [results EXCEPT ![delivery.op] =
                Result(delivery.turn, delivery.receipt.ok /\ ~stopped)]
         ELSE UNCHANGED results
    /\ UNCHANGED <<doc, endpoint, registry, turn, stopped, birth, applied>>

-----------------------------------------------------------------------------
Step(inputs) ==
  \/ UserEdit \/ UserSave \/ CloseDocument \/ Remount
  \/ \E s \in Steps : Pin(s)
  \/ \E chosen \in SUBSET pins, mode \in {"read", "edit"} : Begin(chosen, mode)
  \/ Stop
  \/ \E op \in Ops :
       \/ \E input \in inputs :
            \/ Replay(op, input) \/ Refuse(op, input)
            \/ ReadLive(op, input) \/ EditLive(op, input)
            \/ StartRead(op, input)
       \/ RequestSchema(op) \/ SchemaAnswered(op)
  \/ TakeDelivery

Next == Step(Calls)

\* Microtasks run, and the host answers or its request times out.
Fairness ==
  /\ \A op \in Ops : WF_vars(RequestSchema(op)) /\ WF_vars(SchemaAnswered(op))
  /\ WF_vars(TakeDelivery)

Spec == Init /\ [][Next]_vars /\ Fairness

-----------------------------------------------------------------------------
TypeOK ==
  /\ ContractTypeOK
  /\ session \in 1 .. MaxSessions /\ sequence \in Nat
  /\ rows \in [Steps -> [token : Nat, removed : BOOLEAN]]
  /\ turn \in 0 .. MaxTurns /\ stopped \in BOOLEAN
  /\ \A t \in Turns, o \in Ops :
       ledger[t][o] # None => ledger[t][o].input \in Calls
  /\ birth \in [Steps -> Nat] /\ applied \in [Turns -> [Ops -> Nat]]

Applies(t, o) == applied'[t][o] # applied[t][o]

\* The agent never writes over something it has not read: when an edit is
\* applied, a read of the same scope holds exactly the document it changes,
\* whatever the user, a save or a remounted editor did in between.  For an edit
\* of inputs that is the read with the schema of the step's own runner, which
\* was loaded while the document stood as it stands now (ReadProof, StillSeen).
EditsWhatWasRead ==
  [][\A t \in Turns, o \in Ops : Applies(t, o) =>
       \E p \in Ops :
         /\ IsRead(ledger[t][p])
         /\ ledger[t][p].document = document
         /\ ledger[t][p].session = session
         /\ ledger'[t][o].input.kind = "inputs" =>
              ledger[t][p].input = [kind |-> "schema",
                                    step |-> ledger'[t][o].input.step]]_vars

\* The step that is edited is the very row the user pinned: not a row that was
\* created later under the same id, by undo, paste or a remount.
RowIsNeverSubstituted ==
  [][\A t \in Turns, o \in Ops : Applies(t, o) =>
       LET s == ledger'[t][o].input.step
       IN  s \in DOMAIN scopes[t].births /\ scopes[t].births[s] = birth[s]]_vars

\* An operation id changes the document at most once, however often the call is
\* repeated, replayed after a stop or sent again with another input, and its
\* receipt tells what happened: "changed" if and only if the document was
\* changed, and "not applied" only if it was not (New, EditLive).
ReceiptsAreTrue ==
  /\ TypeOK
  /\ \A t \in Turns, o \in Ops :
       LET receipt == ledger[t][o]
       IN  /\ applied[t][o] <= 1
           /\ receipt # None =>
                /\ receipt.ok /\ "changed" \in DOMAIN receipt =>
                     applied[t][o] = IF receipt.changed THEN 1 ELSE 0
                /\ ~receipt.ok /\ receipt.application = "not_applied" =>
                     applied[t][o] = 0

\* What a turn has been told of an operation.  The ledger of an earlier turn is
\* dropped with its scope: what it held, or never heard of, is forgotten then.
ToldOf(t, o) ==
  LET receipt == ledger[t][o]
  IN  IF receipt = None THEN IF t < turn THEN "forgotten" ELSE "none"
      ELSE IF ~receipt.ok THEN receipt.application
      ELSE IF "changed" \in DOMAIN receipt /\ receipt.changed THEN "applied"
      ELSE "not_applied"

WriteContract == INSTANCE WriteResults WITH
  Writes <- Turns \X Ops,
  effects <- [w \in Turns \X Ops |-> applied[w[1]][w[2]]],
  result <- [w \in Turns \X Ops |-> ToldOf(w[1], w[2])]

\* The operations of the agent keep the contract of writes, turn after turn: what
\* a receipt says is settled when it is given, an operation that was refused, or
\* whose schema read was cancelled, never changes the document later, and no
\* receipt is revised; only its scope is forgotten (New, EditLive, closeScope).
ImplementsWriteResults == WriteContract!ContractSpec

\* The results of a turn are its own: a receipt that arrives late never joins
\* the conversation that replaced it.
ResultsAreOfTheTurn ==
  \A o \in Ops : results[o] # None => results[o].turn = turn

\* Every schema read ends and the agent's call gets its result, also when the
\* host fails, the turn is stopped or the editor goes away meanwhile; only the
\* next message takes the call away with the turn.
ReadsAreAnswered ==
  \A t \in Turns, op \in Ops :
    (turn = t /\ reads[t][op] # None)
      ~> (turn # t \/ (results[op] # None /\ reads[t][op] = None))

=============================================================================
