------------------------------ MODULE AgentTurn ------------------------------
(***************************************************************************)
(* One agent turn: the runner that prepares it (turn-runner.ts), the       *)
(* lifecycle that owns its cancellation and its cleanups (turn-lifecycle   *)
(* .ts: createAgentTurnLifecycle) and the response stream the client reads *)
(* (withAgentTurnCancellation).                                            *)
(*                                                                         *)
(* A turn acquires up to three resources, in this order: its execution     *)
(* state, the runtime (model transports, tool servers) and the reader of   *)
(* the response body.  Each registers a cleanup.  Cancellation comes from  *)
(* the request that carries the turn, from the client that drops the       *)
(* response, or from a body that fails.                                    *)
(*                                                                         *)
(* A step is the code between two awaits.  The services of the runner are  *)
(* external: each may answer or throw at any later time.                   *)
(***************************************************************************)
EXTENDS Naturals, Sequences

VARIABLES
  pc,         \* the await the runner is at, or how it ended
  aborted,    \* signal.aborted
  disposed,   \* disposed: the cleanups were handed to the chain
  cleanups,   \* cleanups: registered, in order of acquisition
  scheduled,  \* every cleanup ever appended to pendingCleanup, in order
  ended,      \* how many of them have ended
  cleaning,   \* the first of the others has begun
  awaits,     \* awaits[p]: the link of pendingCleanup that p waits for
  held,       \* the resources acquired and not released
  late,       \* those acquired when the turn was already disposed
  disposals,  \* how often the runtime's own dispose was called
  loop,       \* the producer of the body: execute
  source,     \* the body, as its reader sees it
  puller,     \* the pull() of the response stream
  finished,   \* finished
  output      \* the response stream, as the client sees it

lifecycle == <<aborted, disposed, cleanups, scheduled>>
chain     == <<ended, cleaning>>
stream    == <<source, puller, finished, output>>
vars == <<pc, lifecycle, chain, awaits, held, late, disposals, loop, stream>>

Resources == {"state", "runtime", "body"}
Preparing == {"deferring", "request", "direct", "model", "scope", "runtime", "ready"}
Waiters   == {"runner", "puller", "client"}

TypeOK ==
  /\ pc \in Preparing \cup {"finishing", "failing", "returned", "thrown"}
  /\ aborted \in BOOLEAN /\ disposed \in BOOLEAN /\ cleaning \in BOOLEAN
  /\ cleanups \in Seq(Resources) /\ scheduled \in Seq(Resources)
  /\ ended \in 0 .. Len(scheduled)
  /\ cleaning => ended < Len(scheduled)
  /\ awaits \in [Waiters -> 0 .. Len(scheduled)]
  /\ held \subseteq Resources /\ late \subseteq Resources
  /\ disposals \in Nat
  /\ loop \in {"none", "running", "disposing", "ended"}
  /\ source \in {"none", "open", "closed", "failed", "cancelled"}
  /\ puller \in {"idle", "reading", "closing", "failing", "stopped"}
  /\ finished \in BOOLEAN
  /\ output \in {"none", "open", "closed", "errored", "leaving", "left"}
  /\ disposed <=> cleanups = <<>>

\* The lifecycle is created and owns the execution state before anything is
\* awaited; the request may have been cancelled already.
Init ==
  /\ pc = "deferring"
  /\ aborted \in BOOLEAN
  /\ disposed = aborted
  /\ cleanups = IF aborted THEN <<>> ELSE <<"state">>
  /\ scheduled = IF aborted THEN <<"state">> ELSE <<>>
  /\ ended = 0 /\ cleaning = FALSE
  /\ awaits = [p \in Waiters |-> Len(scheduled)]
  /\ held = {"state"}
  /\ late = IF aborted THEN held ELSE {}
  /\ disposals = 0
  /\ loop = "none"
  /\ source = "none" /\ puller = "idle" /\ finished = FALSE /\ output = "none"

-----------------------------------------------------------------------------
\* The lifecycle.

Reversed(s) == [i \in 1 .. Len(s) |-> s[Len(s) + 1 - i]]

\* dispose(): the first call hands the cleanups over, the last one first.
\* Its promise is the end of the chain as it stands then.
Dispose ==
  /\ disposed' = TRUE
  /\ cleanups' = <<>>
  /\ scheduled' = scheduled \o Reversed(cleanups)

WaitFor(p) == awaits' = [awaits EXCEPT ![p] = Len(scheduled')]
Waited(p) == ended >= awaits[p]

\* defer(): a resource acquired after disposal is released at once.
DroppedIfDisposed(r) ==
  /\ cleanups' = IF disposed THEN cleanups ELSE Append(cleanups, r)
  /\ UNCHANGED scheduled
Registered(r) ==
  IF disposed
    THEN scheduled' = Append(scheduled, r) /\ UNCHANGED cleanups
    ELSE cleanups' = Append(cleanups, r) /\ UNCHANGED scheduled
Acquire(r) ==
  /\ Registered(r)
  /\ held' = held \cup {r}
  /\ late' = IF disposed THEN late \cup {r} ELSE late

\* The listener of the response stream, attached until it is finished.
Heard ==
  IF output = "open" /\ ~finished
    THEN output' = "errored" /\ finished' = TRUE
    ELSE UNCHANGED <<output, finished>>

ListensAlways == TRUE
\* The listener on the request, removed by dispose().
Listens == ~disposed

\* The request is cancelled.
Abort ==
  /\ Listens
  /\ aborted' = TRUE
  /\ Dispose
  /\ Heard
  /\ UNCHANGED <<pc, chain, awaits, held, late, disposals, loop, source, puller>>

Due == scheduled[ended + 1]

\* disposeRuntime: one dispose, whoever asks first.
DisposeAgain == disposals' = disposals + 1
DisposeRuntime == disposals' = IF disposals = 0 THEN 1 ELSE disposals

CleanupBegins ==
  /\ ~cleaning
  /\ ended < Len(scheduled)
  /\ CASE Due = "state" ->
            /\ ended' = ended + 1
            /\ held' = held \ {"state"}
            /\ UNCHANGED <<cleaning, disposals, source>>
       [] Due = "runtime" ->
            /\ cleaning' = TRUE
            /\ DisposeRuntime
            /\ UNCHANGED <<ended, held, source>>
       [] Due = "body" ->
            /\ cleaning' = TRUE
            /\ source' = IF source = "open" THEN "cancelled" ELSE source
            /\ UNCHANGED <<ended, held, disposals>>
  /\ UNCHANGED <<pc, lifecycle, awaits, late, loop, puller, finished, output>>

\* The runtime's dispose returns or throws: its promise is settled for all
\* who wait for it.
RuntimeDisposed ==
  /\ disposals > 0
  /\ "runtime" \in held
  /\ held' = held \ {"runtime"}
  /\ UNCHANGED <<pc, lifecycle, chain, awaits, late, disposals, loop, stream>>

\* Its failure, like any cleanup's, is reported and the chain goes on.
CleanupEnds ==
  /\ cleaning
  /\ Due = "runtime" => "runtime" \notin held
  /\ cleaning' = FALSE
  /\ ended' = ended + 1
  /\ held' = held \ {Due}
  /\ UNCHANGED <<pc, lifecycle, awaits, late, disposals, loop, stream>>

-----------------------------------------------------------------------------
\* The runner.

\* The catch of the runner: it throws when the cleanups are over.
Fail ==
  /\ pc' = "failing"
  /\ Dispose
  /\ WaitFor("runner")

\* throwIfAborted between two awaits.
Proceed(next) ==
  IF aborted
    THEN Fail
    ELSE /\ pc' = next
         /\ UNCHANGED <<disposed, cleanups, scheduled, awaits>>

Service == [request |-> "direct", direct |-> "model", model |-> "scope", scope |-> "runtime"]

\* A service answers, and the turn goes on if it was not cancelled.
Answered ==
  /\ \/ pc = "deferring" /\ Waited("runner") /\ Proceed("request")
     \/ pc \in DOMAIN Service /\ Proceed(Service[pc])
  /\ UNCHANGED <<aborted, chain, held, late, disposals, loop, stream>>

\* A service throws.
ServiceFails ==
  /\ pc \in {"request", "direct", "model", "scope", "runtime"}
  /\ Fail
  /\ UNCHANGED <<aborted, chain, held, late, disposals, loop, stream>>

\* A runtime is registered even if the turn was cancelled while it was made.
RuntimePrepared ==
  /\ pc = "runtime"
  /\ Acquire("runtime")
  /\ pc' = "ready"
  /\ awaits' = [awaits EXCEPT !["runner"] = IF disposed THEN Len(scheduled') ELSE 0]
  /\ UNCHANGED <<aborted, disposed, chain, disposals, loop, stream>>

\* ownResponse with a body: it is registered first, and then cancellation is
\* observed; nothing has been disposed that was not aborted.
OwnBody ==
  /\ Acquire("body")
  /\ source' = "open"
  /\ finished' = aborted
  /\ output' = IF aborted THEN "errored" ELSE "open"
  /\ UNCHANGED <<disposed, puller>>
  /\ IF aborted
       THEN pc' = "failing" /\ WaitFor("runner")
       ELSE pc' = "returned" /\ UNCHANGED awaits

\* A direct answer, or an answer instead of a model, with a body.
EarlyResponse ==
  /\ pc \in {"direct", "model"}
  /\ OwnBody
  /\ UNCHANGED <<aborted, chain, disposals, loop>>

\* The same without a body: returned when the cleanups are over.
EmptyResponse ==
  /\ pc \in {"direct", "model"}
  /\ pc' = IF aborted THEN "failing" ELSE "finishing"
  /\ Dispose
  /\ WaitFor("runner")
  /\ UNCHANGED <<aborted, chain, held, late, disposals, loop, stream>>

\* The runtime is registered: the loop starts and its body is returned.
StartLoop ==
  /\ pc = "ready" /\ Waited("runner")
  /\ ~aborted
  /\ loop' = "running"
  /\ OwnBody
  /\ UNCHANGED <<aborted, chain, disposals>>

CancelledWhenReady ==
  /\ pc = "ready" /\ Waited("runner")
  /\ aborted
  /\ Fail
  /\ UNCHANGED <<aborted, chain, held, late, disposals, loop, stream>>

RunnerEnds ==
  /\ Waited("runner")
  /\ \/ pc = "failing" /\ pc' = "thrown"
     \/ pc = "finishing" /\ pc' = "returned"
  /\ UNCHANGED <<lifecycle, chain, awaits, held, late, disposals, loop, stream>>

-----------------------------------------------------------------------------
\* The producer: runLoop returns or throws, the runtime is released, and then
\* the body is closed; what it wrote stays in the stream.

LoopEnds ==
  /\ loop = "running"
  /\ loop' = "disposing"
  /\ DisposeRuntime
  /\ UNCHANGED <<pc, lifecycle, chain, awaits, held, late, stream>>

CloseSource == source' = IF source = "open" THEN "closed" ELSE source

LoopCloses ==
  /\ loop = "disposing" /\ "runtime" \notin held
  /\ loop' = "ended"
  /\ CloseSource
  /\ UNCHANGED <<pc, lifecycle, chain, awaits, held, late, disposals, puller, finished, output>>

\* The body of an early response ends, and any body may fail.
SourceEnds ==
  /\ source = "open"
  /\ \/ loop = "none" /\ source' = "closed"
     \/ source' = "failed"
  /\ UNCHANGED <<pc, lifecycle, chain, awaits, held, late, disposals, loop, puller, finished, output>>

-----------------------------------------------------------------------------
\* The response stream.

Pull ==
  /\ output = "open" /\ puller = "idle" /\ ~finished
  /\ puller' = "reading"
  /\ UNCHANGED <<pc, lifecycle, chain, awaits, held, late, disposals, loop, source, finished, output>>

\* A chunk, or anything for a stream that was finished meanwhile.
ReadReturns ==
  /\ puller = "reading"
  /\ source = "open" \/ finished
  /\ puller' = IF finished THEN "stopped" ELSE "idle"
  /\ UNCHANGED <<pc, lifecycle, chain, awaits, held, late, disposals, loop, source, finished, output>>

Detach == finished' = TRUE

\* The end of the body: the cleanups are over before the client sees it.
ReadDone ==
  /\ puller = "reading" /\ ~finished
  /\ source \in {"closed", "cancelled"}
  /\ puller' = "closing"
  /\ Detach
  /\ Dispose
  /\ WaitFor("puller")
  /\ UNCHANGED <<pc, aborted, chain, held, late, disposals, loop, source, output>>

FailQuietly == UNCHANGED aborted
AbortOnFailure == aborted' = TRUE

ReadFails ==
  /\ puller = "reading" /\ ~finished
  /\ source = "failed"
  /\ puller' = "failing"
  /\ Detach
  /\ AbortOnFailure
  /\ Dispose
  /\ WaitFor("puller")
  /\ UNCHANGED <<pc, chain, held, late, disposals, loop, source, output>>

DisposeAwaitedNever(p) == TRUE
DisposeAwaited(p) == Waited(p)

\* A stream the client has left is not closed again.
PullEnds ==
  /\ puller \in {"closing", "failing"}
  /\ DisposeAwaited("puller")
  /\ puller' = "stopped"
  /\ output' = IF output = "open"
                 THEN IF puller = "closing" THEN "closed" ELSE "errored"
                 ELSE output
  /\ UNCHANGED <<pc, lifecycle, chain, awaits, held, late, disposals, loop, source, finished>>

\* The client drops the response, and learns when the turn is cleaned up.
ClientLeaves ==
  /\ pc = "returned" /\ output = "open"
  /\ output' = "leaving"
  /\ finished' = TRUE
  /\ aborted' = TRUE
  /\ Dispose
  /\ WaitFor("client")
  /\ UNCHANGED <<pc, chain, held, late, disposals, loop, source, puller>>

ClientLeft ==
  /\ output = "leaving" /\ Waited("client")
  /\ output' = "left"
  /\ UNCHANGED <<pc, lifecycle, chain, awaits, held, late, disposals, loop, source, puller, finished>>

-----------------------------------------------------------------------------
Cleanup == CleanupBegins \/ RuntimeDisposed \/ CleanupEnds
Runner  == Answered \/ ServiceFails \/ RuntimePrepared \/ EarlyResponse
             \/ EmptyResponse \/ StartLoop \/ CancelledWhenReady \/ RunnerEnds
Stream  == Pull \/ ReadReturns \/ ReadDone \/ ReadFails \/ PullEnds \/ ClientLeft

Next == Abort \/ Cleanup \/ Runner \/ LoopEnds \/ LoopCloses \/ SourceEnds
          \/ Stream \/ ClientLeaves

\* The cleanups end: each closes transports or a stream.  The services of the
\* runner and what the client waits for do too.  A loop need not obey its
\* signal, and a client need not read or leave.
Fairness == WF_vars(Cleanup) /\ WF_vars(Runner) /\ WF_vars(ClientLeft)

Spec == Init /\ [][Next]_vars /\ Fairness

-----------------------------------------------------------------------------
\* Nothing is released twice, though the loop and the chain both dispose the
\* runtime and every way to stop the turn disposes all of it.
ReleasedOnce ==
  /\ disposals <= 1
  /\ \A i, j \in 1 .. Len(scheduled) : scheduled[i] = scheduled[j] => i = j

\* The caller of a runner that throws or answers without a body, the client
\* that has read the body to its end, or the client that dropped it is told.
Over ==
  \/ pc = "thrown"
  \/ pc = "returned" /\ source = "none"
  \/ output \in {"closed", "left"}

EndedHoldsNothing == Over => held = {}

Elements(s) == {s[i] : i \in 1 .. Len(s)}

\* The resources of the turn, as those of one lifetime.
Turn == INSTANCE Lifetime WITH
  Exclusive <- FALSE,
  released  <- (Elements(cleanups) \cup Elements(scheduled)) \ held,
  over      <- Over

\* The turn acquires each resource once and releases it once, whoever asks for
\* that, and whoever is told that it is over finds everything released, with
\* nothing acquired afterwards.
ImplementsLifetime == Turn!LifetimeSpec

\* A loop whose runtime is being taken away was told so by its signal.
RuntimeOutlivesLoop ==
  loop = "running" /\ (disposals > 0 \/ "runtime" \notin held) => aborted

\* The execution state closes last: the runtime and the reader that tools
\* and subagents work with are released before it, except those that came
\* too late.
StateClosesLast == "state" \notin held => held \subseteq late

\* A body that was read to its end is delivered as complete: a cancellation
\* of the request that arrives while the cleanups run neither turns it into
\* a failure nor aborts the finished turn.
CompletionStands ==
  [][puller = "closing" =>
       /\ output' \in {"open", "closed", "leaving", "left"}
       /\ aborted' # aborted => output' = "leaving"]_vars

\* A cancelled turn releases all it acquired and the runner answers, whether
\* or not the loop obeys and the client goes on reading.
CancelledTurnEnds ==
  aborted ~> held = {} /\ pc \in {"returned", "thrown"}
=============================================================================
