-------------------------- MODULE LauncherLifetime --------------------------
(***************************************************************************)
(* The lifetime of the QuickerRpc plugin inside the Quicker V2 process     *)
(* (Launcher.Lifetime.cs).  A V2LauncherLifetime runs startup attempts,    *)
(* one at a time, each on the thread pool; an attempt builds one           *)
(* LauncherStartupOwner (host, RPC server, logger factory) and either      *)
(* publishes it or releases it.  StopAsync may arrive at any moment: it    *)
(* takes whatever is there, the running attempt or the published owner,    *)
(* and must leave no resource behind.                                      *)
(*                                                                         *)
(* An owner is named by the attempt that created it.  A step is the code   *)
(* between two awaits or inside one lock statement; cancellation, the      *)
(* release of an owner and the end of a task are awaited by polling their  *)
(* state, in any order the thread pool may choose.                         *)
(***************************************************************************)
EXTENDS Integers, FiniteSets

CONSTANT MaxAttempts   \* bound: startup attempts in one process

ASSUME MaxAttemptsAssumption == MaxAttempts \in Nat \ {0}

Attempts == 1 .. MaxAttempts
None     == 0                       \* a null _attempt, _owner or capture
Handle   == Attempts \cup {None}

VARIABLES
  status,      \* _status
  attempt,     \* _attempt: the attempt the lifetime currently owns
  published,   \* _owner: the owner of a successful attempt
  begun,       \* how many attempts TryStart has created
  phase,       \* phase[a]: where StartAsync(a) is
  holds,       \* holds[a]: StartAsync's local variable owner is not null
  cancelled,   \* cancelled[a]: attempt.Cancellation is signalled
  faulted,     \* faulted[a]: the startup task ends with an exception
  release,     \* release[a]: the release of a's owner (_releaseTask)
  stop         \* _stopTask with what CompleteStopAsync captured

vars == <<status, attempt, published, begun, phase, holds, cancelled,
          faulted, release, stop>>

Status    == {"NotStarted", "Starting", "Started", "Stopped"}
Phase     == {"unborn", "queued", "starting", "started", "unwinding",
              "releasing", "retiring", "done"}
Release   == {"none", "stopping", "disposing", "failing", "ok", "failed"}
Released  == {"ok", "failed"}
StopPhase == {"none", "cancelling", "joining", "releasing", "awaiting", "done"}

TypeOK ==
  /\ status \in Status
  /\ attempt \in Handle
  /\ published \in Handle
  /\ begun \in 0 .. MaxAttempts
  /\ phase \in [Attempts -> Phase]
  /\ holds \in [Attempts -> BOOLEAN]
  /\ cancelled \in [Attempts -> BOOLEAN]
  /\ faulted \in [Attempts -> BOOLEAN]
  /\ release \in [Attempts -> Release]
  /\ stop \in [state : StopPhase, attempt : Handle, owner : Handle,
               failed : BOOLEAN]

Init ==
  /\ status = "NotStarted"
  /\ attempt = None
  /\ published = None
  /\ begun = 0
  /\ phase = [a \in Attempts |-> "unborn"]
  /\ holds = [a \in Attempts |-> FALSE]
  /\ cancelled = [a \in Attempts |-> FALSE]
  /\ faulted = [a \in Attempts |-> FALSE]
  /\ release = [a \in Attempts |-> "none"]
  /\ stop = [state |-> "none", attempt |-> None, owner |-> None,
             failed |-> FALSE]

-----------------------------------------------------------------------------
(* The startup attempt.                                                    *)

NewAttempt == begun + 1

\* A TryStart that is refused returns a task and changes nothing.
TryStart ==
  /\ status = "NotStarted"
  /\ begun < MaxAttempts
  /\ begun' = begun + 1
  /\ attempt' = NewAttempt
  /\ status' = "Starting"
  /\ phase' = [phase EXCEPT ![NewAttempt] = "queued"]
  /\ UNCHANGED <<published, holds, cancelled, faulted, release, stop>>

\* createOwner() returns an owner, or throws and there is nothing to release.
CreateOwner(a) ==
  /\ phase[a] = "queued"
  /\ \/ /\ phase' = [phase EXCEPT ![a] = "starting"]
        /\ holds' = [holds EXCEPT ![a] = TRUE]
        /\ UNCHANGED faulted
     \/ /\ phase' = [phase EXCEPT ![a] = "unwinding"]
        /\ faulted' = [faulted EXCEPT ![a] = TRUE]
        /\ UNCHANGED holds
  /\ UNCHANGED <<status, attempt, published, begun, cancelled, release, stop>>

\* owner.StartAsync ends: it may ignore the cancellation or fail by itself.
StartReturns(a) ==
  /\ phase[a] = "starting"
  /\ phase' = [phase EXCEPT ![a] = "started"]
  /\ UNCHANGED <<status, attempt, published, begun, holds, cancelled,
                 faulted, release, stop>>

StartThrows(a) ==
  /\ phase[a] = "starting"
  /\ phase' = [phase EXCEPT ![a] = "unwinding"]
  /\ faulted' = [faulted EXCEPT ![a] = TRUE]
  /\ UNCHANGED <<status, attempt, published, begun, holds, cancelled,
                 release, stop>>

StartCancelled(a) ==
  /\ phase[a] = "starting"
  /\ cancelled[a]
  /\ phase' = [phase EXCEPT ![a] = "unwinding"]
  /\ UNCHANGED <<status, attempt, published, begun, holds, cancelled,
                 faulted, release, stop>>

\* The owner is published only if Stop has not come first.
MayPublish(a) == attempt = a /\ status = "Starting"

Transfer(a) ==
  /\ published' = a
  /\ holds' = [holds EXCEPT ![a] = FALSE]
  /\ status' = "Started"
  /\ attempt' = None

\* One lock; onStarted runs inside it and may throw after everything is set.
Publish(a) ==
  /\ phase[a] = "started"
  /\ phase' = [phase EXCEPT ![a] = "unwinding"]
  /\ IF MayPublish(a)
       THEN /\ Transfer(a)
            /\ \E throws \in BOOLEAN : faulted' = [faulted EXCEPT ![a] = throws]
       ELSE UNCHANGED <<published, holds, status, attempt, faulted>>
  /\ UNCHANGED <<begun, cancelled, release, stop>>

\* ReleaseAsync starts the one cleanup of an owner, or joins it.
BeginRelease(a) ==
  release' = IF release[a] = "none" THEN [release EXCEPT ![a] = "stopping"]
                                    ELSE release

WithoutAwait == "retiring"
AwaitRelease == "releasing"

\* The finally block: an owner the attempt still holds is cleaned up first.
Unwind(a) ==
  /\ phase[a] = "unwinding"
  /\ IF holds[a]
       THEN /\ BeginRelease(a)
            /\ phase' = [phase EXCEPT ![a] = AwaitRelease]
       ELSE /\ phase' = [phase EXCEPT ![a] = "retiring"]
            /\ UNCHANGED release
  /\ UNCHANGED <<status, attempt, published, begun, holds, cancelled,
                 faulted, stop>>

Unwound(a) ==
  /\ phase[a] = "releasing"
  /\ release[a] \in Released
  /\ phase' = [phase EXCEPT ![a] = "retiring"]
  /\ faulted' = [faulted EXCEPT ![a] = @ \/ release[a] = "failed"]
  /\ UNCHANGED <<status, attempt, published, begun, holds, cancelled,
                 release, stop>>

\* The last lock of the attempt; the startup task completes after it.
Retire(a) ==
  /\ phase[a] = "retiring"
  /\ phase' = [phase EXCEPT ![a] = "done"]
  /\ attempt' = IF attempt = a THEN None ELSE attempt
  /\ status' = IF attempt = a /\ status = "Starting" THEN "NotStarted"
                                                     ELSE status
  /\ UNCHANGED <<published, begun, holds, cancelled, faulted, release, stop>>

-----------------------------------------------------------------------------
(* ReleaseCoreAsync: stop, then dispose whatever stop did; either may      *)
(* throw and the release task then fails.                                  *)

ReleaseStop(a) ==
  /\ release[a] = "stopping"
  /\ \E next \in {"disposing", "failing"} :
       release' = [release EXCEPT ![a] = next]
  /\ UNCHANGED <<status, attempt, published, begun, phase, holds, cancelled,
                 faulted, stop>>

ReleaseDispose(a) ==
  /\ release[a] \in {"disposing", "failing"}
  /\ \E end \in Released :
       /\ release[a] = "failing" => end = "failed"
       /\ release' = [release EXCEPT ![a] = end]
  /\ UNCHANGED <<status, attempt, published, begun, phase, holds, cancelled,
                 faulted, stop>>

-----------------------------------------------------------------------------
(* StopAsync and CompleteStopAsync.  Later callers share the first task.   *)

StopAsync ==
  /\ stop.state = "none"
  /\ status' = "Stopped"
  /\ stop' = [state   |-> IF attempt # None THEN "cancelling" ELSE "releasing",
              attempt |-> attempt, owner |-> published, failed |-> FALSE]
  /\ published' = None
  /\ UNCHANGED <<attempt, begun, phase, holds, cancelled, faulted, release>>

NotSignalled(a) == cancelled
Signalled(a) == [cancelled EXCEPT ![a] = TRUE]

\* CancelAsync on a disposed source is caught: that startup has completed.
\* A registered callback may throw; the attempt is joined all the same.
StopCancel ==
  /\ stop.state = "cancelling"
  /\ IF phase[stop.attempt] = "done"
       THEN /\ stop' = [stop EXCEPT !.state = "joining"]
            /\ UNCHANGED cancelled
       ELSE /\ cancelled' = Signalled(stop.attempt)
            /\ \E throws \in BOOLEAN :
                 stop' = [stop EXCEPT !.state = "joining", !.failed = throws]
  /\ UNCHANGED <<status, attempt, published, begun, phase, holds, faulted,
                 release>>

NotAwaited(a) == TRUE
StartupEnded(a) == phase[a] = "done"

\* Awaiting a startup that ended with an exception skips the release below.
StopJoin ==
  /\ stop.state = "joining"
  /\ StartupEnded(stop.attempt)
  /\ stop' = IF stop.failed \/ faulted[stop.attempt]
               THEN [stop EXCEPT !.state = "done", !.failed = TRUE]
               ELSE [stop EXCEPT !.state = "releasing"]
  /\ UNCHANGED <<status, attempt, published, begun, phase, holds, cancelled,
                 faulted, release>>

StopRelease ==
  /\ stop.state = "releasing"
  /\ IF stop.owner = None
       THEN /\ stop' = [stop EXCEPT !.state = "done"]
            /\ UNCHANGED release
       ELSE /\ BeginRelease(stop.owner)
            /\ stop' = [stop EXCEPT !.state = "awaiting"]
  /\ UNCHANGED <<status, attempt, published, begun, phase, holds, cancelled,
                 faulted>>

StopReleased ==
  /\ stop.state = "awaiting"
  /\ release[stop.owner] \in Released
  /\ stop' = [stop EXCEPT !.state = "done",
                          !.failed = release[stop.owner] = "failed"]
  /\ UNCHANGED <<status, attempt, published, begun, phase, holds, cancelled,
                 faulted, release>>

-----------------------------------------------------------------------------
Startup(a) ==
  \/ CreateOwner(a)
  \/ StartReturns(a)
  \/ StartThrows(a)
  \/ StartCancelled(a)
  \/ Publish(a)
  \/ Unwind(a)
  \/ Unwound(a)
  \/ Retire(a)

Cleanup(a) == ReleaseStop(a) \/ ReleaseDispose(a)

CompleteStop == StopCancel \/ StopJoin \/ StopRelease \/ StopReleased

Next ==
  \/ TryStart
  \/ StopAsync
  \/ CompleteStop
  \/ \E a \in Attempts : Startup(a) \/ Cleanup(a)

\* The thread pool runs every continuation that is ready.  Of the callbacks
\* nothing more is assumed than that cleanup ends and that a start which has
\* been cancelled ends; a start that is not cancelled may hang for ever.
Fairness ==
  /\ WF_vars(CompleteStop)
  /\ \A a \in Attempts :
       /\ WF_vars(CreateOwner(a))
       /\ WF_vars(StartCancelled(a))
       /\ WF_vars(Publish(a) \/ Unwind(a) \/ Unwound(a) \/ Retire(a))
       /\ WF_vars(Cleanup(a))

Spec == Init /\ [][Next]_vars /\ Fairness

-----------------------------------------------------------------------------
Created(a) == holds[a] \/ published = a \/ release[a] # "none"
                       \/ (stop.owner = a /\ stop.state # "none")

\* A retry never builds its RPC server while an earlier one is still alive:
\* at most one owner is between its creation and the end of its cleanup.
OneLiveOwner ==
  \A a, b \in Attempts :
    Created(a) /\ Created(b)
      /\ release[a] \notin Released /\ release[b] \notin Released => a = b

LiveOwner(a) == Created(a) /\ release[a] \notin Released

\* The owners that attempts build, as resources of one lifetime.
Owners == INSTANCE Lifetime WITH
  Resources <- Attempts,
  Exclusive <- TRUE,
  held      <- {a \in Attempts : LiveOwner(a)},
  released  <- {a \in Attempts : release[a] \in Released},
  over      <- stop.state = "done"

\* No owner is built while another one is alive, each is cleaned up once, and
\* the end of the task of StopAsync, which no owner survives, is the last
\* word: no attempt builds or cleans up anything after it.
ImplementsLifetime == Owners!LifetimeSpec

\* An attempt that may still build, start or release something.
Working(a) ==
  \/ phase[a] \in {"queued", "starting", "started", "releasing"}
  \/ phase[a] = "unwinding" /\ holds[a]

\* When the task of StopAsync completes, successfully or not, nothing that
\* was ever built is left: every owner is cleaned up and no attempt will build
\* or release another.  (The tail of an attempt that had published its owner
\* is not joined: it has nothing but its last lock to take.)
NothingOutlivesStop ==
  stop.state = "done" =>
    \A a \in Attempts :
      /\ ~Working(a)
      /\ Created(a) => release[a] \in Released

\* Stop is terminal: no later step of an attempt reports the plugin as
\* started or ready to start again, and no published owner reappears.
StopIsTerminal ==
  [][stop.state # "none" => status' = "Stopped" /\ published' = None]_vars

\* The task StopAsync returned completes, though the start it interrupts
\* would never have returned by itself.
StopCompletes == stop.state # "none" ~> stop.state = "done"

=============================================================================
