---------------------------- MODULE LauncherProofs ----------------------------
(***************************************************************************)
(* Proofs about the launchers of the two plugins: LauncherLifetime, for    *)
(* any number of startup attempts, and V1Launcher, for any number of       *)
(* versions, calls of Start and failures.  The two are independent.        *)
(***************************************************************************)
EXTENDS LauncherLifetime, V1Launcher, TLAPS

---------------------------------------------------------------------------
(* The launcher of the V2 plugin. *)

USE DEF Attempts, None, Handle, Status, Phase, Release, Released, StopPhase

(* No step of the attempts, the cleanups or Stop leaves the types.          *)
LEMMA TypeStep == TypeOK /\ [Next]_vars => TypeOK'
<1> SUFFICES ASSUME TypeOK, [Next]_vars PROVE TypeOK'
  OBVIOUS
<1> USE MaxAttemptsAssumption DEF TypeOK
<1>1. CASE TryStart
  BY <1>1 DEF TryStart, NewAttempt
<1>2. CASE StopAsync
  BY <1>2 DEF StopAsync
<1>3. CASE CompleteStop
  <2>1. CASE StopCancel
    <3>1. \/ stop' = [stop EXCEPT !.state = "joining"]
          \/ \E throws \in BOOLEAN :
               stop' = [stop EXCEPT !.state = "joining", !.failed = throws]
      BY <2>1 DEF StopCancel
    <3>2. stop' \in [state : StopPhase, attempt : Handle, owner : Handle,
                     failed : BOOLEAN]
      BY <3>1
    <3>3. cancelled' \in [Attempts -> BOOLEAN]
      BY <2>1 DEF StopCancel, Signalled
    <3> QED BY <2>1, <3>2, <3>3 DEF StopCancel
  <2>2. CASE StopJoin
    BY <2>2 DEF StopJoin
  <2>3. CASE StopRelease
    <3>1. stop' \in [state : StopPhase, attempt : Handle, owner : Handle,
                     failed : BOOLEAN]
      BY <2>3 DEF StopRelease
    <3>2. release' \in [Attempts -> Release]
      BY <2>3 DEF StopRelease, BeginRelease
    <3> QED BY <2>3, <3>1, <3>2 DEF StopRelease
  <2>4. CASE StopReleased
    BY <2>4 DEF StopReleased
  <2> QED BY <1>3, <2>1, <2>2, <2>3, <2>4 DEF CompleteStop
<1>4. ASSUME NEW a \in Attempts, Startup(a) PROVE TypeOK'
  <2>1. CASE CreateOwner(a)
    <3>1. phase' \in [Attempts -> Phase]
      BY <2>1 DEF CreateOwner
    <3>2. holds' \in [Attempts -> BOOLEAN] /\ faulted' \in [Attempts -> BOOLEAN]
      BY <2>1 DEF CreateOwner
    <3> QED BY <2>1, <3>1, <3>2 DEF CreateOwner
  <2>2. CASE StartReturns(a)
    BY <2>2 DEF StartReturns
  <2>3. CASE StartThrows(a)
    BY <2>3 DEF StartThrows
  <2>4. CASE StartCancelled(a)
    BY <2>4 DEF StartCancelled
  <2>5. CASE Publish(a)
    BY <2>5 DEF Publish, Transfer
  <2>6. CASE Unwind(a)
    BY <2>6 DEF Unwind, BeginRelease, AwaitRelease
  <2>7. CASE Unwound(a)
    BY <2>7 DEF Unwound
  <2>8. CASE Retire(a)
    BY <2>8 DEF Retire
  <2> QED
    BY <1>4, <2>1, <2>2, <2>3, <2>4, <2>5, <2>6, <2>7, <2>8 DEF Startup
<1>5. ASSUME NEW a \in Attempts, Cleanup(a) PROVE TypeOK'
  <2>1. CASE ReleaseStop(a)
    BY <2>1 DEF ReleaseStop
  <2>2. CASE ReleaseDispose(a)
    BY <2>2 DEF ReleaseDispose
  <2> QED BY <1>5, <2>1, <2>2 DEF Cleanup
<1>6. CASE UNCHANGED vars
  BY <1>6 DEF vars
<1> QED BY <1>1, <1>2, <1>3, <1>4, <1>5, <1>6 DEF Next

(* The variables only ever hold values of the fields of V2LauncherLifetime *)
(* and LauncherStartupOwner they stand for.                                *)
THEOREM TypeCorrect == Spec => []TypeOK
<1>1. Init => TypeOK
  BY MaxAttemptsAssumption DEF Init, TypeOK
<1> QED BY <1>1, TypeStep, PTL DEF Spec

-----------------------------------------------------------------------------
(* The inductive invariant.  What the lifetime promises about owners holds *)
(* because each owner has one place to be at every phase of its attempt.   *)

\* An attempt exists once TryStart has numbered it, and an earlier attempt has
\* ended before the next one begins.
Numbered ==
  \A a \in Attempts :
    /\ phase[a] = "unborn" <=> a > begun
    /\ a < begun => phase[a] = "done"

\* What the lifetime's two references can be in each status.
StatusTells ==
  /\ status = "NotStarted" =>
       attempt = None /\ \A a \in Attempts : phase[a] \in {"unborn", "done"}
  /\ status = "Starting" => attempt # None
  /\ status = "Started" => attempt = None /\ published # None
  /\ status = "Stopped" <=> stop.state # "none"
  /\ attempt # None => attempt = begun /\ phase[attempt] # "done"
                         /\ status \in {"Starting", "Stopped"}
  /\ published # None => published = begun /\ status = "Started"

\* An owner is held from its creation to its publication or cleanup, and the
\* attempt that holds it is the one the lifetime knows.
OwnersInPlace ==
  \A a \in Attempts :
    /\ phase[a] \in {"starting", "started", "releasing"} => holds[a]
    /\ phase[a] \in {"unborn", "queued"} => ~holds[a]
    /\ phase[a] \in {"starting", "started", "unwinding"} /\ holds[a]
         => release[a] = "none"
    /\ holds[a] /\ phase[a] = "releasing" => release[a] # "none"
    /\ holds[a] /\ phase[a] \in {"retiring", "done"} => release[a] \in Released
    /\ phase[a] \in {"queued", "starting", "started", "releasing"}
         => attempt = a
    /\ holds[a] /\ phase[a] # "done" => attempt = a
    /\ release[a] # "none" => holds[a] \/ stop.owner = a
    /\ published = a => ~holds[a] /\ phase[a] \in {"unwinding", "retiring", "done"}

\* What Stop has captured, and how far it has come with it.
StopKeepsTrack ==
  /\ stop.state = "none" => stop.attempt = None /\ stop.owner = None
  /\ stop.state \in {"cancelling", "joining"} => stop.attempt # None
  /\ stop.attempt # None =>
       /\ stop.attempt = begun /\ stop.owner = None
       /\ stop.state \in {"releasing", "awaiting", "done"}
            => phase[stop.attempt] = "done"
  /\ stop.state # "none" /\ attempt # None => stop.attempt = attempt
  /\ stop.owner # None =>
       /\ stop.owner = begun
       /\ ~holds[stop.owner]
       /\ phase[stop.owner] \in {"unwinding", "retiring", "done"}
       /\ stop.state = "done" => release[stop.owner] \in Released
  /\ stop.state = "awaiting" => stop.owner # None
  /\ stop.state # "none" /\ stop.attempt = None /\ stop.owner = None
       => \A a \in Attempts : phase[a] \in {"unborn", "done"}

IInv == TypeOK /\ Numbered /\ StatusTells /\ OwnersInPlace /\ StopKeepsTrack

LEMMA InvariantStep == IInv /\ TypeOK' /\ [Next]_vars => IInv'
<1> SUFFICES ASSUME IInv, TypeOK', [Next]_vars PROVE IInv'
  OBVIOUS
<1> USE MaxAttemptsAssumption DEF IInv, TypeOK, Numbered, StatusTells, OwnersInPlace,
      StopKeepsTrack
<1>1. CASE TryStart
  <2>1. Numbered'
    BY <1>1 DEF TryStart, NewAttempt
  <2>2. StatusTells'
    BY <1>1 DEF TryStart, NewAttempt
  <2>3. OwnersInPlace'
    BY <1>1 DEF TryStart, NewAttempt
  <2>4. StopKeepsTrack'
    BY <1>1 DEF TryStart, NewAttempt
  <2> QED BY <2>1, <2>2, <2>3, <2>4
<1>2. CASE StopAsync
  <2>1. Numbered'
    BY <1>2 DEF StopAsync
  <2>2. StatusTells'
    BY <1>2 DEF StopAsync
  <2>3. OwnersInPlace'
    BY <1>2 DEF StopAsync
  <2>4. StopKeepsTrack'
    BY <1>2 DEF StopAsync
  <2> QED BY <2>1, <2>2, <2>3, <2>4
<1>3. CASE StopCancel
  <2>1. \/ stop' = [stop EXCEPT !.state = "joining"]
        \/ \E throws \in BOOLEAN :
             stop' = [stop EXCEPT !.state = "joining", !.failed = throws]
    BY <1>3 DEF StopCancel
  <2>2. /\ stop.state = "cancelling" /\ stop'.state = "joining"
        /\ stop'.attempt = stop.attempt /\ stop'.owner = stop.owner
    <3>1. stop.state = "cancelling"
      BY <1>3 DEF StopCancel
    <3>2. CASE stop' = [stop EXCEPT !.state = "joining"]
      BY <3>1, <3>2
    <3>3. ASSUME NEW throws \in BOOLEAN,
                 stop' = [stop EXCEPT !.state = "joining", !.failed = throws]
          PROVE  /\ stop'.state = "joining"
                 /\ stop'.attempt = stop.attempt /\ stop'.owner = stop.owner
      BY <3>3
    <3> QED BY <2>1, <3>1, <3>2, <3>3
  <2>3. UNCHANGED <<status, attempt, published, begun, phase, holds, release>>
    BY <1>3 DEF StopCancel
  <2>4. Numbered' /\ StatusTells'
    BY <2>2, <2>3
  <2>5. OwnersInPlace'
    BY <2>2, <2>3
  <2>6. StopKeepsTrack'
    BY <2>2, <2>3
  <2> QED BY <2>4, <2>5, <2>6
<1>4. CASE StopJoin
  <2>1. Numbered'
    BY <1>4 DEF StopJoin, StartupEnded
  <2>2. StatusTells'
    BY <1>4 DEF StopJoin, StartupEnded
  <2>3. OwnersInPlace'
    BY <1>4 DEF StopJoin, StartupEnded
  <2>4. StopKeepsTrack'
    BY <1>4 DEF StopJoin, StartupEnded
  <2> QED BY <2>1, <2>2, <2>3, <2>4
<1>5. CASE StopRelease
  <2>1. Numbered'
    BY <1>5 DEF StopRelease, BeginRelease
  <2>2. StatusTells'
    BY <1>5 DEF StopRelease, BeginRelease
  <2>3. OwnersInPlace'
    BY <1>5 DEF StopRelease, BeginRelease
  <2>4. StopKeepsTrack'
    BY <1>5 DEF StopRelease, BeginRelease
  <2> QED BY <2>1, <2>2, <2>3, <2>4
<1>6. CASE StopReleased
  <2>1. Numbered'
    BY <1>6 DEF StopReleased
  <2>2. StatusTells'
    BY <1>6 DEF StopReleased
  <2>3. OwnersInPlace'
    BY <1>6 DEF StopReleased
  <2>4. StopKeepsTrack'
    BY <1>6 DEF StopReleased
  <2> QED BY <2>1, <2>2, <2>3, <2>4
<1>7. ASSUME NEW a \in Attempts, CreateOwner(a) PROVE IInv'
  <2>1. Numbered'
    BY <1>7 DEF CreateOwner
  <2>2. StatusTells'
    BY <1>7 DEF CreateOwner
  <2>3. OwnersInPlace'
    BY <1>7 DEF CreateOwner
  <2>4. StopKeepsTrack'
    BY <1>7 DEF CreateOwner
  <2> QED BY <2>1, <2>2, <2>3, <2>4
<1>8. ASSUME NEW a \in Attempts, StartReturns(a) PROVE IInv'
  <2>1. Numbered'
    BY <1>8 DEF StartReturns
  <2>2. StatusTells'
    BY <1>8 DEF StartReturns
  <2>3. OwnersInPlace'
    BY <1>8 DEF StartReturns
  <2>4. StopKeepsTrack'
    BY <1>8 DEF StartReturns
  <2> QED BY <2>1, <2>2, <2>3, <2>4
<1>9. ASSUME NEW a \in Attempts, StartThrows(a) PROVE IInv'
  <2>1. Numbered'
    BY <1>9 DEF StartThrows
  <2>2. StatusTells'
    BY <1>9 DEF StartThrows
  <2>3. OwnersInPlace'
    BY <1>9 DEF StartThrows
  <2>4. StopKeepsTrack'
    BY <1>9 DEF StartThrows
  <2> QED BY <2>1, <2>2, <2>3, <2>4
<1>10. ASSUME NEW a \in Attempts, StartCancelled(a) PROVE IInv'
  <2>1. Numbered'
    BY <1>10 DEF StartCancelled
  <2>2. StatusTells'
    BY <1>10 DEF StartCancelled
  <2>3. OwnersInPlace'
    BY <1>10 DEF StartCancelled
  <2>4. StopKeepsTrack'
    BY <1>10 DEF StartCancelled
  <2> QED BY <2>1, <2>2, <2>3, <2>4
<1>11. ASSUME NEW a \in Attempts, Publish(a) PROVE IInv'
  <2>1. Numbered'
    BY <1>11 DEF Publish, Transfer, MayPublish
  <2>2. StatusTells'
    BY <1>11 DEF Publish, Transfer, MayPublish
  <2>3. OwnersInPlace'
    BY <1>11 DEF Publish, Transfer, MayPublish
  <2>4. StopKeepsTrack'
    BY <1>11 DEF Publish, Transfer, MayPublish
  <2> QED BY <2>1, <2>2, <2>3, <2>4
<1>12. ASSUME NEW a \in Attempts, Unwind(a) PROVE IInv'
  <2>1. Numbered'
    BY <1>12 DEF Unwind, BeginRelease, AwaitRelease
  <2>2. StatusTells'
    BY <1>12 DEF Unwind, BeginRelease, AwaitRelease
  <2>3. OwnersInPlace'
    BY <1>12 DEF Unwind, BeginRelease, AwaitRelease
  <2>4. StopKeepsTrack'
    BY <1>12 DEF Unwind, BeginRelease, AwaitRelease
  <2> QED BY <2>1, <2>2, <2>3, <2>4
<1>13. ASSUME NEW a \in Attempts, Unwound(a) PROVE IInv'
  <2>1. Numbered'
    BY <1>13 DEF Unwound
  <2>2. StatusTells'
    BY <1>13 DEF Unwound
  <2>3. OwnersInPlace'
    BY <1>13 DEF Unwound
  <2>4. StopKeepsTrack'
    BY <1>13 DEF Unwound
  <2> QED BY <2>1, <2>2, <2>3, <2>4
<1>14. ASSUME NEW a \in Attempts, Retire(a) PROVE IInv'
  <2>1. Numbered'
    BY <1>14 DEF Retire
  <2>2. StatusTells'
    BY <1>14 DEF Retire
  <2>3. OwnersInPlace'
    BY <1>14 DEF Retire
  <2>4. StopKeepsTrack'
    BY <1>14 DEF Retire
  <2> QED BY <2>1, <2>2, <2>3, <2>4
<1>15. ASSUME NEW a \in Attempts, ReleaseStop(a) PROVE IInv'
  <2>1. Numbered'
    BY <1>15 DEF ReleaseStop
  <2>2. StatusTells'
    BY <1>15 DEF ReleaseStop
  <2>3. OwnersInPlace'
    BY <1>15 DEF ReleaseStop
  <2>4. StopKeepsTrack'
    BY <1>15 DEF ReleaseStop
  <2> QED BY <2>1, <2>2, <2>3, <2>4
<1>16. ASSUME NEW a \in Attempts, ReleaseDispose(a) PROVE IInv'
  <2>1. Numbered'
    BY <1>16 DEF ReleaseDispose
  <2>2. StatusTells'
    BY <1>16 DEF ReleaseDispose
  <2>3. OwnersInPlace'
    BY <1>16 DEF ReleaseDispose
  <2>4. StopKeepsTrack'
    BY <1>16 DEF ReleaseDispose
  <2> QED BY <2>1, <2>2, <2>3, <2>4
<1>17. CASE UNCHANGED vars
  BY <1>17 DEF vars
<1> QED BY <1>1, <1>2, <1>3, <1>4, <1>5, <1>6, <1>7, <1>8, <1>9, <1>10, <1>11, <1>12, <1>13, <1>14, <1>15, <1>16, <1>17
  DEF Next, CompleteStop, Startup, Cleanup

(* Every reachable state has every owner in its place.                     *)
THEOREM Invariant == Spec => []IInv
<1>1. Init => IInv
  <2>1. Init => TypeOK
    BY MaxAttemptsAssumption DEF Init, TypeOK
  <2>2. Init => Numbered /\ StatusTells /\ OwnersInPlace /\ StopKeepsTrack
    BY MaxAttemptsAssumption
    DEF Init, Numbered, StatusTells, OwnersInPlace, StopKeepsTrack
  <2> QED BY <2>1, <2>2 DEF IInv
<1>2. IInv /\ [Next]_vars => IInv'
  BY TypeStep, InvariantStep DEF IInv
<1> QED BY <1>1, <1>2, PTL DEF Spec

(* TryStart after a failed attempt never builds an RPC server beside one    *)
(* that is still alive: StartAsync releases before it retires.             *)
THEOREM OneOwnerAlive == Spec => []OneLiveOwner
<1>1. IInv => OneLiveOwner
  <2> SUFFICES ASSUME IInv, NEW a \in Attempts,
                      Created(a), release[a] \notin Released
               PROVE  a = begun
    BY DEF OneLiveOwner
  <2>1. a = begun \/ a < begun \/ a > begun
    BY MaxAttemptsAssumption DEF IInv, TypeOK
  <2>2. a > begun => phase[a] = "unborn"
    BY DEF IInv, Numbered
  <2>3. a < begun => phase[a] = "done"
    BY DEF IInv, Numbered
  <2>4. published = a => a = begun
    BY DEF IInv, StatusTells
  <2>5. stop.owner = a => a = begun
    BY DEF IInv, StopKeepsTrack
  <2>6. ~holds[a] /\ stop.owner # a => release[a] = "none"
    BY DEF IInv, OwnersInPlace, TypeOK
  <2>7. phase[a] = "done" /\ holds[a] => release[a] \in Released
    BY DEF IInv, OwnersInPlace
  <2>8. phase[a] = "unborn" => ~holds[a]
    BY DEF IInv, OwnersInPlace
  <2> QED BY <2>1, <2>2, <2>3, <2>4, <2>5, <2>6, <2>7, <2>8 DEF Created
<1> QED BY <1>1, Invariant, PTL

(* The task of StopAsync completes only when every owner that was ever      *)
(* built is cleaned up and no attempt will build or release another.       *)
THEOREM StopLeavesNothing == Spec => []NothingOutlivesStop
<1>1. IInv => NothingOutlivesStop
  <2> SUFFICES ASSUME IInv, stop.state = "done", NEW a \in Attempts
               PROVE  ~Working(a) /\ (Created(a) => release[a] \in Released)
    BY DEF NothingOutlivesStop
  <2>1. published = None
    BY DEF IInv, StatusTells
  <2>2. attempt = None
    BY DEF IInv, StopKeepsTrack, StatusTells
  <2>3. ~Working(a)
    BY <2>2, MaxAttemptsAssumption DEF Working, IInv, OwnersInPlace, TypeOK
  <2>4. holds[a] => release[a] \in Released
    <3>1. holds[a] => phase[a] = "done"
      BY <2>2, MaxAttemptsAssumption DEF IInv, OwnersInPlace, TypeOK
    <3> QED BY <3>1 DEF IInv, OwnersInPlace
  <2>5. stop.owner = a => release[a] \in Released
    BY MaxAttemptsAssumption DEF IInv, StopKeepsTrack, TypeOK
  <2>6. release[a] # "none" => holds[a] \/ stop.owner = a
    BY DEF IInv, OwnersInPlace
  <2> QED BY <2>1, <2>3, <2>4, <2>5, <2>6, MaxAttemptsAssumption DEF Created
<1> QED BY <1>1, Invariant, PTL

(* Once StopAsync was called nothing reports the plugin as started again   *)
(* and no owner is published.                                              *)
THEOREM StoppedForGood == Spec => StopIsTerminal
<1>1. IInv /\ IInv' /\ [Next]_vars
        => [stop.state # "none" => status' = "Stopped" /\ published' = None]_vars
  <2> SUFFICES ASSUME IInv, IInv', [Next]_vars, stop.state # "none"
               PROVE  status' = "Stopped" /\ published' = None
    OBVIOUS
  <2>1. stop'.state # "none"
    <3> USE DEF IInv, TypeOK
    <3>1. CASE StopCancel
      <4>1. \/ stop' = [stop EXCEPT !.state = "joining"]
            \/ \E throws \in BOOLEAN :
                 stop' = [stop EXCEPT !.state = "joining", !.failed = throws]
        BY <3>1 DEF StopCancel
      <4>2. CASE stop' = [stop EXCEPT !.state = "joining"]
        BY <4>2
      <4>3. ASSUME NEW throws \in BOOLEAN,
                   stop' = [stop EXCEPT !.state = "joining", !.failed = throws]
            PROVE  stop'.state # "none"
        BY <4>3
      <4> QED BY <4>1, <4>2, <4>3
    <3>2. CASE UNCHANGED stop
      BY <3>2
    <3>3. CASE StopJoin
      BY <3>3 DEF StopJoin
    <3>4. CASE StopRelease
      BY <3>4 DEF StopRelease
    <3>5. CASE StopReleased
      <4>1. stop' = [stop EXCEPT !.state = "done",
                                 !.failed = release[stop.owner] = "failed"]
        BY <3>5 DEF StopReleased
      <4> HIDE DEF IInv
      <4> DEFINE failed == release[stop.owner] = "failed"
      <4>2. stop' = [stop EXCEPT !.state = "done", !.failed = failed]
        BY <4>1
      <4> HIDE DEF failed
      <4> QED BY <4>2 DEF IInv, TypeOK
    <3> QED
      BY <3>1, <3>2, <3>3, <3>4, <3>5 DEF Next, vars, TryStart, StopAsync, CompleteStop,
        Startup, CreateOwner, StartReturns, StartThrows, StartCancelled,
        Publish, Unwind, Unwound, Retire, Cleanup, ReleaseStop, ReleaseDispose
  <2> QED BY <2>1 DEF IInv, StatusTells
<1> QED BY <1>1, Invariant, PTL DEF Spec, StopIsTerminal

-----------------------------------------------------------------------------
(* The owners of the attempts have one lifetime: LauncherLifetime           *)
(* implements Lifetime.  An owner is held wherever it is: by its attempt,   *)
(* by the lifetime or by the stop that took it from there.                  *)

\* Where an owner that was built is until its cleanup has ended.
OwnedSomewhere(a) == holds[a] \/ published = a \/ stop.owner = a

LiveIsOwned ==
  \A a \in Attempts :
    /\ LiveOwner(a) <=> OwnedSomewhere(a) /\ release[a] \notin Released
    /\ LiveOwner(a) => a = begun
    /\ release[a] # "none" => OwnedSomewhere(a)

LEMMA LiveOwnersAreOwned == IInv => LiveIsOwned
<1> SUFFICES ASSUME IInv, NEW a \in Attempts
             PROVE  /\ LiveOwner(a) <=> OwnedSomewhere(a) /\ release[a] \notin Released
                    /\ LiveOwner(a) => a = begun
                    /\ release[a] # "none" => OwnedSomewhere(a)
  BY DEF LiveIsOwned
<1>1. release[a] # "none" => OwnedSomewhere(a)
  BY DEF IInv, OwnersInPlace, OwnedSomewhere
<1>2. stop.owner = a => stop.state # "none"
  BY MaxAttemptsAssumption DEF IInv, StopKeepsTrack
<1>3. LiveOwner(a) <=> OwnedSomewhere(a) /\ release[a] \notin Released
  BY <1>1, <1>2 DEF LiveOwner, Created, OwnedSomewhere
<1>4. LiveOwner(a) => a = begun
  <2> SUFFICES ASSUME LiveOwner(a) PROVE a = begun
    OBVIOUS
  <2>1. a = begun \/ a < begun \/ a > begun
    BY MaxAttemptsAssumption DEF IInv, TypeOK
  <2>2. a > begun => phase[a] = "unborn"
    BY DEF IInv, Numbered
  <2>3. a < begun => phase[a] = "done"
    BY DEF IInv, Numbered
  <2>4. published = a \/ stop.owner = a => a = begun
    BY MaxAttemptsAssumption DEF IInv, StatusTells, StopKeepsTrack
  <2>5. phase[a] = "unborn" => ~holds[a]
    BY DEF IInv, OwnersInPlace
  <2>6. phase[a] = "done" /\ holds[a] => release[a] \in Released
    BY DEF IInv, OwnersInPlace
  <2> QED BY <1>3, <2>1, <2>2, <2>3, <2>4, <2>5, <2>6 DEF OwnedSomewhere
<1> QED BY <1>1, <1>3, <1>4

LEMMA OneLifetimeStep ==
  IInv /\ IInv' /\ LiveIsOwned /\ LiveIsOwned' /\ NothingOutlivesStop' /\ [Next]_vars
    => [Owners!LifetimeNext]_(Owners!lifetimeVars)
<1> SUFFICES ASSUME IInv, IInv', LiveIsOwned, LiveIsOwned', NothingOutlivesStop', [Next]_vars
             PROVE  [Owners!LifetimeNext]_(Owners!lifetimeVars)
  OBVIOUS
<1> DEFINE Over     == stop.state = "done"
           Live     == {a \in Attempts : LiveOwner(a)}
           CleanedUp == {a \in Attempts : release[a] \in Released}
<1>1. TypeOK /\ TypeOK'
  BY DEF IInv
\* A step that builds and cleans up nothing may only be the end of the stop.
<1>2. ASSUME Live' = Live, CleanedUp' = CleanedUp, Over => Over'
      PROVE  [Owners!LifetimeNext]_(Owners!lifetimeVars)
  <2>1. CASE Over' = Over
    BY <1>2, <2>1 DEF Owners!lifetimeVars
  <2>2. CASE ~Over /\ Over'
    <3>1. Live' = {}
      BY <2>2 DEF NothingOutlivesStop, LiveOwner
    <3> QED BY <1>2, <2>2, <3>1 DEF Owners!LifetimeNext, Owners!End
  <2> QED BY <1>2, <2>1, <2>2
<1>3. ASSUME \A a \in Attempts : OwnedSomewhere(a)' = OwnedSomewhere(a),
             \A a \in Attempts : (release'[a] \in Released) <=> (release[a] \in Released),
             Over => Over'
      PROVE  [Owners!LifetimeNext]_(Owners!lifetimeVars)
  <2>1. Live' = Live /\ CleanedUp' = CleanedUp
    BY <1>3 DEF LiveIsOwned
  <2> QED BY <1>2, <1>3, <2>1
<1> USE <1>1, MaxAttemptsAssumption DEF TypeOK
<1>4. CASE TryStart
  BY <1>3, <1>4 DEF TryStart, OwnedSomewhere
<1>5. CASE StopAsync
  <2>1. stop.owner = None /\ stop'.owner = published /\ published' = None /\ stop.state # "done"
    BY <1>5 DEF StopAsync, IInv, StopKeepsTrack
  <2>2. \A a \in Attempts : OwnedSomewhere(a)' = OwnedSomewhere(a)
    BY <1>5, <2>1 DEF StopAsync, OwnedSomewhere
  <2> QED BY <1>3, <1>5, <2>1, <2>2 DEF StopAsync
<1>6. CASE CompleteStop
  <2>1. stop.state # "done" /\ UNCHANGED <<holds, published>>
    BY <1>6 DEF CompleteStop, StopCancel, StopJoin, StopRelease, StopReleased
  <2>2. stop'.owner = stop.owner
    <3>1. CASE StopCancel
      <4>1. \/ stop' = [stop EXCEPT !.state = "joining"]
            \/ \E throws \in BOOLEAN :
                 stop' = [stop EXCEPT !.state = "joining", !.failed = throws]
        BY <3>1 DEF StopCancel
      <4>2. CASE stop' = [stop EXCEPT !.state = "joining"]
        BY <4>2
      <4>3. ASSUME NEW throws \in BOOLEAN, stop' = [stop EXCEPT !.state = "joining", !.failed = throws]
            PROVE  stop'.owner = stop.owner
        BY <4>3
      <4> QED BY <4>1, <4>2, <4>3
    <3>2. CASE StopJoin
      BY <3>2 DEF StopJoin
    <3>3. CASE StopRelease
      BY <3>3 DEF StopRelease
    <3>4. CASE StopReleased
      <4> DEFINE failed == release[stop.owner] = "failed"
      <4>1. stop' = [stop EXCEPT !.state = "done", !.failed = failed]
        BY <3>4 DEF StopReleased
      <4> HIDE DEF failed
      <4> QED BY <4>1
    <3> QED BY <1>6, <3>1, <3>2, <3>3, <3>4 DEF CompleteStop
  <2>3. \A a \in Attempts : (release'[a] \in Released) <=> (release[a] \in Released)
    <3>1. CASE StopCancel \/ StopJoin \/ StopReleased
      BY <3>1 DEF StopCancel, StopJoin, StopReleased
    <3>2. CASE StopRelease
      BY <3>2 DEF StopRelease, BeginRelease
    <3> QED BY <1>6, <3>1, <3>2 DEF CompleteStop
  <2>4. \A a \in Attempts : OwnedSomewhere(a)' = OwnedSomewhere(a)
    BY <2>1, <2>2 DEF OwnedSomewhere
  <2> QED BY <1>3, <2>1, <2>3, <2>4
<1>7. ASSUME NEW a \in Attempts, CreateOwner(a)
      PROVE  [Owners!LifetimeNext]_(Owners!lifetimeVars)
  <2>1. CASE UNCHANGED holds
    BY <1>3, <1>7, <2>1 DEF CreateOwner, OwnedSomewhere
  <2>2. CASE holds' = [holds EXCEPT ![a] = TRUE]
    <3>1. attempt = a /\ ~holds[a] /\ phase[a] = "queued"
      BY <1>7 DEF CreateOwner, IInv, OwnersInPlace
    <3>2. a = begun /\ published # a
      BY <3>1 DEF IInv, StatusTells
    <3>3. stop.owner # a
      BY <3>1 DEF IInv, StopKeepsTrack
    <3>4. ~OwnedSomewhere(a) /\ release[a] = "none"
      BY <3>1, <3>2, <3>3 DEF OwnedSomewhere, IInv, OwnersInPlace
    <3>5. /\ OwnedSomewhere(a)' /\ release' = release /\ stop' = stop
          /\ \A b \in Attempts \ {a} : OwnedSomewhere(b)' = OwnedSomewhere(b)
      BY <1>7, <2>2 DEF CreateOwner, OwnedSomewhere
    <3>6. \A b \in Attempts : ~LiveOwner(b)
      BY <3>2, <3>4 DEF LiveIsOwned
    <3>7. Live = {} /\ Live' = {a} /\ CleanedUp' = CleanedUp /\ a \notin CleanedUp
      BY <3>4, <3>5, <3>6 DEF LiveIsOwned
    <3>8. ~Over
      BY <3>1 DEF IInv, StopKeepsTrack, StatusTells
    <3> HIDE DEF Live, CleanedUp
    <3>9. Owners!Acquire(a)
      <4>1. Live' = Live \cup {a} /\ a \notin Live \cup CleanedUp
        BY <3>7
      <4> QED BY <3>5, <3>7, <3>8, <4>1 DEF Owners!Acquire, Live, CleanedUp
    <3> QED BY <3>9 DEF Owners!LifetimeNext
  <2> QED BY <1>7, <2>1, <2>2 DEF CreateOwner
<1>8. ASSUME NEW a \in Attempts,
             StartReturns(a) \/ StartThrows(a) \/ StartCancelled(a) \/ Unwound(a) \/ Retire(a)
      PROVE  [Owners!LifetimeNext]_(Owners!lifetimeVars)
  BY <1>3, <1>8 DEF StartReturns, StartThrows, StartCancelled, Unwound, Retire, OwnedSomewhere
<1>9. ASSUME NEW a \in Attempts, Publish(a)
      PROVE  [Owners!LifetimeNext]_(Owners!lifetimeVars)
  <2>1. CASE MayPublish(a)
    <3>1. holds[a]
      BY <1>9 DEF Publish, IInv, OwnersInPlace
    <3>2. published \notin Attempts
      BY <2>1 DEF MayPublish, IInv, StatusTells
    <3>3. published' = a /\ holds' = [holds EXCEPT ![a] = FALSE] /\ UNCHANGED <<release, stop>>
      BY <1>9, <2>1 DEF Publish, Transfer
    <3>4. \A b \in Attempts : OwnedSomewhere(b)' = OwnedSomewhere(b)
      BY <3>1, <3>2, <3>3 DEF OwnedSomewhere
    <3> QED BY <1>3, <3>3, <3>4
  <2>2. CASE ~MayPublish(a)
    BY <1>3, <1>9, <2>2 DEF Publish, OwnedSomewhere
  <2> QED BY <2>1, <2>2
<1>10. ASSUME NEW a \in Attempts, Unwind(a)
       PROVE  [Owners!LifetimeNext]_(Owners!lifetimeVars)
  BY <1>3, <1>10 DEF Unwind, BeginRelease, OwnedSomewhere
<1>11. ASSUME NEW a \in Attempts, ReleaseStop(a)
       PROVE  [Owners!LifetimeNext]_(Owners!lifetimeVars)
  BY <1>3, <1>11 DEF ReleaseStop, OwnedSomewhere
<1>12. ASSUME NEW a \in Attempts, ReleaseDispose(a)
       PROVE  [Owners!LifetimeNext]_(Owners!lifetimeVars)
  <2>1. release[a] \in {"disposing", "failing"} /\ UNCHANGED <<holds, published, stop>>
    BY <1>12 DEF ReleaseDispose
  <2>2. PICK end \in Released : release' = [release EXCEPT ![a] = end]
    BY <1>12 DEF ReleaseDispose
  <2>3. \A b \in Attempts : OwnedSomewhere(b)' = OwnedSomewhere(b)
    BY <2>1 DEF OwnedSomewhere
  <2>4. OwnedSomewhere(a) /\ release[a] \notin Released /\ release'[a] \in Released
    BY <2>1, <2>2 DEF LiveIsOwned
  <2>5. \A b \in Attempts \ {a} : release'[b] = release[b]
    BY <2>2
  <2>6. a \in Live /\ Live' = Live \ {a} /\ CleanedUp' = CleanedUp \cup {a}
    BY <2>3, <2>4, <2>5 DEF LiveIsOwned
  <2>7. Owners!Release(a)
    BY <2>1, <2>6 DEF Owners!Release
  <2> QED BY <2>7 DEF Owners!LifetimeNext
<1>13. CASE UNCHANGED vars
  BY <1>3, <1>13 DEF vars, OwnedSomewhere
<1> QED BY <1>4, <1>5, <1>6, <1>7, <1>8, <1>9, <1>10, <1>11, <1>12, <1>13
    DEF Next, Startup, Cleanup

(* However attempts, cleanups and Stop interleave, no RPC server is built   *)
(* beside one that lives, each is cleaned up once, and after the end of     *)
(* StopAsync none lives and none will: the plugin's owners keep Lifetime.   *)
THEOREM OwnersKeepTheLifetime == Spec => ImplementsLifetime
<1>1. Init => Owners!LifetimeInit
  <2> SUFFICES ASSUME Init PROVE Owners!LifetimeInit
    OBVIOUS
  <2>1. {a \in Attempts : LiveOwner(a)} = {} /\ {a \in Attempts : release[a] \in Released} = {}
    BY MaxAttemptsAssumption DEF Init, LiveOwner, Created
  <2>2. stop.state # "done"
    BY DEF Init
  <2> QED BY <2>1, <2>2 DEF Owners!LifetimeInit
<1> QED BY <1>1, Invariant, LiveOwnersAreOwned, StopLeavesNothing, OneLifetimeStep, PTL
    DEF Spec, ImplementsLifetime, Owners!LifetimeSpec

-----------------------------------------------------------------------------
(* A stop is never stuck: the safety half of StopCompletes, by the guards   *)
(* of the actions.  A start that was not cancelled may hang for ever, so    *)
(* StartReturns and StartThrows do not count.                               *)

AttemptGoesOn(a) ==
  \/ phase[a] \in {"queued", "started", "unwinding", "retiring"}
  \/ phase[a] = "starting" /\ cancelled[a]
  \/ phase[a] = "releasing" /\ release[a] \in Released
  \/ release[a] \in {"stopping", "disposing", "failing"}

StopGoesOn ==
  stop.state \notin {"none", "done"} =>
    \/ stop.state \in {"cancelling", "releasing"}
    \/ stop.state = "joining" /\ StartupEnded(stop.attempt)
    \/ stop.state = "awaiting" /\ release[stop.owner] \in Released
    \/ \E a \in Attempts \cap {stop.attempt, stop.owner} : AttemptGoesOn(a)

\* What a stop waits for was signalled to end, or has begun to.
StopWaitsInv ==
  /\ stop.state = "joining" => phase[stop.attempt] = "done" \/ cancelled[stop.attempt]
  /\ stop.state = "awaiting" => release[stop.owner] # "none"

LEMMA StopWaitsNext == IInv /\ StopWaitsInv /\ [Next]_vars => StopWaitsInv'
<1> SUFFICES ASSUME IInv, StopWaitsInv, [Next]_vars PROVE StopWaitsInv'
  OBVIOUS
<1>1. /\ TypeOK
      /\ stop.state \in {"cancelling", "joining"} => stop.attempt \in Attempts
      /\ stop.state = "awaiting" => stop.owner \in Attempts
      /\ \A a \in Attempts : phase[a] = "unborn" => stop.attempt # a
  BY MaxAttemptsAssumption DEF IInv, TypeOK, StopKeepsTrack, Numbered
<1> HIDE DEF Attempts
<1>2. ASSUME UNCHANGED stop,
             \A a \in Attempts : phase[a] = "done" => phase'[a] = "done",
             \A a \in Attempts : cancelled[a] => cancelled'[a],
             \A a \in Attempts : release[a] # "none" => release'[a] # "none"
      PROVE  StopWaitsInv'
  BY <1>1, <1>2 DEF StopWaitsInv
<1> USE DEF TypeOK
<1>3. CASE TryStart
  <2>1. NewAttempt \in Attempts /\ phase[NewAttempt] = "unborn"
    BY <1>1, <1>3, MaxAttemptsAssumption DEF TryStart, NewAttempt, IInv, Numbered, Attempts
  <2> QED BY <1>1, <1>2, <1>3, <2>1 DEF TryStart
<1>4. CASE StopAsync
  BY <1>4 DEF StopAsync, StopWaitsInv
<1>5. CASE StopCancel
  <2>1. /\ stop'.state = "joining" /\ stop'.attempt = stop.attempt
        /\ UNCHANGED phase
        /\ phase[stop.attempt] = "done" \/ cancelled' = Signalled(stop.attempt)
    BY <1>1, <1>5 DEF StopCancel
  <2>2. stop.attempt \in Attempts
    BY <1>1, <1>5 DEF StopCancel
  <2> QED BY <1>1, <2>1, <2>2 DEF StopWaitsInv, Signalled
<1>6. CASE StopJoin
  BY <1>1, <1>6 DEF StopJoin, StopWaitsInv
<1>7. CASE StopRelease
  <2>1. CASE stop.owner = None
    BY <1>1, <1>7, <2>1 DEF StopRelease, StopWaitsInv
  <2>2. CASE stop.owner # None
    <3>1. stop.owner \in Attempts
      BY <1>1, <2>2, MaxAttemptsAssumption DEF Attempts
    <3>2. stop'.state = "awaiting" /\ stop'.owner = stop.owner /\ BeginRelease(stop.owner)
      BY <1>1, <1>7, <2>2 DEF StopRelease
    <3>3. release'[stop.owner] # "none"
      BY <1>1, <3>1, <3>2 DEF BeginRelease
    <3> QED BY <3>2, <3>3 DEF StopWaitsInv
  <2> QED BY <2>1, <2>2
<1>8. CASE StopReleased
  <2>1. stop'.state = "done"
    <3> DEFINE failed == release[stop.owner] = "failed"
    <3>1. stop' = [stop EXCEPT !.state = "done", !.failed = failed]
      BY <1>8 DEF StopReleased
    <3> HIDE DEF failed
    <3> QED BY <1>1, <3>1
  <2> QED BY <2>1 DEF StopWaitsInv
<1>9. ASSUME NEW a \in Attempts, Startup(a) PROVE StopWaitsInv'
  <2>1. CASE CreateOwner(a) \/ StartReturns(a) \/ StartThrows(a) \/ StartCancelled(a)
    BY <1>1, <1>2, <2>1 DEF CreateOwner, StartReturns, StartThrows, StartCancelled
  <2>2. CASE Publish(a) \/ Unwound(a) \/ Retire(a)
    BY <1>1, <1>2, <2>2 DEF Publish, Unwound, Retire
  <2>3. CASE Unwind(a)
    BY <1>1, <1>2, <2>3 DEF Unwind, BeginRelease, AwaitRelease
  <2> QED BY <1>9, <2>1, <2>2, <2>3 DEF Startup
<1>10. ASSUME NEW a \in Attempts, Cleanup(a) PROVE StopWaitsInv'
  BY <1>1, <1>2, <1>10 DEF Cleanup, ReleaseStop, ReleaseDispose
<1>11. CASE UNCHANGED vars
  BY <1>2, <1>11 DEF vars
<1> QED BY <1>3, <1>4, <1>5, <1>6, <1>7, <1>8, <1>9, <1>10, <1>11 DEF Next, CompleteStop

(* A stop that has not completed has a step of its own, or the attempt or   *)
(* the release it waits for has one: no attempt holds out against it, in    *)
(* whatever phase it was caught (StopAsync, CompleteStopAsync).             *)
THEOREM StopNeverStuck == Spec => []StopGoesOn
<1>1. Init => StopWaitsInv
  BY DEF Init, StopWaitsInv
<1>2. IInv /\ StopWaitsInv => StopGoesOn
  <2> SUFFICES ASSUME IInv, StopWaitsInv PROVE StopGoesOn
    OBVIOUS
  <2>1. TypeOK
    BY DEF IInv
  <2>2. ASSUME stop.state = "joining", ~StartupEnded(stop.attempt)
        PROVE  stop.attempt \in Attempts /\ AttemptGoesOn(stop.attempt)
    <3>1. /\ stop.attempt \in Attempts /\ stop.attempt = begun
          /\ phase[stop.attempt] \in Phase \ {"unborn", "done"}
      BY <2>1, <2>2, MaxAttemptsAssumption DEF IInv, TypeOK, StopKeepsTrack, Numbered, StartupEnded
    <3>2. phase[stop.attempt] = "releasing" => release[stop.attempt] \in Release \ {"none"}
      BY <2>1, <3>1 DEF IInv, OwnersInPlace, TypeOK
    <3>3. cancelled[stop.attempt]
      BY <2>2 DEF StopWaitsInv, StartupEnded
    <3> QED BY <3>1, <3>2, <3>3 DEF AttemptGoesOn
  <2>3. ASSUME stop.state = "awaiting"
        PROVE  stop.owner \in Attempts /\ release[stop.owner] \in Release \ {"none"}
    BY <2>1, <2>3, MaxAttemptsAssumption DEF IInv, TypeOK, StopKeepsTrack, StopWaitsInv
  <2> QED BY <2>1, <2>2, <2>3 DEF StopGoesOn, AttemptGoesOn, TypeOK
<1> QED BY <1>1, <1>2, StopWaitsNext, Invariant, PTL DEF Spec

---------------------------------------------------------------------------
(***************************************************************************)
(* The launchers of the V1 plugin.  One version serves: the argument is    *)
(* about pairs.  Of two launchers that are starting or serve, one has      *)
(* still to tell the other to exit (Mutual).  It rests on where the task   *)
(* of a launcher can be in each status (TaskMatchesStatus), and on every   *)
(* launcher that ever started being among the loaded assemblies.           *)
(***************************************************************************)
HIDE DEF Attempts, None, Handle, Status, Phase, Release, Released, StopPhase

\* The launcher serves, or goes on to.
Alive(v) == launcherStatus[v] = "Starting" \/ (launcherStatus[v] = "Started" /\ host[v])

\* v has still to tell w to exit.
Pending(v, w) == task[v] = "queued" \/ (task[v] = "exiting" /\ w \in others[v])

TaskMatchesStatus ==
  \A v \in Versions :
    /\ launcherStatus[v] = "NotStarted" => task[v] = "none" /\ ~host[v]
    /\ launcherStatus[v] = "Starting" => task[v] \in {"queued", "exiting", "hosting", "publishing"}
    /\ launcherStatus[v] = "Started" => task[v] \in {"none", "started", "launching"}
    /\ task[v] = "unwinding" => launcherStatus[v] = "Stopped"
    /\ task[v] \in {"queued", "exiting", "hosting"} => ~host[v]
    /\ launcherStatus[v] = "Stopped" /\ host[v] => task[v] \in {"publishing", "unwinding"}
    /\ launcherStatus[v] # "NotStarted" => v \in loaded

CalledIsLoaded == \A c \in Calls : call[c].pc # "new" => call[c].ver \in loaded

Mutual ==
  \A v, w \in Versions :
    v # w /\ Alive(v) /\ Alive(w) => Pending(v, w) \/ Pending(w, v)

V1Inv == V1TypeOK /\ TaskMatchesStatus /\ CalledIsLoaded /\ Mutual

LEMMA InitV1Inv == V1Init => V1Inv
BY FaultsAssumption DEF V1Init, V1Inv, V1TypeOK, TaskMatchesStatus, CalledIsLoaded, Mutual, Alive, LauncherStatus, Tasks

\* A start adds its version to the loaded ones and may begin a task.
LEMMA CallSteps ==
  ASSUME V1Inv, NEW c \in Calls, StartCore(c) \/ Starts(c) \/ CallLaunches(c)
  PROVE  V1Inv'
<1>0. call[c].ver \in Versions
  BY DEF V1Inv, V1TypeOK
<1>1. CASE StartCore(c)
  <2>1. V1TypeOK'
    BY <1>0, <1>1 DEF StartCore, V1Inv, V1TypeOK
  <2>2. TaskMatchesStatus' /\ CalledIsLoaded' /\ Mutual'
    BY <1>0, <1>1 DEF StartCore, V1Inv, V1TypeOK, TaskMatchesStatus, CalledIsLoaded, Mutual, Alive, Pending
  <2> QED BY <2>1, <2>2 DEF V1Inv
<1>2. CASE Starts(c)
  <2>1. V1TypeOK'
    BY <1>0, <1>2 DEF Starts, V1Inv, V1TypeOK, LauncherStatus, Tasks
  <2>2. TaskMatchesStatus' /\ CalledIsLoaded'
    BY <1>0, <1>2 DEF Starts, V1Inv, V1TypeOK, TaskMatchesStatus, CalledIsLoaded
  <2>3. Mutual'
    BY <1>0, <1>2 DEF Starts, V1Inv, V1TypeOK, TaskMatchesStatus, CalledIsLoaded, Mutual, Alive, Pending
  <2> QED BY <2>1, <2>2, <2>3 DEF V1Inv
<1>3. CASE CallLaunches(c)
  <2>1. V1TypeOK'
    BY <1>0, <1>3 DEF CallLaunches, Launches, V1Inv, V1TypeOK
  <2>2. TaskMatchesStatus' /\ CalledIsLoaded' /\ Mutual'
    BY <1>3 DEF CallLaunches, V1Inv, V1TypeOK, TaskMatchesStatus, CalledIsLoaded, Mutual, Alive, Pending
  <2> QED BY <2>1, <2>2 DEF V1Inv
<1> QED BY <1>1, <1>2, <1>3

\* An exit, by the user, by Stop or by another version, leaves nobody alive that
\* was not.
LEMMA ExitSteps ==
  ASSUME V1Inv, NEW v \in Versions, Exit(v), v \in loaded \/ launcherStatus[v] = "NotStarted",
         UNCHANGED <<loaded, task, flag, call, unserved>>,
         others' \in [Versions -> SUBSET Versions],
         \A x \in Versions : others'[x] \subseteq others[x],
         \A x, w \in Versions : w \in others[x] \ others'[x] => w = v
  PROVE  V1Inv'
<1>1. V1TypeOK'
  BY FaultsAssumption DEF Exit, Exited, Fault, V1Inv, V1TypeOK, LauncherStatus
<1>2. TaskMatchesStatus' /\ CalledIsLoaded'
  BY DEF Exit, Exited, V1Inv, V1TypeOK, TaskMatchesStatus, CalledIsLoaded
<1>3. ~Alive(v)'
  BY DEF Exit, Exited, V1Inv, V1TypeOK, TaskMatchesStatus, CalledIsLoaded, Alive
<1>4. Mutual'
  BY <1>3 DEF Exit, Exited, V1Inv, V1TypeOK, Mutual, Alive, Pending
<1> QED BY <1>1, <1>2, <1>4 DEF V1Inv

LEMMA StopSteps ==
  ASSUME V1Inv, NEW v \in Versions, UserExits(v) \/ Stop(v)
  PROVE  V1Inv'
<1>1. Exit(v) /\ v \in loaded /\ UNCHANGED <<loaded, task, others, flag, call, unserved>>
  BY DEF UserExits, Stop, V1Inv, TaskMatchesStatus
<1>2. others \in [Versions -> SUBSET Versions]
  BY DEF V1Inv, V1TypeOK
<1> QED BY <1>1, <1>2, ExitSteps

LEMMA ExitOtherSteps ==
  ASSUME V1Inv, NEW v \in Versions, NEW w \in Versions, ExitOtherVersion(v, w)
  PROVE  V1Inv'
<1>1. /\ Exit(w) /\ UNCHANGED <<loaded, task, flag, call, unserved>>
      /\ w \in loaded \/ launcherStatus[w] = "NotStarted"
      /\ others' = [others EXCEPT ![v] = @ \ {w}]
  BY DEF ExitOtherVersion, V1Inv, V1TypeOK, TaskMatchesStatus
<1>2. /\ others' \in [Versions -> SUBSET Versions]
      /\ \A x \in Versions : others'[x] \subseteq others[x]
      /\ \A x, y \in Versions : y \in others[x] \ others'[x] => y = w
  BY <1>1 DEF V1Inv, V1TypeOK
<1> QED BY <1>1, <1>2, ExitSteps

\* The other steps of a task.
LEMMA TaskSteps ==
  ASSUME V1Inv, NEW v \in Versions,
         \/ GetRunningPluginAssemblies(v) \/ ShouldStartHost(v) \/ HostStarted(v) \/ PublishStatus(v)
         \/ UnwindHost(v) \/ LaunchIfRequested(v) \/ TaskLaunches(v) \/ StartFails(v)
  PROVE  V1Inv'
<1>1. CASE GetRunningPluginAssemblies(v)
  BY <1>1 DEF GetRunningPluginAssemblies, V1Inv, V1TypeOK, Tasks, TaskMatchesStatus, CalledIsLoaded, Mutual, Alive, Pending
<1>2. CASE ShouldStartHost(v)
  BY <1>2 DEF ShouldStartHost, V1Inv, V1TypeOK, Tasks, TaskMatchesStatus, CalledIsLoaded, Mutual, Alive, Pending
<1>3. CASE HostStarted(v)
  BY <1>3 DEF HostStarted, V1Inv, V1TypeOK, Tasks, TaskMatchesStatus, CalledIsLoaded, Mutual, Alive, Pending
<1>4. CASE PublishStatus(v)
  BY <1>4 DEF PublishStatus, StatusAfterStart, ExitedWhileStarting, V1Inv, V1TypeOK, Tasks, LauncherStatus, TaskMatchesStatus, CalledIsLoaded, Mutual, Alive, Pending
<1>5. CASE UnwindHost(v)
  BY <1>5 DEF UnwindHost, V1Inv, V1TypeOK, Tasks, TaskMatchesStatus, CalledIsLoaded, Mutual, Alive, Pending
<1>6. CASE LaunchIfRequested(v)
  BY <1>6 DEF LaunchIfRequested, Requested, V1Inv, V1TypeOK, Tasks, TaskMatchesStatus, CalledIsLoaded, Mutual, Alive, Pending
<1>7. CASE TaskLaunches(v)
  BY <1>7 DEF TaskLaunches, Launches, V1Inv, V1TypeOK, Tasks, TaskMatchesStatus, CalledIsLoaded, Mutual, Alive, Pending
<1>8. CASE StartFails(v)
  BY <1>8, FaultsAssumption
     DEF StartFails, Fault, V1Inv, V1TypeOK, Tasks, LauncherStatus, TaskMatchesStatus, CalledIsLoaded, Mutual, Alive, Pending
<1> QED BY <1>1, <1>2, <1>3, <1>4, <1>5, <1>6, <1>7, <1>8

LEMMA NextV1Inv == V1Inv /\ [V1Next]_v1Vars => V1Inv'
<1> SUFFICES ASSUME V1Inv, [V1Next]_v1Vars PROVE V1Inv'
  OBVIOUS
<1>1. CASE UNCHANGED v1Vars
  BY <1>1 DEF v1Vars, V1Inv, V1TypeOK, TaskMatchesStatus, CalledIsLoaded, Mutual, Alive, Pending
<1>2. CASE V1Next
  BY <1>2, CallSteps, StopSteps, ExitOtherSteps, TaskSteps DEF V1Next, Runs
<1> QED BY <1>1, <1>2

\* The inductive invariant.
THEOREM V1Invariant == V1Spec => []V1Inv
BY InitV1Inv, NextV1Inv, PTL DEF V1Spec

\* For any number of versions that are started, stopped and told to exit at any
\* moment, two hosts take clients together only while one is about to go.
THEOREM OneVersion == V1Spec => []OneVersionServes
<1>1. V1Inv => OneVersionServes
  BY DEF V1Inv, TaskMatchesStatus, CalledIsLoaded, Mutual, Alive, Pending, OneVersionServes, V1TypeOK, LauncherStatus
<1> QED BY <1>1, V1Invariant, PTL

\* A host that is up has a launcher that serves with it, or a task that will.
THEOREM NoOrphanHost == V1Spec => []HostHasItsLauncher
<1>1. V1Inv => HostHasItsLauncher
  BY DEF V1Inv, TaskMatchesStatus, CalledIsLoaded, V1TypeOK, LauncherStatus, HostHasItsLauncher
<1> QED BY <1>1, V1Invariant, PTL

---------------------------------------------------------------------------
(* Nobody's request for QuickerAgent is lost: the safety half of            *)
(* LaunchIsHonoured.  A request is noted before the lock is taken, seen and *)
(* cleared outside it, and may be taken over by another's launch.           *)

\* Who will look at the flag of a launcher that has started.
Carried(c) ==
  \/ call[c].pc = "asked"
  \/ task[call[c].ver] \in {"started", "launching"}
  \/ \E d \in Calls : call[d].ver = call[c].ver /\ call[d].pc = "launching"

RequestsAreCarried ==
  \A c \in unserved :
    /\ call[c].pc # "new" /\ flag[call[c].ver]
    /\ launcherStatus[call[c].ver] = "Starting" =>
         task[call[c].ver] \in {"queued", "exiting", "hosting", "publishing"}
    /\ launcherStatus[call[c].ver] = "Started" => Carried(c)

LEMMA CallsCarry ==
  ASSUME V1Inv, RequestsAreCarried, NEW c \in Calls,
         StartCore(c) \/ Starts(c) \/ CallLaunches(c)
  PROVE  RequestsAreCarried'
<1>1. V1TypeOK /\ call[c].ver \in Versions /\ \A d \in unserved : d \in Calls /\ call[d].ver \in Versions
  BY DEF V1Inv, V1TypeOK
<1>2. /\ call'[c].ver = call[c].ver
      /\ \A d \in Calls : d # c => call'[d] = call[d]
  BY <1>1 DEF StartCore, Starts, CallLaunches, V1TypeOK
<1>3. CASE StartCore(c)
  <2>1. call'[c].pc = "asked" /\ call[c].pc = "new"
    BY <1>1, <1>3 DEF StartCore, V1TypeOK
  <2>2. \A d \in unserved' : d = c \/ (d \in unserved /\ d # c)
    BY <1>3, <2>1 DEF StartCore, RequestsAreCarried
  <2>3. c \in unserved' => call[c].agent
    BY <1>3, <2>1 DEF StartCore, RequestsAreCarried
  <2> QED BY <1>1, <1>2, <1>3, <2>1, <2>2, <2>3
          DEF StartCore, RequestsAreCarried, Carried, V1TypeOK, V1Inv, TaskMatchesStatus
<1>4. CASE Starts(c)
  <2>1. call'[c].pc = IF launcherStatus[call[c].ver] = "Started" /\ flag[call[c].ver] THEN "launching" ELSE "done"
    BY <1>1, <1>4 DEF Starts, V1TypeOK
  <2> SUFFICES ASSUME NEW d \in unserved
               PROVE  /\ call'[d].pc # "new" /\ flag'[call'[d].ver]
                      /\ launcherStatus'[call'[d].ver] = "Starting" =>
                           task'[call'[d].ver] \in {"queued", "exiting", "hosting", "publishing"}
                      /\ launcherStatus'[call'[d].ver] = "Started" => Carried(d)'
    BY <1>4 DEF Starts, RequestsAreCarried
  <2>2. call'[d].ver = call[d].ver /\ call'[d].pc # "new" /\ flag'[call'[d].ver]
    BY <1>1, <1>2, <1>4, <2>1 DEF Starts, RequestsAreCarried
  <2>3. launcherStatus'[call[d].ver] = "Starting" =>
          task'[call[d].ver] \in {"queued", "exiting", "hosting", "publishing"}
    BY <1>1, <1>4 DEF Starts, RequestsAreCarried, V1TypeOK
  <2>4. launcherStatus'[call[d].ver] = "Started" => Carried(d)'
    <3> SUFFICES ASSUME launcherStatus'[call[d].ver] = "Started" PROVE Carried(d)'
      OBVIOUS
    <3>1. launcherStatus[call[d].ver] = "Started" /\ task'[call[d].ver] = task[call[d].ver]
      BY <1>1, <1>4 DEF Starts, V1TypeOK
    <3>2. CASE d = c
      BY <1>2, <2>1, <2>2, <3>1, <3>2 DEF Carried, RequestsAreCarried
    <3>3. CASE d # c
      BY <1>1, <1>2, <1>4, <2>2, <3>1, <3>3 DEF Carried, RequestsAreCarried, Starts
    <3> QED BY <3>2, <3>3
  <2> QED BY <2>2, <2>3, <2>4
<1>5. CASE CallLaunches(c)
  <2>1. unserved' \subseteq unserved /\ \A d \in unserved' : call[d].ver # call[c].ver
    BY <1>5 DEF CallLaunches, Launches
  <2> QED BY <1>1, <1>2, <1>5, <2>1 DEF CallLaunches, Launches, RequestsAreCarried, Carried, V1TypeOK
<1> QED BY <1>3, <1>4, <1>5

LEMMA LaunchersCarry ==
  ASSUME V1Inv, RequestsAreCarried, NEW v \in Versions, Runs(v) \/ StartFails(v) \/ UserExits(v) \/ Stop(v)
  PROVE  RequestsAreCarried'
<1>1. /\ V1TypeOK /\ TaskMatchesStatus /\ UNCHANGED call
      /\ \A d \in unserved : d \in Calls /\ call[d].ver \in Versions
  BY DEF V1Inv, V1TypeOK, Runs, GetRunningPluginAssemblies, ExitOtherVersion, ShouldStartHost, HostStarted,
         PublishStatus, UnwindHost, LaunchIfRequested, TaskLaunches, StartFails, UserExits, Stop
<1>2. ASSUME NEW w \in Versions, Exit(w), UNCHANGED <<task, flag, unserved>> PROVE RequestsAreCarried'
  <2>1. \A x \in Versions : launcherStatus'[x] \in {launcherStatus[x], "Stopped"}
    BY <1>1, <1>2 DEF Exit, Exited, V1TypeOK
  <2> QED BY <1>1, <1>2, <2>1 DEF RequestsAreCarried, Carried
<1>3. CASE UserExits(v) \/ Stop(v)
  BY <1>2, <1>3 DEF UserExits, Stop
<1>4. CASE \E w \in Versions : ExitOtherVersion(v, w)
  BY <1>2, <1>4 DEF ExitOtherVersion
<1> USE DEF RequestsAreCarried, Carried, V1TypeOK, TaskMatchesStatus
<1>5. CASE GetRunningPluginAssemblies(v) \/ ShouldStartHost(v) \/ HostStarted(v) \/ UnwindHost(v)
  BY <1>1, <1>5 DEF GetRunningPluginAssemblies, ShouldStartHost, HostStarted, UnwindHost
<1>6. CASE PublishStatus(v)
  BY <1>1, <1>6 DEF PublishStatus, StatusAfterStart, ExitedWhileStarting
<1>7. CASE LaunchIfRequested(v)
  BY <1>1, <1>7 DEF LaunchIfRequested, Requested
<1>8. CASE TaskLaunches(v)
  BY <1>1, <1>8 DEF TaskLaunches, Launches
<1>9. CASE StartFails(v)
  BY <1>1, <1>9 DEF StartFails
<1> QED BY <1>3, <1>4, <1>5, <1>6, <1>7, <1>8, <1>9 DEF Runs

\* A request for QuickerAgent is never forgotten by a launcher that starts or
\* has started: the flag is up, and a task or a call has still to look at it
\* (TryLaunchQuickerAgentIfRequested).
THEOREM NoRequestIsForgotten == V1Spec => []RequestsAreCarried
<1>1. V1Init => RequestsAreCarried
  BY DEF V1Init, RequestsAreCarried
<1>2. V1Inv /\ RequestsAreCarried /\ [V1Next]_v1Vars => RequestsAreCarried'
  <2> SUFFICES ASSUME V1Inv, RequestsAreCarried, [V1Next]_v1Vars PROVE RequestsAreCarried'
    OBVIOUS
  <2>1. CASE UNCHANGED v1Vars
    BY <2>1 DEF v1Vars, RequestsAreCarried, Carried
  <2> QED BY <2>1, CallsCarry, LaunchersCarry DEF V1Next
<1> QED BY <1>1, <1>2, V1Invariant, PTL DEF V1Spec
===============================================================================
