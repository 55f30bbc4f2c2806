---------------------- MODULE SourceDocumentOwnerProofs ----------------------
(***************************************************************************)
(* Ownership of source bundles, for any number of calls, bundles and       *)
(* targets and any overlap between them.                                   *)
(*                                                                         *)
(* The invariant says who may be past the promise chain (the first of the  *)
(* queue, InsideIsFirst), what a call in each phase asked for (Asked), and *)
(* that the lease map and the claims agree (OpenKeepsLease together with   *)
(* LeasesHaveOwners).  With it a step that sets a lease cannot meet a      *)
(* writer inside, and a step that lets a writer in sees every lease.       *)
(***************************************************************************)
EXTENDS SourceDocumentOwner, TLAPS

InsideIsFirst == \A c \in Calls : phase[c] \in Inside => AtHead(c)

Asked ==
  \A c \in Calls :
    /\ phase[c] \in {"inspecting", "held", "released"} => request[c] \in Claims
    /\ phase[c] = "running" => request[c] \in Operations
    /\ phase[c] = "dispatched" => request[c] \in Operations \cup Writes
    /\ phase[c] # "unmade" => request[c] \in Requests

OpenKeepsLease ==
  \A c \in Calls :
    phase[c] \in {"inspecting", "held"} => leases[request[c].dir] = c

IInv ==
  /\ TypeOK
  /\ InsideIsFirst
  /\ Asked
  /\ OpenKeepsLease
  /\ LeasesHaveOwners
  /\ LeasesAreDisjoint
  /\ WritersAreAlone

\* One call at a time is past the chain, and it is the first of the queue.
OneInside ==
  \A c, d \in Calls : phase[c] \in Inside /\ phase[d] \in Inside => c = d

LEMMA OnlyOneInside == IInv => OneInside
  BY DEF IInv, InsideIsFirst, OneInside, AtHead

LEMMA InitHolds == Init => IInv
<1> SUFFICES ASSUME Init PROVE IInv
  OBVIOUS
<1> USE DEF Init
<1>1. TypeOK
  BY DEF TypeOK, Phases, Inside
<1>2. InsideIsFirst /\ Asked /\ OpenKeepsLease
  BY DEF InsideIsFirst, Inside, Asked, OpenKeepsLease
<1>3. LeasesHaveOwners /\ LeasesAreDisjoint
  BY DEF LeasesHaveOwners, LeasesAreDisjoint, Held
<1>4. WritersAreAlone
  BY DEF WritersAreAlone
<1> QED BY <1>1, <1>2, <1>3, <1>4 DEF IInv

(* A call that leaves the chain without a lease takes nothing with it.      *)
LEMMA FailPreserves ==
  ASSUME IInv, NEW c \in Calls, phase[c] \in {"queued", "resolving", "running", "dispatched"},
         AtHead(c), Fail(c), UNCHANGED <<request, aborted>>
  PROVE  IInv'
<1> USE DEF IInv, Fail, PassOn
<1>1. TypeOK'
  BY DEF TypeOK, Phases, Inside, AtHead
<1>2. InsideIsFirst'
  <2> SUFFICES ASSUME NEW d \in Calls, phase'[d] \in Inside PROVE FALSE
    BY DEF InsideIsFirst
  <2>1. d # c /\ phase[d] \in Inside
    BY DEF TypeOK, Inside
  <2> QED BY <2>1 DEF InsideIsFirst, AtHead
<1>3. Asked'
  BY DEF Asked, TypeOK
<1>4. OpenKeepsLease'
  BY DEF OpenKeepsLease, TypeOK
<1>5. LeasesHaveOwners'
  BY DEF LeasesHaveOwners, TypeOK, Held
<1>6. LeasesAreDisjoint'
  BY DEF LeasesAreDisjoint, Held
<1>7. WritersAreAlone'
  BY DEF WritersAreAlone, TypeOK, Held
<1> QED BY <1>1, <1>2, <1>3, <1>4, <1>5, <1>6, <1>7

LEMMA MakePreserves ==
  ASSUME IInv, NEW c \in Calls, NEW r \in Requests, Make(c, r)
  PROVE  IInv'
<1> USE NobodyAssumption DEF IInv, Make
<1>1. TypeOK'
  <2>1. r # Nobody
    OBVIOUS
  <2> QED BY <2>1 DEF TypeOK, Phases, Inside
<1>2. InsideIsFirst'
  BY DEF InsideIsFirst, TypeOK, Inside, AtHead
<1>3. Asked'
  BY DEF Asked, TypeOK
<1>4. OpenKeepsLease'
  BY DEF OpenKeepsLease, TypeOK
<1>5. LeasesHaveOwners'
  BY DEF LeasesHaveOwners, TypeOK, Held
<1>6. LeasesAreDisjoint'
  BY DEF LeasesAreDisjoint, Held
<1>7. WritersAreAlone'
  BY DEF WritersAreAlone, TypeOK, Held
<1> QED BY <1>1, <1>2, <1>3, <1>4, <1>5, <1>6, <1>7

LEMMA AbortPreserves ==
  ASSUME IInv, NEW c \in Calls, Abort(c)
  PROVE  IInv'
<1> USE DEF IInv, Abort
<1>1. TypeOK' /\ InsideIsFirst' /\ Asked' /\ OpenKeepsLease'
  BY DEF TypeOK, InsideIsFirst, AtHead, Asked, OpenKeepsLease
<1>2. LeasesHaveOwners' /\ LeasesAreDisjoint' /\ WritersAreAlone'
  BY DEF LeasesHaveOwners, LeasesAreDisjoint, WritersAreAlone, Held
<1> QED BY <1>1, <1>2

(* A call that stays inside moves on without touching queue or leases.      *)
LEMMA AdvancePreserves ==
  ASSUME IInv, NEW c \in Calls, AtHead(c),
         NEW from \in {"queued", "resolving", "running"}, phase[c] = from,
         NEW to \in {"resolving", "running", "dispatched"},
         phase' = [phase EXCEPT ![c] = to],
         UNCHANGED <<queue, leases, request, aborted>>,
         to = "running" => request[c] \in Operations,
         to = "dispatched" =>
           \/ request[c] \in Operations /\ IsCurrent(c)
           \/ request[c] \in Writes /\ MayWrite(request[c].path)
  PROVE  IInv'
<1> USE DEF IInv
<1>1. TypeOK'
  BY DEF TypeOK, Phases, Inside
<1>2. InsideIsFirst'
  BY DEF InsideIsFirst, TypeOK, AtHead
<1>3. Asked'
  BY DEF Asked, TypeOK
<1>4. OpenKeepsLease'
  BY DEF OpenKeepsLease, TypeOK
<1>5. LeasesHaveOwners'
  BY DEF LeasesHaveOwners, TypeOK, Held
<1>6. LeasesAreDisjoint'
  BY DEF LeasesAreDisjoint, Held
<1>7. WritersAreAlone'
  <2> SUFFICES ASSUME NEW x \in Calls, phase'[x] = "dispatched",
                      NEW d \in Directories, Held(d)
               PROVE  IF request[x].kind = "write"
                        THEN <<d, request[x].path>> \notin Covers
                        ELSE <<d, request[x].dir>> \in Overlaps
                               => leases[d] = request[x].token
    BY DEF WritersAreAlone, Held
  <2>1. CASE x # c
    BY <2>1 DEF WritersAreAlone, TypeOK
  <2>2. CASE x = c /\ request[c] \in Operations
    <3>1. request[c].kind = "operate" /\ request[c].dir \in Directories
          /\ request[c].token \in Calls
      BY <2>2 DEF Operations
    <3>2. leases[request[c].dir] = request[c].token
      BY <2>2, <3>1 DEF IsCurrent, TypeOK, Writes
    <3>3. Held(request[c].dir)
      BY <3>1, <3>2, NobodyAssumption DEF Held
    <3> QED BY <2>2, <3>1, <3>2, <3>3 DEF LeasesAreDisjoint
  <2>3. CASE x = c /\ request[c] \in Writes
    BY <2>3 DEF Writes, Operations, MayWrite, TypeOK
  <2> QED BY <2>1, <2>2, <2>3 DEF TypeOK
<1> QED BY <1>1, <1>2, <1>3, <1>4, <1>5, <1>6, <1>7

(* The one step that sets a lease: nobody else is inside, and the bundle    *)
(* overlaps none that is open.                                             *)
LEMMA ClaimPreserves ==
  ASSUME IInv, NEW c \in Calls, phase[c] = "resolving", request[c] \in Claims,
         MayClaim(request[c].dir),
         leases' = [leases EXCEPT ![request[c].dir] = c],
         phase' = [phase EXCEPT ![c] = "inspecting"],
         UNCHANGED <<queue, request, aborted>>
  PROVE  IInv'
<1> USE NobodyAssumption DEF IInv
<1> DEFINE dir == request[c].dir
<1>0. dir \in Directories /\ ~Held(dir)
  BY OverlapsAssumption DEF Claims, MayClaim
<1>1. TypeOK'
  BY <1>0 DEF TypeOK, Phases, Inside
<1>2. InsideIsFirst'
  BY DEF InsideIsFirst, TypeOK, Inside, AtHead
<1>3. Asked'
  BY DEF Asked, TypeOK
<1>4. OpenKeepsLease'
  BY <1>0 DEF OpenKeepsLease, TypeOK, Held
<1>5. LeasesHaveOwners'
  BY <1>0 DEF LeasesHaveOwners, TypeOK, Held, Claims
<1>6. LeasesAreDisjoint'
  BY <1>0, OverlapsAssumption DEF LeasesAreDisjoint, TypeOK, Held, MayClaim
<1>7. WritersAreAlone'
  <2>1. \A x \in Calls : phase'[x] # "dispatched"
    BY OnlyOneInside DEF OneInside, Inside, TypeOK
  <2> QED BY <2>1 DEF WritersAreAlone
<1> QED BY <1>1, <1>2, <1>3, <1>4, <1>5, <1>6, <1>7

(* release() clears the lease of its own claim and no other.                *)
LEMMA ReleasePreserves ==
  ASSUME IInv, NEW c \in Calls, NEW to \in {"released", "done"},
         IF to = "released" THEN Known(c) /\ UNCHANGED queue
                            ELSE phase[c] = "inspecting" /\ PassOn,
         leases' = Without(c),
         phase' = [phase EXCEPT ![c] = to],
         UNCHANGED <<request, aborted>>
  PROVE  IInv'
<1> USE NobodyAssumption DEF IInv, Known
<1> DEFINE dir == request[c].dir
<1>0. request[c] \in Claims /\ dir \in Directories
  BY DEF Asked, Claims
<1>a. \A d \in Directories :
        leases'[d] = IF d = dir /\ leases[d] = c THEN Nobody ELSE leases[d]
  BY <1>0 DEF Without, TypeOK
<1>b. \A x \in Calls : phase'[x] = IF x = c THEN to ELSE phase[x]
  BY DEF TypeOK
<1>1. TypeOK'
  <2>1. leases' \in [Directories -> Calls \cup {Nobody}]
    BY <1>0 DEF Without, TypeOK
  <2>2. queue' \in Seq(Calls)
    <3>1. CASE to = "released"
      BY <3>1 DEF TypeOK
    <3>2. CASE to = "done"
      <4>1. queue # <<>> /\ queue' = Tail(queue)
        BY <3>2 DEF PassOn, InsideIsFirst, Inside, AtHead
      <4> QED BY <4>1 DEF TypeOK
    <3> QED BY <3>1, <3>2
  <2> QED BY <1>b, <2>1, <2>2 DEF TypeOK, Phases, Inside
<1>2. InsideIsFirst'
  <2> SUFFICES ASSUME NEW d \in Calls, phase'[d] \in Inside PROVE AtHead(d)'
    BY DEF InsideIsFirst
  <2>1. d # c /\ phase[d] \in Inside
    BY <1>b DEF Inside
  <2>2. phase[c] # "inspecting"
    BY <2>1, OnlyOneInside DEF OneInside, Inside
  <2> QED BY <2>1, <2>2 DEF InsideIsFirst, AtHead
<1>3. Asked'
  BY <1>0, <1>b DEF Asked, TypeOK
<1>4. OpenKeepsLease'
  <2> SUFFICES ASSUME NEW x \in Calls, phase'[x] \in {"inspecting", "held"}
               PROVE  leases'[request[x].dir] = x
    BY DEF OpenKeepsLease
  <2>1. x # c /\ leases[request[x].dir] = x
    BY <1>b DEF OpenKeepsLease
  <2>2. request[x].dir \in Directories
    BY <1>b, <2>1 DEF Asked, Claims
  <2> QED BY <2>1, <2>2, <1>a
<1>5. LeasesHaveOwners'
  <2> SUFFICES ASSUME NEW d \in Directories, leases'[d] # Nobody
               PROVE  /\ request[leases'[d]] = [kind |-> "claim", dir |-> d]
                      /\ phase'[leases'[d]] \in {"inspecting", "held"}
    BY DEF LeasesHaveOwners, Held
  <2>1. leases'[d] = leases[d] /\ leases[d] \in Calls
    BY <1>a DEF TypeOK
  <2>2. /\ request[leases[d]] = [kind |-> "claim", dir |-> d]
        /\ phase[leases[d]] \in {"inspecting", "held"}
    BY <2>1 DEF LeasesHaveOwners, Held
  <2>3. leases[d] # c
    BY <2>1, <2>2, <1>a
  <2> QED BY <2>1, <2>2, <2>3, <1>b
<1>6. LeasesAreDisjoint'
  BY <1>a DEF LeasesAreDisjoint, Held
<1>7. WritersAreAlone'
  BY <1>a, <1>b DEF WritersAreAlone, Held
<1> QED BY <1>1, <1>2, <1>3, <1>4, <1>5, <1>6, <1>7

(* A claim that was inspected keeps its lease and leaves the chain.         *)
LEMMA OpenedPreserves ==
  ASSUME IInv, NEW c \in Calls, phase[c] = "inspecting", PassOn,
         phase' = [phase EXCEPT ![c] = "held"],
         UNCHANGED <<leases, request, aborted>>
  PROVE  IInv'
<1> USE DEF IInv, PassOn
<1>0. AtHead(c)
  BY DEF InsideIsFirst, Inside
<1>1. TypeOK'
  BY <1>0 DEF TypeOK, Phases, Inside, AtHead
<1>2. InsideIsFirst'
  <2> SUFFICES ASSUME NEW d \in Calls, phase'[d] \in Inside PROVE FALSE
    BY DEF InsideIsFirst
  <2>1. d # c /\ phase[d] \in Inside
    BY DEF TypeOK, Inside
  <2> QED BY <1>0, <2>1 DEF InsideIsFirst, AtHead
<1>3. Asked'
  BY DEF Asked, TypeOK
<1>4. OpenKeepsLease'
  BY DEF OpenKeepsLease, TypeOK
<1>5. LeasesHaveOwners'
  BY DEF LeasesHaveOwners, TypeOK, Held
<1>6. LeasesAreDisjoint' /\ WritersAreAlone'
  BY DEF LeasesAreDisjoint, WritersAreAlone, TypeOK, Held
<1> QED BY <1>1, <1>2, <1>3, <1>4, <1>5, <1>6

LEMMA RunPreserves ==
  ASSUME IInv, NEW c \in Calls, Run(c)
  PROVE  IInv'
<1> USE DEF Inside
<1>1. CASE Turn(c)
  <2>1. CASE aborted[c]
    BY <1>1, <2>1, FailPreserves DEF Turn
  <2>2. CASE ~aborted[c]
    BY <1>1, <2>2, AdvancePreserves DEF Turn
  <2> QED BY <2>1, <2>2
<1>2. CASE ResolveFails(c)
  BY <1>2, FailPreserves DEF ResolveFails, IInv, InsideIsFirst
<1> DEFINE Asks(kind) == request[c].kind = kind
<1>3. phase[c] = "resolving" =>
        /\ AtHead(c)
        /\ Asks("claim") => request[c] \in Claims
        /\ Asks("operate") => request[c] \in Operations
        /\ Asks("write") => request[c] \in Writes
  BY DEF IInv, InsideIsFirst, Asked, Requests, Claims, Operations, Writes
<1>4. CASE Claim(c)
  <2>1. CASE aborted[c] \/ ~MayClaim(request[c].dir)
    BY <1>3, <1>4, <2>1, FailPreserves DEF Claim
  <2>2. CASE ~(aborted[c] \/ ~MayClaim(request[c].dir))
    BY <1>3, <1>4, <2>2, ClaimPreserves DEF Claim
  <2> QED BY <2>1, <2>2
<1>5. CASE Inspected(c)
  <2>1. CASE phase' = [phase EXCEPT ![c] = "held"] /\ UNCHANGED leases
    BY <1>5, <2>1, OpenedPreserves DEF Inspected
  <2>2. CASE phase' = [phase EXCEPT ![c] = "done"] /\ leases' = Without(c)
    BY <1>5, <2>2, ReleasePreserves DEF Inspected
  <2> QED BY <1>5, <2>1, <2>2 DEF Inspected
<1>6. CASE Operate(c)
  <2>1. CASE aborted[c] \/ ~IsCurrent(c)
    BY <1>3, <1>6, <2>1, FailPreserves DEF Operate
  <2>2. CASE ~(aborted[c] \/ ~IsCurrent(c))
    BY <1>3, <1>6, <2>2, AdvancePreserves DEF Operate
  <2> QED BY <2>1, <2>2
<1>7. CASE Dispatch(c)
  <2>1. phase[c] = "running" /\ AtHead(c) /\ request[c] \in Operations
    BY <1>7 DEF Dispatch, IInv, InsideIsFirst, Asked
  <2>2. CASE MayDispatch(c)
    BY <1>7, <2>1, <2>2, AdvancePreserves DEF Dispatch, MayDispatch
  <2>3. CASE ~MayDispatch(c)
    BY <1>7, <2>1, <2>3, FailPreserves DEF Dispatch
  <2> QED BY <2>2, <2>3
<1>8. CASE Write(c)
  <2>1. CASE aborted[c] \/ ~MayWrite(request[c].path)
    BY <1>3, <1>8, <2>1, FailPreserves DEF Write
  <2>2. CASE ~(aborted[c] \/ ~MayWrite(request[c].path))
    BY <1>3, <1>8, <2>2, AdvancePreserves DEF Write
  <2> QED BY <2>1, <2>2
<1>9. CASE Ends(c)
  BY <1>9, FailPreserves DEF Ends, IInv, InsideIsFirst
<1> QED BY <1>1, <1>2, <1>4, <1>5, <1>6, <1>7, <1>8, <1>9 DEF Run

(* Every reachable state has its leases and its writers in order.           *)
THEOREM Invariant == Spec => []IInv
<1>1. IInv /\ [Next]_vars => IInv'
  <2> SUFFICES ASSUME IInv, [Next]_vars PROVE IInv'
    OBVIOUS
  <2>1. ASSUME NEW c \in Calls, NEW r \in Requests, Make(c, r) PROVE IInv'
    BY <2>1, MakePreserves
  <2>2. ASSUME NEW c \in Calls, Abort(c) PROVE IInv'
    BY <2>2, AbortPreserves
  <2>3. ASSUME NEW c \in Calls, Run(c) PROVE IInv'
    BY <2>3, RunPreserves
  <2>4. ASSUME NEW c \in Calls, Release(c) PROVE IInv'
    BY <2>4, ReleasePreserves DEF Release
  <2>5. CASE UNCHANGED vars
    BY <2>5 DEF vars, IInv, TypeOK, InsideIsFirst, AtHead, Asked, OpenKeepsLease,
      LeasesHaveOwners, LeasesAreDisjoint, WritersAreAlone, Held
  <2> QED BY <2>1, <2>2, <2>3, <2>4, <2>5 DEF Next
<1> QED BY <1>1, InitHolds, PTL DEF Spec

(* Two bundles that are open in the designer never overlap, whatever the    *)
(* order in which they were opened, closed and cancelled.                  *)
THEOREM OpenBundlesAreDisjoint == Spec => []LeasesAreDisjoint
  BY Invariant, PTL DEF IInv

(* A save, sync or file write that is inside never has somebody else's open *)
(* bundle under it, even when its own owner closed the document meanwhile. *)
THEOREM NobodyWritesIntoAnother == Spec => []WritersAreAlone
  BY Invariant, PTL DEF IInv

(* Every lease has its document, and an open document holds its lease until *)
(* it is released itself.                                                   *)
THEOREM OpenDocumentsKeepTheirLease == Spec => []LeasesMatchClaims
<1>1. IInv => LeasesMatchClaims
  BY DEF IInv, OpenKeepsLease, LeasesMatchClaims, OpenKeepsItsLease
<1> QED BY <1>1, Invariant, PTL

(* What was accepted for a document that is closed by now, or by a call     *)
(* that is cancelled by now, is not dispatched.                            *)
THEOREM StaleCallsDispatchNothing == Spec => StaleDispatchesNothing
<1>1. IInv /\ [Next]_vars =>
        [\A c \in Calls :
           phase[c] = "running" /\ phase'[c] = "dispatched"
             => ~aborted[c] /\ phase[request[c].token] = "held"]_vars
  <2> SUFFICES ASSUME IInv, [Next]_vars, NEW c \in Calls,
                      phase[c] = "running", phase'[c] = "dispatched"
               PROVE  ~aborted[c] /\ phase[request[c].token] = "held"
    OBVIOUS
  <2>1. MayDispatch(c)
    <3> USE DEF IInv, TypeOK
    <3>1. CASE Dispatch(c)
      BY <3>1 DEF Dispatch, Fail
    <3>2. ASSUME NEW d \in Calls, NEW r \in Requests, Make(d, r) PROVE FALSE
      BY <3>2 DEF Make
    <3>3. ASSUME NEW d \in Calls, Abort(d) \/ Release(d) PROVE FALSE
      BY <3>3 DEF Abort, Release, Known
    <3>4. ASSUME NEW d \in Calls, Turn(d) \/ ResolveFails(d) \/ Claim(d) PROVE FALSE
      BY <3>4 DEF Turn, ResolveFails, Claim, Fail
    <3>5. ASSUME NEW d \in Calls, Inspected(d) \/ Operate(d) \/ Write(d) \/ Ends(d)
          PROVE  FALSE
      BY <3>5 DEF Inspected, Operate, Write, Ends, Fail
    <3>6. ASSUME NEW d \in Calls, Dispatch(d) PROVE d = c
      BY <3>6 DEF Dispatch, Fail
    <3>7. CASE UNCHANGED vars
      BY <3>7 DEF vars
    <3> QED BY <3>1, <3>2, <3>3, <3>4, <3>5, <3>6, <3>7 DEF Next, Run
  <2>2. request[c] \in Operations
    BY DEF IInv, Asked
  <2>3. /\ request[c].dir \in Directories /\ request[c].token \in Calls
        /\ leases[request[c].dir] = request[c].token
    BY <2>1, <2>2 DEF MayDispatch, IsCurrent, Operations
  <2>4. phase[request[c].token] \in {"inspecting", "held"}
    BY <2>3, NobodyAssumption DEF IInv, LeasesHaveOwners, Held
  <2>5. phase[request[c].token] # "inspecting"
    BY <2>3, OnlyOneInside DEF OneInside, Inside
  <2> QED BY <2>1, <2>4, <2>5 DEF MayDispatch
<1> QED BY <1>1, Invariant, PTL DEF Spec, StaleDispatchesNothing

-----------------------------------------------------------------------------
(* Nobody waits for good, as far as it is safety: the queue is exactly the  *)
(* calls without an answer, each once, so a call that waits always finds a  *)
(* first one that has a step of its own to take.                            *)

Waiting == Inside \cup {"queued"}

QueueIsWaiters ==
  /\ \A i \in DOMAIN queue : phase[queue[i]] \in Waiting
  /\ \A i, j \in DOMAIN queue : queue[i] = queue[j] => i = j
  /\ \A c \in Calls : phase[c] \in Waiting => \E i \in DOMAIN queue : queue[i] = c

\* By the guards of Turn, ResolveFails, Inspected and Ends: what they await ends.
HeadGoesOn ==
  \E c \in Calls :
    AtHead(c) /\ phase[c] \in {"queued", "resolving", "inspecting", "running", "dispatched"}

WaitersAreServed ==
  /\ QueueIsWaiters
  /\ (\E c \in Calls : phase[c] \in Waiting) => HeadGoesOn

(* What the three kinds of step do to the queue.                            *)
LEMMA QueueAppends ==
  ASSUME TypeOK, QueueIsWaiters, NEW c \in Calls, NEW r \in Requests, Make(c, r)
  PROVE  QueueIsWaiters'
<1>1. /\ queue \in Seq(Calls) /\ phase[c] \notin Waiting
      /\ phase'[c] = "queued" /\ \A d \in Calls \ {c} : phase'[d] = phase[d]
  BY DEF Make, TypeOK, Waiting, Inside
<1>2. /\ Len(queue) \in Nat /\ DOMAIN queue = 1 .. Len(queue)
      /\ DOMAIN queue' = 1 .. (Len(queue) + 1)
      /\ queue'[Len(queue) + 1] = c
      /\ \A i \in DOMAIN queue : queue'[i] = queue[i] /\ queue[i] \in Calls \ {c}
  BY <1>1 DEF Make, QueueIsWaiters
<1>3. \A i \in DOMAIN queue' : i \in DOMAIN queue \/ i = Len(queue) + 1
  BY <1>2
<1>4. \A i \in DOMAIN queue' : phase'[queue'[i]] \in Waiting
  BY <1>1, <1>2, <1>3 DEF QueueIsWaiters, Waiting
<1>5. \A i, j \in DOMAIN queue' : queue'[i] = queue'[j] => i = j
  BY <1>2, <1>3 DEF QueueIsWaiters
<1>6. \A d \in Calls : phase'[d] \in Waiting => \E i \in DOMAIN queue' : queue'[i] = d
  <2> SUFFICES ASSUME NEW d \in Calls \ {c}, phase'[d] \in Waiting
               PROVE  \E i \in DOMAIN queue' : queue'[i] = d
    BY <1>2
  <2> QED BY <1>1, <1>2 DEF QueueIsWaiters
<1> QED BY <1>4, <1>5, <1>6 DEF QueueIsWaiters

LEMMA QueueStays ==
  ASSUME TypeOK, QueueIsWaiters, UNCHANGED queue,
         \A c \in Calls : phase'[c] \in Waiting <=> phase[c] \in Waiting
  PROVE  QueueIsWaiters'
<1>1. \A i \in DOMAIN queue : queue[i] \in Calls
  BY DEF TypeOK
<1> QED BY <1>1 DEF QueueIsWaiters

LEMMA QueuePasses ==
  ASSUME TypeOK, QueueIsWaiters, NEW c \in Calls, AtHead(c), PassOn,
         phase'[c] \notin Waiting, \A d \in Calls \ {c} : phase'[d] = phase[d]
  PROVE  QueueIsWaiters'
<1>1. queue \in Seq(Calls) /\ queue # <<>> /\ queue' = Tail(queue)
  BY DEF TypeOK, AtHead, PassOn
<1>2. /\ Len(queue) \in Nat \ {0} /\ DOMAIN queue = 1 .. Len(queue) /\ queue[1] = c
      /\ DOMAIN queue' = 1 .. (Len(queue) - 1)
      /\ \A i \in DOMAIN queue' : queue'[i] = queue[i + 1]
  BY <1>1 DEF AtHead
<1>3. \A i \in DOMAIN queue' : i + 1 \in DOMAIN queue /\ i + 1 # 1 /\ queue[i + 1] \in Calls
  BY <1>1, <1>2
<1>4. \A i \in DOMAIN queue' : queue'[i] \in Calls \ {c}
  BY <1>2, <1>3 DEF QueueIsWaiters
<1>5. \A i \in DOMAIN queue' : phase'[queue'[i]] \in Waiting
  BY <1>2, <1>3, <1>4 DEF QueueIsWaiters
<1>6. \A i, j \in DOMAIN queue' : queue'[i] = queue'[j] => i = j
  <2> SUFFICES ASSUME NEW i \in DOMAIN queue', NEW j \in DOMAIN queue', queue'[i] = queue'[j]
               PROVE  i = j
    OBVIOUS
  <2>1. i + 1 = j + 1
    BY <1>2, <1>3 DEF QueueIsWaiters
  <2> QED BY <1>2, <2>1
<1>7. \A d \in Calls : phase'[d] \in Waiting => \E i \in DOMAIN queue' : queue'[i] = d
  <2> SUFFICES ASSUME NEW d \in Calls \ {c}, phase'[d] \in Waiting
               PROVE  \E i \in DOMAIN queue' : queue'[i] = d
    OBVIOUS
  <2>1. PICK k \in DOMAIN queue : queue[k] = d
    BY DEF QueueIsWaiters
  <2>2. k - 1 \in DOMAIN queue' /\ queue'[k - 1] = queue[k]
    BY <1>2, <2>1
  <2> QED BY <2>1, <2>2
<1> QED BY <1>5, <1>6, <1>7 DEF QueueIsWaiters

LEMMA RunKeepsWaiters ==
  ASSUME IInv, QueueIsWaiters, NEW c \in Calls, Run(c)
  PROVE  QueueIsWaiters'
<1>1. TypeOK /\ (phase[c] \in Inside => AtHead(c))
  BY DEF IInv, InsideIsFirst
<1>2. \A to : phase' = [phase EXCEPT ![c] = to] =>
        phase'[c] = to /\ \A d \in Calls \ {c} : phase'[d] = phase[d]
  BY <1>1 DEF TypeOK
<1>3. ASSUME AtHead(c), Fail(c) PROVE QueueIsWaiters'
  <2>1. phase'[c] = "done" /\ \A d \in Calls \ {c} : phase'[d] = phase[d]
    BY <1>2, <1>3 DEF Fail
  <2>2. phase'[c] \notin Waiting
    BY <2>1 DEF Waiting, Inside
  <2> QED BY <1>1, <1>3, <2>1, <2>2, QueuePasses DEF Fail
<1>4. ASSUME NEW to \in Inside, phase[c] \in Waiting, UNCHANGED queue,
             phase' = [phase EXCEPT ![c] = to]
      PROVE  QueueIsWaiters'
  <2>1. \A d \in Calls : phase'[d] \in Waiting <=> phase[d] \in Waiting
    BY <1>2, <1>4 DEF Waiting
  <2> QED BY <1>1, <1>4, <2>1, QueueStays
<1> USE DEF Inside, Waiting
<1>5. CASE Turn(c)
  BY <1>3, <1>4, <1>5 DEF Turn
<1>6. CASE ResolveFails(c) \/ Ends(c)
  BY <1>1, <1>3, <1>6 DEF ResolveFails, Ends
<1>7. CASE Claim(c)
  BY <1>1, <1>3, <1>4, <1>7 DEF Claim
<1>8. CASE Operate(c)
  BY <1>1, <1>3, <1>4, <1>8 DEF Operate
<1>9. CASE Dispatch(c)
  BY <1>1, <1>3, <1>4, <1>9 DEF Dispatch
<1>10. CASE Write(c)
  BY <1>1, <1>3, <1>4, <1>10 DEF Write
<1>11. CASE Inspected(c)
  <2>1. AtHead(c) /\ PassOn
    BY <1>1, <1>11 DEF Inspected
  <2>2. PICK to \in {"held", "done"} : phase' = [phase EXCEPT ![c] = to]
    BY <1>11 DEF Inspected
  <2>3. phase'[c] \notin Waiting /\ \A d \in Calls \ {c} : phase'[d] = phase[d]
    BY <1>2, <2>2
  <2> QED BY <1>1, <2>1, <2>3, QueuePasses
<1> QED BY <1>5, <1>6, <1>7, <1>8, <1>9, <1>10, <1>11 DEF Run

LEMMA WaitersGoOn ==
  ASSUME IInv, QueueIsWaiters
  PROVE  WaitersAreServed
<1> SUFFICES ASSUME NEW c \in Calls, phase[c] \in Waiting PROVE HeadGoesOn
  BY DEF WaitersAreServed
<1>1. queue \in Seq(Calls) /\ queue # <<>>
  BY DEF IInv, TypeOK, QueueIsWaiters
<1>2. 1 \in DOMAIN queue /\ Head(queue) = queue[1] /\ queue[1] \in Calls
  BY <1>1
<1>3. AtHead(queue[1]) /\ phase[queue[1]] \in Waiting
  BY <1>1, <1>2 DEF AtHead, QueueIsWaiters
<1> QED BY <1>2, <1>3 DEF HeadGoesOn, Waiting, Inside

(* A call without an answer is in the queue, once, and the first of the     *)
(* queue has a step to take, whatever was cancelled, refused or released    *)
(* before (serialized): no call leaves the chain without passing it on.     *)
THEOREM WhoWaitsIsInTheChain == Spec => []WaitersAreServed
<1>1. Init => QueueIsWaiters
  BY DEF Init, QueueIsWaiters, Waiting, Inside
<1>2. IInv /\ QueueIsWaiters /\ [Next]_vars => QueueIsWaiters'
  <2> SUFFICES ASSUME IInv, QueueIsWaiters, [Next]_vars PROVE QueueIsWaiters'
    OBVIOUS
  <2>1. TypeOK
    BY DEF IInv
  <2>2. ASSUME NEW c \in Calls, NEW r \in Requests, Make(c, r) PROVE QueueIsWaiters'
    BY <2>1, <2>2, QueueAppends
  <2>3. ASSUME NEW c \in Calls, Abort(c) PROVE QueueIsWaiters'
    BY <2>1, <2>3, QueueStays DEF Abort
  <2>4. ASSUME NEW c \in Calls, Run(c) PROVE QueueIsWaiters'
    BY <2>4, RunKeepsWaiters
  <2>5. ASSUME NEW c \in Calls, Release(c) PROVE QueueIsWaiters'
    <3>1. \A d \in Calls : phase'[d] \in Waiting <=> phase[d] \in Waiting
      BY <2>1, <2>5 DEF Release, Known, TypeOK, Waiting, Inside
    <3> QED BY <2>1, <2>5, <3>1, QueueStays DEF Release
  <2>6. CASE UNCHANGED vars
    BY <2>1, <2>6, QueueStays DEF vars
  <2> QED BY <2>2, <2>3, <2>4, <2>5, <2>6 DEF Next
<1> QED BY <1>1, <1>2, WaitersGoOn, Invariant, PTL DEF Spec
=============================================================================
