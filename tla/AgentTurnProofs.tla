--------------------------- MODULE AgentTurnProofs ---------------------------
(***************************************************************************)
(* Safety of AgentTurn, proved.  The inductive invariant has two parts.    *)
(* ChainInv is about the chain of cleanups: whatever is held is registered *)
(* or still due on the chain, nothing is on it twice, and the execution    *)
(* state comes before late resources only.  ControlInv is about who waits: *)
(* whoever is going to say that the turn is over waits for the last link   *)
(* of the chain, at a time when nothing can be acquired any more.          *)
(* The turn implements Lifetime: with both, what is known grows by one     *)
(* acquisition at a time and shrinks never.                                *)
(***************************************************************************)
EXTENDS AgentTurn, SequenceTheorems, TLAPS

\* Where a resource stands: registered, on the chain, or still due on it.
IsRegistered(r) == \E i \in 1 .. Len(cleanups) : cleanups[i] = r
IsScheduled(r)  == \E i \in 1 .. Len(scheduled) : scheduled[i] = r
IsDue(r)        == \E i \in (ended + 1) .. Len(scheduled) : scheduled[i] = r
Known(r)        == IsRegistered(r) \/ IsScheduled(r)

\* Nothing is held that will not be released.
HeldIsDue == \A r \in held : IsRegistered(r) \/ IsDue(r)

\* No resource is there twice.
KnownOnce ==
  /\ \A i, j \in 1 .. Len(scheduled) : scheduled[i] = scheduled[j] => i = j
  /\ \A i, j \in 1 .. Len(cleanups) : cleanups[i] = cleanups[j] => i = j
  /\ \A i \in 1 .. Len(scheduled), j \in 1 .. Len(cleanups) : scheduled[i] # cleanups[j]

\* The execution state is the first resource: it is the last one handed to
\* the chain, before those that come late.
StateIsFirst ==
  /\ ~disposed => cleanups[1] = "state" /\ "state" \in held
  /\ \A i, j \in 1 .. Len(scheduled) :
       scheduled[i] = "state" /\ i < j => scheduled[j] \in late
  /\ "state" \notin held => \E i \in 1 .. ended : scheduled[i] = "state"

ChainInv ==
  /\ HeldIsDue
  /\ KnownOnce
  /\ StateIsFirst
  /\ ~disposed => scheduled = <<>>

-----------------------------------------------------------------------------
\* The end of the chain, for one who waits for it.
WaitsForAll(p) == disposed /\ awaits[p] = Len(scheduled)
AllEnded == disposed /\ ended = Len(scheduled)

\* A resource is not known before it is acquired.
AcquiredOnce ==
  /\ source = "none" => ~Known("body")
  /\ pc \in Preparing \ {"ready"} => ~Known("runtime")

\* A turn has a body only when the runner is through with it.
BodyIsLast ==
  /\ source = "none" => output = "none" /\ puller = "idle" /\ ~finished
  /\ source # "none" => pc \in {"returned", "failing", "thrown"}
  /\ output \in {"open", "closed", "leaving", "left"} => pc = "returned"
  /\ puller # "idle" => output # "none" /\ pc = "returned"

\* Those who wait for the cleanups of the turn wait for all of them.
WaitersAreLast ==
  /\ pc \in {"failing", "finishing"} => WaitsForAll("runner")
  /\ pc = "finishing" => source = "none"
  /\ pc = "thrown" => AllEnded
  /\ pc = "returned" /\ source = "none" => AllEnded
  /\ puller \in {"closing", "failing"} => WaitsForAll("puller")
  /\ output = "leaving" => WaitsForAll("client")
  /\ output \in {"closed", "left"} => AllEnded

\* The reader is whole until the turn is disposed.
StreamIsAttached ==
  /\ output = "open" /\ ~finished => ~disposed /\ "body" \in held /\ source # "cancelled"
  /\ puller = "reading" /\ ~finished => output = "open"
  /\ puller = "closing" => output \in {"open", "leaving", "left"}

\* So is the runtime of a loop, unless the signal told it.
LoopIsServed ==
  /\ loop # "none" => pc \in {"returned", "failing", "thrown"} /\ source # "none"
  /\ loop = "running" => source # "closed"
  /\ loop = "running" /\ disposed => aborted
  /\ ~disposed /\ loop \in {"none", "running"} => disposals = 0
  /\ ~disposed /\ (pc = "ready" \/ loop = "running") => "runtime" \in held

ControlInv ==
  /\ AcquiredOnce
  /\ BodyIsLast
  /\ WaitersAreLast
  /\ StreamIsAttached
  /\ LoopIsServed
  /\ aborted => disposed
  /\ pc \in Preparing /\ disposed => aborted
  /\ disposals <= 1

IInv == TypeOK /\ ChainInv /\ ControlInv

-----------------------------------------------------------------------------
\* dispose(): what the chain is afterwards, link by link.
LEMMA DisposeHands ==
  ASSUME TypeOK, Dispose
  PROVE  LET n == Len(scheduled)  m == Len(cleanups) IN
         /\ disposed' /\ cleanups' = <<>>
         /\ scheduled' \in Seq(Resources)
         /\ Len(scheduled') = n + m
         /\ \A i \in 1 .. n : scheduled'[i] = scheduled[i]
         /\ \A i \in 1 .. n + m : i > n =>
              \E j \in 1 .. m : i + j = n + m + 1 /\ scheduled'[i] = cleanups[j]
         /\ \A j \in 1 .. m :
              \E i \in 1 .. n + m : i > n /\ i + j = n + m + 1 /\ scheduled'[i] = cleanups[j]
         /\ disposed => scheduled' = scheduled
<1> DEFINE r == Reversed(cleanups)  n == Len(scheduled)  m == Len(cleanups)
<1>1. scheduled \in Seq(Resources) /\ cleanups \in Seq(Resources) /\ n \in Nat /\ m \in Nat
  BY DEF TypeOK
<1>2. \A i \in 1 .. m : cleanups[i] \in Resources
  BY <1>1
<1>3. r \in [1 .. m -> Resources]
  BY <1>1, <1>2 DEF Reversed
<1>4. r \in Seq(Resources) /\ Len(r) = m
  BY <1>1, <1>3
<1>5. \A i \in 1 .. m : r[i] = cleanups[m + 1 - i]
  BY DEF Reversed
<1>6. scheduled' = scheduled \o r /\ disposed' /\ cleanups' = <<>>
  BY DEF Dispose
<1> HIDE DEF r
<1>7. disposed => scheduled' = scheduled
  <2>1. SUFFICES ASSUME disposed PROVE scheduled' = scheduled
    OBVIOUS
  <2>2. cleanups = <<>>
    BY <2>1 DEF TypeOK
  <2>3. Len(r) = 0
    BY <1>4, <2>2
  <2>4. r = <<>>
    BY <1>4, <2>3, EmptySeq
  <2> QED
    BY <1>1, <1>6, <2>4, ConcatEmptySeq
<1> HIDE DEF n, m
<1>n. n = Len(scheduled) /\ m = Len(cleanups)
  BY DEF n, m
<1>8. /\ scheduled' \in Seq(Resources)
      /\ Len(scheduled') = n + m
      /\ \A i \in 1 .. n + m : scheduled'[i] = IF i <= n THEN scheduled[i] ELSE r[i - n]
  <2>1. /\ scheduled \o r \in Seq(Resources)
        /\ Len(scheduled \o r) = Len(scheduled) + Len(r)
        /\ \A i \in 1 .. Len(scheduled) + Len(r) :
             (scheduled \o r)[i] = IF i <= Len(scheduled) THEN scheduled[i] ELSE r[i - Len(scheduled)]
    BY <1>1, <1>4, ConcatProperties
  <2> QED
    BY <2>1, <1>n, <1>4, <1>6
<1>9. ASSUME NEW i \in 1 .. n + m, i > n
      PROVE  \E j \in 1 .. m : i + j = n + m + 1 /\ scheduled'[i] = cleanups[j]
  <2>1. i - n \in 1 .. m /\ m + 1 - (i - n) \in 1 .. m /\ i + (m + 1 - (i - n)) = n + m + 1
    BY <1>1, <1>9
  <2>2. scheduled'[i] = r[i - n]
    BY <1>1, <1>8, <1>9
  <2>3. r[i - n] = cleanups[m + 1 - (i - n)]
    BY <1>5, <2>1
  <2> QED
    BY <2>1, <2>2, <2>3
<1>10. ASSUME NEW j \in 1 .. m
       PROVE  \E i \in 1 .. n + m :
                i > n /\ i + j = n + m + 1 /\ scheduled'[i] = cleanups[j]
  <2> DEFINE i == n + (m + 1 - j)
  <2>1. i \in 1 .. n + m /\ i > n /\ i + j = n + m + 1 /\ i - n \in 1 .. m /\ m + 1 - (i - n) = j
    BY <1>1
  <2>2. scheduled'[i] = r[i - n]
    BY <1>1, <1>8, <2>1
  <2>3. r[i - n] = cleanups[j]
    BY <1>5, <2>1
  <2> QED
    BY <2>1, <2>2, <2>3
<1>11. \A i \in 1 .. n : scheduled'[i] = scheduled[i]
  BY <1>1, <1>8
<1> QED
  BY <1>n, <1>6, <1>7, <1>8, <1>9, <1>10, <1>11

\* The chain part is kept by every disposal.
LEMMA DisposeKeepsChain ==
  ASSUME TypeOK, ChainInv, Dispose, UNCHANGED <<ended, held, late>>
  PROVE  /\ ChainInv'
         /\ \A r \in Resources : Known(r)' => Known(r)
<1> DEFINE n == Len(scheduled)  m == Len(cleanups)
<1>0. n \in Nat /\ m \in Nat /\ ended \in Nat /\ ended <= n
  BY DEF TypeOK
<1>1. /\ disposed' /\ cleanups' = <<>>
      /\ Len(scheduled') = n + m
      /\ \A i \in 1 .. n : scheduled'[i] = scheduled[i]
      /\ \A i \in 1 .. n + m : i > n =>
           \E j \in 1 .. m : i + j = n + m + 1 /\ scheduled'[i] = cleanups[j]
      /\ \A j \in 1 .. m :
           \E i \in 1 .. n + m : i > n /\ i + j = n + m + 1 /\ scheduled'[i] = cleanups[j]
      /\ disposed => scheduled' = scheduled
  BY DisposeHands
<1> HIDE DEF n, m
<1>n. n = Len(scheduled) /\ m = Len(cleanups)
  BY DEF n, m
<1>2. Len(cleanups') = 0 /\ ended' = ended /\ held' = held /\ late' = late
  BY <1>1
<1>4. HeldIsDue'
  <2>1. SUFFICES ASSUME NEW q \in held
                 PROVE  \E i \in (ended + 1) .. n + m : scheduled'[i] = q
    BY <1>1, <1>2 DEF HeldIsDue, IsDue
  <2>2. CASE IsRegistered(q)
    BY <2>2, <1>0, <1>1, <1>n DEF IsRegistered
  <2>3. CASE IsDue(q)
    BY <2>3, <1>0, <1>1, <1>n DEF IsDue
  <2> QED
    BY <2>2, <2>3 DEF ChainInv, HeldIsDue
<1>5. KnownOnce'
  <2>1. ASSUME NEW i \in 1 .. n + m, NEW j \in 1 .. n + m, scheduled'[i] = scheduled'[j]
        PROVE  i = j
    <3>1. CASE i <= n /\ j <= n
      BY <2>1, <3>1, <1>0, <1>1, <1>n DEF ChainInv, KnownOnce
    <3>2. CASE i > n /\ j > n
      BY <2>1, <3>2, <1>0, <1>1, <1>n DEF ChainInv, KnownOnce
    <3>3. CASE (i <= n /\ j > n) \/ (i > n /\ j <= n)
      BY <2>1, <3>3, <1>0, <1>1, <1>n DEF ChainInv, KnownOnce
    <3>4. i \in Int /\ j \in Int /\ n \in Int
      BY <1>0
    <3>5. i <= n \/ i > n
      BY <3>4
    <3>6. j <= n \/ j > n
      BY <3>4
    <3> QED
      BY <3>1, <3>2, <3>3, <3>5, <3>6
  <2> QED
    BY <2>1, <1>1, <1>2 DEF KnownOnce
<1>6. StateIsFirst'
  <2>1. CASE disposed
    BY <2>1, <1>1, <1>2 DEF ChainInv, StateIsFirst
  <2>2. CASE ~disposed
    <3>1. n = 0 /\ cleanups[1] = "state" /\ "state" \in held /\ m > 0
      <4>1. scheduled = <<>> /\ cleanups # <<>> /\ cleanups \in Seq(Resources)
        BY <2>2 DEF ChainInv, TypeOK
      <4> QED
        BY <4>1, <2>2, <1>0, <1>n DEF ChainInv, StateIsFirst
    <3>2. ASSUME NEW i \in 1 .. n + m, scheduled'[i] = "state" PROVE i = n + m
      <4>1. PICK j \in 1 .. m : i + j = n + m + 1 /\ scheduled'[i] = cleanups[j]
        BY <3>1, <1>0, <1>1
      <4>2. j = 1
        BY <3>1, <3>2, <4>1, <1>0, <1>n DEF ChainInv, KnownOnce
      <4> QED
        BY <4>1, <4>2, <1>0
    <3>3. \A i, j \in 1 .. Len(scheduled') :
            scheduled'[i] = "state" /\ i < j => scheduled'[j] \in late'
      BY <3>2, <1>0, <1>1
    <3> QED
      BY <3>1, <3>3, <1>1, <1>2 DEF StateIsFirst
  <2> QED
    BY <2>1, <2>2
<1>7. ASSUME NEW r \in Resources, Known(r)' PROVE Known(r)
  <2>1. PICK i \in 1 .. n + m : scheduled'[i] = r
    BY <1>7, <1>1, <1>2 DEF Known, IsRegistered, IsScheduled
  <2>2. CASE i <= n
    BY <2>1, <2>2, <1>0, <1>1, <1>n DEF Known, IsScheduled
  <2>3. CASE i > n
    BY <2>1, <2>3, <1>0, <1>1, <1>n DEF Known, IsRegistered
  <2> QED
    BY <2>2, <2>3, <1>0
<1> QED
  BY <1>1, <1>4, <1>5, <1>6, <1>7 DEF ChainInv

\* So it is by every acquisition, early or late.
LEMMA AcquireKeepsChain ==
  ASSUME NEW r \in {"runtime", "body"}, TypeOK, ChainInv, Acquire(r), ~Known(r),
         UNCHANGED <<ended, disposed>>
  PROVE  /\ ChainInv'
         /\ cleanups' \in Seq(Resources) /\ scheduled' \in Seq(Resources)
         /\ disposed <=> cleanups' = <<>>
         /\ Len(scheduled') \in {Len(scheduled), Len(scheduled) + 1}
         /\ \A q \in Resources : Known(q)' => q = r \/ Known(q)
<1> DEFINE n == Len(scheduled)  m == Len(cleanups)
<1>0. n \in Nat /\ m \in Nat /\ ended \in 0 .. n /\ r \in Resources
  BY DEF TypeOK, Resources
<1>1. CASE disposed
  <2>1. cleanups = <<>> /\ cleanups' = <<>> /\ scheduled' = Append(scheduled, r)
    BY <1>1 DEF Acquire, Registered, TypeOK
  <2>2. /\ scheduled' \in Seq(Resources) /\ Len(scheduled') = n + 1
        /\ \A i \in 1 .. n : scheduled'[i] = scheduled[i]
        /\ scheduled'[n + 1] = r
    BY <2>1, <1>0 DEF TypeOK
  <2>3. held' = held \cup {r} /\ late' = late \cup {r}
    BY <1>1 DEF Acquire
  <2>4. HeldIsDue'
    BY <1>0, <2>1, <2>2, <2>3 DEF ChainInv, HeldIsDue, IsRegistered, IsDue
  <2>5. KnownOnce'
    BY <1>0, <2>1, <2>2 DEF ChainInv, KnownOnce, Known, IsScheduled
  <2>6. StateIsFirst'
    BY <1>0, <1>1, <2>2, <2>3 DEF ChainInv, StateIsFirst
  <2>7. \A q \in Resources : Known(q)' => q = r \/ Known(q)
    BY <1>0, <2>1, <2>2 DEF Known, IsRegistered, IsScheduled
  <2> QED
    BY <1>0, <1>1, <2>1, <2>2, <2>4, <2>5, <2>6, <2>7 DEF ChainInv, TypeOK
<1>2. CASE ~disposed
  <2>1. scheduled = <<>> /\ scheduled' = <<>> /\ cleanups' = Append(cleanups, r)
    BY <1>2 DEF Acquire, Registered, ChainInv
  <2>2. /\ cleanups' \in Seq(Resources) /\ Len(cleanups') = m + 1
        /\ \A i \in 1 .. m : cleanups'[i] = cleanups[i]
        /\ cleanups'[m + 1] = r
    BY <2>1, <1>0 DEF TypeOK
  <2>3. held' = held \cup {r} /\ late' = late
    BY <1>2 DEF Acquire
  <2>4. HeldIsDue'
    BY <1>0, <2>1, <2>2, <2>3 DEF ChainInv, HeldIsDue, IsRegistered, IsDue
  <2>5. KnownOnce'
    BY <1>0, <2>1, <2>2 DEF ChainInv, KnownOnce, Known, IsRegistered
  <2>6. StateIsFirst'
    <3>1. m > 0
      BY <1>0, <1>2 DEF TypeOK
    <3> QED
      BY <1>0, <1>2, <2>1, <2>2, <2>3, <3>1 DEF ChainInv, StateIsFirst
  <2>7. \A q \in Resources : Known(q)' => q = r \/ Known(q)
    BY <1>0, <2>1, <2>2 DEF Known, IsRegistered, IsScheduled
  <2>8. cleanups' # <<>>
    BY <2>2, <1>0
  <2> QED
    BY <1>0, <1>2, <2>1, <2>2, <2>4, <2>5, <2>6, <2>7, <2>8 DEF ChainInv, TypeOK
<1> QED
  BY <1>1, <1>2

\* A step that leaves the chain and the resources alone keeps it.
LEMMA ChainUnchanged ==
  ASSUME ChainInv, UNCHANGED <<disposed, cleanups, scheduled, ended, held, late>>
  PROVE  ChainInv' /\ \A r \in Resources : Known(r)' <=> Known(r)
  BY DEF ChainInv, HeldIsDue, KnownOnce, StateIsFirst, Known, IsRegistered,
         IsScheduled, IsDue

\* A release of what is due keeps it.
LEMMA ReleaseKeepsChain ==
  ASSUME TypeOK, ChainInv, ended < Len(scheduled), UNCHANGED <<disposed, cleanups, scheduled, late>>,
         ended' = ended + 1, held' = held \ {Due}
  PROVE  ChainInv' /\ \A r \in Resources : Known(r)' <=> Known(r)
<1>0. Len(scheduled) \in Nat /\ ended \in Nat /\ ended + 1 \in 1 .. Len(scheduled)
  BY DEF TypeOK
<1>1. HeldIsDue'
  BY <1>0 DEF ChainInv, HeldIsDue, IsRegistered, IsDue, Due
<1>2. KnownOnce'
  BY DEF ChainInv, KnownOnce
<1>3. StateIsFirst'
  <2>1. disposed
    BY <1>0 DEF ChainInv
  <2>2. "state" \notin held' => \E i \in 1 .. ended' : scheduled[i] = "state"
    BY <1>0 DEF ChainInv, StateIsFirst, Due
  <2> QED
    BY <2>1, <2>2 DEF ChainInv, StateIsFirst
<1> QED
  BY <1>1, <1>2, <1>3 DEF ChainInv, Known, IsRegistered, IsScheduled

-----------------------------------------------------------------------------
LEMMA InitInv == Init => IInv
<1> SUFFICES ASSUME Init PROVE IInv
  OBVIOUS
<1>0. <<>> \in Seq(Resources) /\ <<"state">> \in Seq(Resources) /\ <<"state">> # <<>>
  BY DEF Resources
<1>1. CASE aborted
  <2>1. cleanups = <<>> /\ scheduled = <<"state">> /\ disposed /\ Len(scheduled) = 1
    BY <1>1 DEF Init
  <2>2. TypeOK
    <3>1. awaits \in [Waiters -> 0 .. Len(scheduled)] /\ ended \in 0 .. Len(scheduled)
      BY <2>1 DEF Init
    <3>2. cleanups \in Seq(Resources) /\ scheduled \in Seq(Resources)
      BY <1>0, <2>1
    <3>3. disposed \in BOOLEAN /\ aborted \in BOOLEAN
      BY DEF Init
    <3>4. disposed <=> cleanups = <<>>
      BY <1>0, <2>1
    <3> QED
      BY <3>1, <3>2, <3>3, <3>4 DEF Init, TypeOK, Preparing, Resources
  <2>3. ChainInv
    BY <1>1, <2>1 DEF Init, ChainInv, HeldIsDue, KnownOnce, StateIsFirst, IsDue
  <2>4. ControlInv
    BY <1>1, <2>1 DEF Init, ControlInv, AcquiredOnce, BodyIsLast, WaitersAreLast,
                      StreamIsAttached, LoopIsServed, Known, IsRegistered, IsScheduled
  <2> QED
    BY <2>2, <2>3, <2>4 DEF IInv
<1>2. CASE ~aborted
  <2>1. cleanups = <<"state">> /\ scheduled = <<>> /\ ~disposed /\ Len(cleanups) = 1
        /\ Len(scheduled) = 0
    BY <1>2 DEF Init
  <2>2. TypeOK
    <3>1. awaits \in [Waiters -> 0 .. Len(scheduled)] /\ ended \in 0 .. Len(scheduled)
      BY <2>1 DEF Init
    <3>2. cleanups \in Seq(Resources) /\ scheduled \in Seq(Resources)
      BY <1>0, <2>1
    <3>3. disposed \in BOOLEAN /\ aborted \in BOOLEAN
      BY DEF Init
    <3>4. disposed <=> cleanups = <<>>
      BY <1>0, <2>1
    <3> QED
      BY <3>1, <3>2, <3>3, <3>4 DEF Init, TypeOK, Preparing, Resources
  <2>3. ChainInv
    BY <1>2, <2>1 DEF Init, ChainInv, HeldIsDue, KnownOnce, StateIsFirst, IsRegistered
  <2>4. ControlInv
    BY <1>2, <2>1 DEF Init, ControlInv, AcquiredOnce, BodyIsLast, WaitersAreLast,
                      StreamIsAttached, LoopIsServed, Known, IsRegistered, IsScheduled
  <2> QED
    BY <2>2, <2>3, <2>4 DEF IInv
<1> QED
  BY <1>1, <1>2

-----------------------------------------------------------------------------
\* The steps that neither dispose nor acquire nor release anything.

LEMMA RunnerEndsInv == IInv /\ RunnerEnds => IInv'
<1> SUFFICES ASSUME IInv, RunnerEnds PROVE IInv'
  OBVIOUS
<1>1. ChainInv' /\ \A r \in Resources : Known(r)' <=> Known(r)
  BY ChainUnchanged DEF IInv, RunnerEnds, lifecycle, chain, stream, Waited
<1>2. TypeOK'
  BY DEF IInv, TypeOK, RunnerEnds, lifecycle, chain, stream, Waited
<1>3. ControlInv'
  BY <1>1 DEF IInv, TypeOK, Resources, Preparing, RunnerEnds, lifecycle, chain, stream, Waited,
               ControlInv, AcquiredOnce, BodyIsLast, WaitersAreLast, WaitsForAll, AllEnded,
               StreamIsAttached, LoopIsServed
<1> QED
  BY <1>1, <1>2, <1>3 DEF IInv

LEMMA LoopEndsInv == IInv /\ LoopEnds => IInv'
<1> SUFFICES ASSUME IInv, LoopEnds PROVE IInv'
  OBVIOUS
<1>1. ChainInv' /\ \A r \in Resources : Known(r)' <=> Known(r)
  BY ChainUnchanged DEF IInv, LoopEnds, lifecycle, chain, stream, DisposeRuntime
<1>2. TypeOK'
  BY DEF IInv, TypeOK, LoopEnds, lifecycle, chain, stream, DisposeRuntime
<1>3. ControlInv'
  BY <1>1 DEF IInv, TypeOK, Resources, Preparing, LoopEnds, lifecycle, chain, stream, DisposeRuntime,
               ControlInv, AcquiredOnce, BodyIsLast, WaitersAreLast, WaitsForAll, AllEnded,
               StreamIsAttached, LoopIsServed
<1> QED
  BY <1>1, <1>2, <1>3 DEF IInv

LEMMA LoopClosesInv == IInv /\ LoopCloses => IInv'
<1> SUFFICES ASSUME IInv, LoopCloses PROVE IInv'
  OBVIOUS
<1>1. ChainInv' /\ \A r \in Resources : Known(r)' <=> Known(r)
  BY ChainUnchanged DEF IInv, LoopCloses, lifecycle, chain, CloseSource
<1>2. TypeOK'
  BY DEF IInv, TypeOK, LoopCloses, lifecycle, chain, CloseSource
<1>3. ControlInv'
  BY <1>1 DEF IInv, TypeOK, Resources, Preparing, LoopCloses, lifecycle, chain, CloseSource,
               ControlInv, AcquiredOnce, BodyIsLast, WaitersAreLast, WaitsForAll, AllEnded,
               StreamIsAttached, LoopIsServed
<1> QED
  BY <1>1, <1>2, <1>3 DEF IInv

LEMMA SourceEndsInv == IInv /\ SourceEnds => IInv'
<1> SUFFICES ASSUME IInv, SourceEnds PROVE IInv'
  OBVIOUS
<1>1. ChainInv' /\ \A r \in Resources : Known(r)' <=> Known(r)
  BY ChainUnchanged DEF IInv, SourceEnds, lifecycle, chain
<1>2. TypeOK'
  BY DEF IInv, TypeOK, SourceEnds, lifecycle, chain
<1>3. ControlInv'
  BY <1>1 DEF IInv, TypeOK, Resources, Preparing, SourceEnds, lifecycle, chain,
               ControlInv, AcquiredOnce, BodyIsLast, WaitersAreLast, WaitsForAll, AllEnded,
               StreamIsAttached, LoopIsServed
<1> QED
  BY <1>1, <1>2, <1>3 DEF IInv

LEMMA PullInv == IInv /\ Pull => IInv'
<1> SUFFICES ASSUME IInv, Pull PROVE IInv'
  OBVIOUS
<1>1. ChainInv' /\ \A r \in Resources : Known(r)' <=> Known(r)
  BY ChainUnchanged DEF IInv, Pull, lifecycle, chain
<1>2. TypeOK'
  BY DEF IInv, TypeOK, Pull, lifecycle, chain
<1>3. ControlInv'
  BY <1>1 DEF IInv, TypeOK, Resources, Preparing, Pull, lifecycle, chain,
               ControlInv, AcquiredOnce, BodyIsLast, WaitersAreLast, WaitsForAll, AllEnded,
               StreamIsAttached, LoopIsServed
<1> QED
  BY <1>1, <1>2, <1>3 DEF IInv

LEMMA ReadReturnsInv == IInv /\ ReadReturns => IInv'
<1> SUFFICES ASSUME IInv, ReadReturns PROVE IInv'
  OBVIOUS
<1>1. ChainInv' /\ \A r \in Resources : Known(r)' <=> Known(r)
  BY ChainUnchanged DEF IInv, ReadReturns, lifecycle, chain
<1>2. TypeOK'
  BY DEF IInv, TypeOK, ReadReturns, lifecycle, chain
<1>3. ControlInv'
  BY <1>1 DEF IInv, TypeOK, Resources, Preparing, ReadReturns, lifecycle, chain,
               ControlInv, AcquiredOnce, BodyIsLast, WaitersAreLast, WaitsForAll, AllEnded,
               StreamIsAttached, LoopIsServed
<1> QED
  BY <1>1, <1>2, <1>3 DEF IInv

LEMMA PullEndsInv == IInv /\ PullEnds => IInv'
<1> SUFFICES ASSUME IInv, PullEnds PROVE IInv'
  OBVIOUS
<1>1. ChainInv' /\ \A r \in Resources : Known(r)' <=> Known(r)
  BY ChainUnchanged DEF IInv, PullEnds, lifecycle, chain, DisposeAwaited, Waited
<1>2. TypeOK'
  BY DEF IInv, TypeOK, PullEnds, lifecycle, chain, DisposeAwaited, Waited
<1>3. ControlInv'
  BY <1>1 DEF IInv, TypeOK, Resources, Preparing, PullEnds, lifecycle, chain, DisposeAwaited, Waited,
               ControlInv, AcquiredOnce, BodyIsLast, WaitersAreLast, WaitsForAll, AllEnded,
               StreamIsAttached, LoopIsServed
<1> QED
  BY <1>1, <1>2, <1>3 DEF IInv

LEMMA ClientLeftInv == IInv /\ ClientLeft => IInv'
<1> SUFFICES ASSUME IInv, ClientLeft PROVE IInv'
  OBVIOUS
<1>1. ChainInv' /\ \A r \in Resources : Known(r)' <=> Known(r)
  BY ChainUnchanged DEF IInv, ClientLeft, lifecycle, chain, Waited
<1>2. TypeOK'
  BY DEF IInv, TypeOK, ClientLeft, lifecycle, chain, Waited
<1>3. ControlInv'
  BY <1>1 DEF IInv, TypeOK, Resources, Preparing, ClientLeft, lifecycle, chain, Waited,
               ControlInv, AcquiredOnce, BodyIsLast, WaitersAreLast, WaitsForAll, AllEnded,
               StreamIsAttached, LoopIsServed
<1> QED
  BY <1>1, <1>2, <1>3 DEF IInv

-----------------------------------------------------------------------------
\* The steps of the chain.
LEMMA CleanupBeginsInv == IInv /\ CleanupBegins => IInv'
<1> SUFFICES ASSUME IInv, CleanupBegins PROVE IInv'
  OBVIOUS
<1>1. /\ disposed /\ Due \in Resources
      /\ Len(scheduled) \in Nat /\ ended \in Nat /\ ended + 1 \in 1 .. Len(scheduled)
  BY DEF IInv, TypeOK, ChainInv, CleanupBegins, Due
<1>2. ChainInv' /\ \A r \in Resources : Known(r)' <=> Known(r)
  <2>1. CASE Due = "state"
    BY <2>1, <1>1, ReleaseKeepsChain DEF IInv, CleanupBegins, lifecycle
  <2>2. CASE Due # "state"
    BY <2>2, <1>1, ChainUnchanged DEF IInv, CleanupBegins, lifecycle, Resources
  <2> QED
    BY <2>1, <2>2
<1>s. Due = "state" => /\ ended' = ended + 1 /\ held' = held \ {"state"}
                       /\ UNCHANGED <<cleaning, disposals, source>>
  BY DEF CleanupBegins
<1>o. Due # "state" => /\ cleaning' = TRUE /\ UNCHANGED <<ended, held>>
                       /\ disposals' \in {disposals, 1}
                       /\ source' \in {source, "cancelled"} /\ (source = "none" => source' = "none")
  BY <1>1 DEF CleanupBegins, DisposeRuntime, Resources
<1>c. /\ ~cleaning
      /\ UNCHANGED <<pc, lifecycle, awaits, late, loop, puller, finished, output>>
  BY DEF CleanupBegins
<1>3. TypeOK'
  <2>1. CASE Due = "state"
    <3>1. ended' \in 0 .. Len(scheduled') /\ ~cleaning' /\ cleaning' \in BOOLEAN
      BY <2>1, <1>1, <1>s, <1>c DEF IInv, TypeOK, lifecycle
    <3> QED
      BY <3>1, <2>1, <1>s, <1>c DEF IInv, TypeOK, lifecycle
  <2>2. CASE Due # "state"
    <3>1. cleaning' \in BOOLEAN /\ (cleaning' => ended' < Len(scheduled'))
      BY <2>2, <1>1, <1>o, <1>c DEF lifecycle
    <3> QED
      BY <3>1, <2>2, <1>o, <1>c DEF IInv, TypeOK, lifecycle
  <2> QED
    BY <2>1, <2>2
<1>4. ControlInv'
  <2>1. CASE Due = "state"
    BY <2>1, <1>1, <1>2, <1>s, <1>c DEF IInv, TypeOK, Resources, Preparing, lifecycle,
               ControlInv, AcquiredOnce, BodyIsLast, WaitersAreLast, WaitsForAll, AllEnded,
               StreamIsAttached, LoopIsServed
  <2>2. CASE Due # "state"
    BY <2>2, <1>1, <1>2, <1>o, <1>c DEF IInv, TypeOK, Resources, Preparing, lifecycle,
               ControlInv, AcquiredOnce, BodyIsLast, WaitersAreLast, WaitsForAll, AllEnded,
               StreamIsAttached, LoopIsServed
  <2> QED
    BY <2>1, <2>2
<1> QED
  BY <1>2, <1>3, <1>4 DEF IInv

LEMMA RuntimeDisposedInv == IInv /\ RuntimeDisposed => IInv'
<1> SUFFICES ASSUME IInv, RuntimeDisposed PROVE IInv'
  OBVIOUS
<1>1. ChainInv'
  BY DEF IInv, RuntimeDisposed, lifecycle, chain, ChainInv, HeldIsDue, KnownOnce, StateIsFirst,
         IsRegistered, IsDue
<1>2. \A r \in Resources : Known(r)' <=> Known(r)
  BY DEF RuntimeDisposed, lifecycle, Known, IsRegistered, IsScheduled
<1>3. TypeOK'
  BY DEF IInv, TypeOK, RuntimeDisposed, lifecycle, chain, stream
<1>4. ControlInv'
  BY <1>2 DEF IInv, TypeOK, Resources, Preparing, RuntimeDisposed, lifecycle, chain, stream,
               ControlInv, AcquiredOnce, BodyIsLast, WaitersAreLast, WaitsForAll, AllEnded,
               StreamIsAttached, LoopIsServed
<1> QED
  BY <1>1, <1>3, <1>4 DEF IInv

LEMMA CleanupEndsInv == IInv /\ CleanupEnds => IInv'
<1> SUFFICES ASSUME IInv, CleanupEnds PROVE IInv'
  OBVIOUS
<1>1. /\ disposed /\ Len(scheduled) \in Nat /\ ended \in Nat /\ ended < Len(scheduled)
  BY DEF IInv, TypeOK, ChainInv, CleanupEnds
<1>2. ChainInv' /\ \A r \in Resources : Known(r)' <=> Known(r)
  BY <1>1, ReleaseKeepsChain DEF IInv, CleanupEnds, lifecycle
<1>3. TypeOK'
  <2>1. ended' \in 0 .. Len(scheduled') /\ held' \subseteq Resources
    BY <1>1 DEF IInv, TypeOK, CleanupEnds, lifecycle
  <2>2. cleaning' \in BOOLEAN /\ ~cleaning'
    BY DEF CleanupEnds
  <2> QED
    BY <2>1, <2>2 DEF IInv, TypeOK, CleanupEnds, lifecycle, stream
<1>4. ControlInv'
  BY <1>1, <1>2 DEF IInv, TypeOK, Resources, Preparing, CleanupEnds, lifecycle, stream,
               ControlInv, AcquiredOnce, BodyIsLast, WaitersAreLast, WaitsForAll, AllEnded,
               StreamIsAttached, LoopIsServed
<1> QED
  BY <1>2, <1>3, <1>4 DEF IInv

-----------------------------------------------------------------------------
\* The steps that dispose.
LEMMA DisposeFacts ==
  ASSUME TypeOK, Dispose
  PROVE  /\ disposed' /\ cleanups' = <<>> /\ scheduled' \in Seq(Resources)
         /\ Len(scheduled) \in Nat /\ Len(scheduled') \in Nat /\ Len(scheduled) <= Len(scheduled')
         /\ disposed => scheduled' = scheduled
<1>1. Len(scheduled) \in Nat /\ Len(cleanups) \in Nat
  BY DEF TypeOK
<1> QED
  BY <1>1, DisposeHands

LEMMA AbortInv == IInv /\ Abort => IInv'
<1> SUFFICES ASSUME IInv, Abort PROVE IInv'
  OBVIOUS
<1>1. Dispose
  BY DEF Abort, Listens, Heard
<1>2. ChainInv' /\ \A r \in Resources : Known(r)' => Known(r)
  BY <1>1, DisposeKeepsChain DEF IInv, Abort, chain
<1>3. /\ disposed' /\ cleanups' = <<>> /\ scheduled' \in Seq(Resources)
      /\ Len(scheduled) \in Nat /\ Len(scheduled') \in Nat /\ Len(scheduled) <= Len(scheduled')
      /\ disposed => scheduled' = scheduled
  BY <1>1, DisposeFacts DEF IInv
<1>4. TypeOK'
  <2>1. /\ disposed' = TRUE /\ aborted' = TRUE
        /\ UNCHANGED <<pc, chain, awaits, held, late, disposals, loop, source, puller>>
    BY DEF Abort, Dispose
  <2>2. output' \in {output, "errored"} /\ finished' \in BOOLEAN
    BY DEF IInv, TypeOK, Abort, Heard
  <2>3. ended' \in 0 .. Len(scheduled') /\ awaits' \in [Waiters -> 0 .. Len(scheduled')]
        /\ (cleaning' => ended' < Len(scheduled'))
    BY <1>3, <2>1 DEF IInv, TypeOK, chain
  <2> QED
    BY <1>3, <2>1, <2>2, <2>3 DEF IInv, TypeOK, chain
<1>5. ControlInv'
  BY <1>2, <1>3 DEF IInv, TypeOK, Resources, Preparing, Waiters, Abort, Listens, Heard,
               chain, stream, WaitFor,
               ControlInv, AcquiredOnce, BodyIsLast, WaitersAreLast, WaitsForAll, AllEnded,
               StreamIsAttached, LoopIsServed
<1> QED
  BY <1>2, <1>4, <1>5 DEF IInv

LEMMA ServiceFailsInv == IInv /\ ServiceFails => IInv'
<1> SUFFICES ASSUME IInv, ServiceFails PROVE IInv'
  OBVIOUS
<1>1. Dispose
  BY DEF ServiceFails, Fail, WaitFor
<1>2. ChainInv' /\ \A r \in Resources : Known(r)' => Known(r)
  BY <1>1, DisposeKeepsChain DEF IInv, ServiceFails, chain
<1>3. /\ disposed' /\ cleanups' = <<>> /\ scheduled' \in Seq(Resources)
      /\ Len(scheduled) \in Nat /\ Len(scheduled') \in Nat /\ Len(scheduled) <= Len(scheduled')
      /\ disposed => scheduled' = scheduled
  BY <1>1, DisposeFacts DEF IInv
<1>4. TypeOK'
  BY <1>3 DEF IInv, TypeOK, Waiters, ServiceFails, Fail, WaitFor, chain, stream
<1>5. ControlInv'
  BY <1>2, <1>3 DEF IInv, TypeOK, Resources, Preparing, Waiters, ServiceFails, Fail, WaitFor,
               chain, stream,
               ControlInv, AcquiredOnce, BodyIsLast, WaitersAreLast, WaitsForAll, AllEnded,
               StreamIsAttached, LoopIsServed
<1> QED
  BY <1>2, <1>4, <1>5 DEF IInv

LEMMA EmptyResponseInv == IInv /\ EmptyResponse => IInv'
<1> SUFFICES ASSUME IInv, EmptyResponse PROVE IInv'
  OBVIOUS
<1>1. Dispose
  BY DEF EmptyResponse, WaitFor
<1>2. ChainInv' /\ \A r \in Resources : Known(r)' => Known(r)
  BY <1>1, DisposeKeepsChain DEF IInv, EmptyResponse, chain
<1>3. /\ disposed' /\ cleanups' = <<>> /\ scheduled' \in Seq(Resources)
      /\ Len(scheduled) \in Nat /\ Len(scheduled') \in Nat /\ Len(scheduled) <= Len(scheduled')
      /\ disposed => scheduled' = scheduled
  BY <1>1, DisposeFacts DEF IInv
<1>4. TypeOK'
  BY <1>3 DEF IInv, TypeOK, Waiters, EmptyResponse, WaitFor, chain, stream
<1>5. ControlInv'
  BY <1>2, <1>3 DEF IInv, TypeOK, Resources, Preparing, Waiters, EmptyResponse, WaitFor,
               chain, stream,
               ControlInv, AcquiredOnce, BodyIsLast, WaitersAreLast, WaitsForAll, AllEnded,
               StreamIsAttached, LoopIsServed
<1> QED
  BY <1>2, <1>4, <1>5 DEF IInv

LEMMA CancelledWhenReadyInv == IInv /\ CancelledWhenReady => IInv'
<1> SUFFICES ASSUME IInv, CancelledWhenReady PROVE IInv'
  OBVIOUS
<1>1. Dispose
  BY DEF CancelledWhenReady, Fail, WaitFor
<1>2. ChainInv' /\ \A r \in Resources : Known(r)' => Known(r)
  BY <1>1, DisposeKeepsChain DEF IInv, CancelledWhenReady, chain
<1>3. /\ disposed' /\ cleanups' = <<>> /\ scheduled' \in Seq(Resources)
      /\ Len(scheduled) \in Nat /\ Len(scheduled') \in Nat /\ Len(scheduled) <= Len(scheduled')
      /\ disposed => scheduled' = scheduled
  BY <1>1, DisposeFacts DEF IInv
<1>4. TypeOK'
  BY <1>3 DEF IInv, TypeOK, Waiters, CancelledWhenReady, Fail, WaitFor, chain, stream
<1>5. ControlInv'
  BY <1>2, <1>3 DEF IInv, TypeOK, Resources, Preparing, Waiters, CancelledWhenReady, Fail, WaitFor,
               chain, stream,
               ControlInv, AcquiredOnce, BodyIsLast, WaitersAreLast, WaitsForAll, AllEnded,
               StreamIsAttached, LoopIsServed
<1> QED
  BY <1>2, <1>4, <1>5 DEF IInv

LEMMA ReadDoneInv == IInv /\ ReadDone => IInv'
<1> SUFFICES ASSUME IInv, ReadDone PROVE IInv'
  OBVIOUS
<1>1. Dispose
  BY DEF ReadDone, Detach, WaitFor
<1>2. ChainInv' /\ \A r \in Resources : Known(r)' => Known(r)
  BY <1>1, DisposeKeepsChain DEF IInv, ReadDone, chain
<1>3. /\ disposed' /\ cleanups' = <<>> /\ scheduled' \in Seq(Resources)
      /\ Len(scheduled) \in Nat /\ Len(scheduled') \in Nat /\ Len(scheduled) <= Len(scheduled')
      /\ disposed => scheduled' = scheduled
  BY <1>1, DisposeFacts DEF IInv
<1>4. TypeOK'
  BY <1>3 DEF IInv, TypeOK, Waiters, ReadDone, Detach, WaitFor, chain, stream
<1>5. ControlInv'
  BY <1>2, <1>3 DEF IInv, TypeOK, Resources, Preparing, Waiters, ReadDone, Detach, WaitFor,
               chain, stream,
               ControlInv, AcquiredOnce, BodyIsLast, WaitersAreLast, WaitsForAll, AllEnded,
               StreamIsAttached, LoopIsServed
<1> QED
  BY <1>2, <1>4, <1>5 DEF IInv

LEMMA ReadFailsInv == IInv /\ ReadFails => IInv'
<1> SUFFICES ASSUME IInv, ReadFails PROVE IInv'
  OBVIOUS
<1>1. Dispose
  BY DEF ReadFails, Detach, AbortOnFailure, WaitFor
<1>2. ChainInv' /\ \A r \in Resources : Known(r)' => Known(r)
  BY <1>1, DisposeKeepsChain DEF IInv, ReadFails, chain
<1>3. /\ disposed' /\ cleanups' = <<>> /\ scheduled' \in Seq(Resources)
      /\ Len(scheduled) \in Nat /\ Len(scheduled') \in Nat /\ Len(scheduled) <= Len(scheduled')
      /\ disposed => scheduled' = scheduled
  BY <1>1, DisposeFacts DEF IInv
<1>4. TypeOK'
  BY <1>3 DEF IInv, TypeOK, Waiters, ReadFails, Detach, AbortOnFailure, WaitFor, chain, stream
<1>5. ControlInv'
  BY <1>2, <1>3 DEF IInv, TypeOK, Resources, Preparing, Waiters, ReadFails, Detach, AbortOnFailure, WaitFor,
               chain, stream,
               ControlInv, AcquiredOnce, BodyIsLast, WaitersAreLast, WaitsForAll, AllEnded,
               StreamIsAttached, LoopIsServed
<1> QED
  BY <1>2, <1>4, <1>5 DEF IInv

LEMMA ClientLeavesInv == IInv /\ ClientLeaves => IInv'
<1> SUFFICES ASSUME IInv, ClientLeaves PROVE IInv'
  OBVIOUS
<1>1. Dispose
  BY DEF ClientLeaves, WaitFor
<1>2. ChainInv' /\ \A r \in Resources : Known(r)' => Known(r)
  BY <1>1, DisposeKeepsChain DEF IInv, ClientLeaves, chain
<1>3. /\ disposed' /\ cleanups' = <<>> /\ scheduled' \in Seq(Resources)
      /\ Len(scheduled) \in Nat /\ Len(scheduled') \in Nat /\ Len(scheduled) <= Len(scheduled')
      /\ disposed => scheduled' = scheduled
  BY <1>1, DisposeFacts DEF IInv
<1>4. TypeOK'
  BY <1>3 DEF IInv, TypeOK, Waiters, ClientLeaves, WaitFor, chain, stream
<1>5. ControlInv'
  BY <1>2, <1>3 DEF IInv, TypeOK, Resources, Preparing, Waiters, ClientLeaves, WaitFor,
               chain, stream,
               ControlInv, AcquiredOnce, BodyIsLast, WaitersAreLast, WaitsForAll, AllEnded,
               StreamIsAttached, LoopIsServed
<1> QED
  BY <1>2, <1>4, <1>5 DEF IInv


LEMMA AnsweredInv == IInv /\ Answered => IInv'
<1> SUFFICES ASSUME IInv, Answered PROVE IInv'
  OBVIOUS
<1>p. pc \in {"deferring", "request", "direct", "model", "scope"}
  BY DEF Answered, Service
<1>1. CASE aborted
  <2>1. Fail
    BY <1>1 DEF Answered, Proceed
  <2>2. Dispose /\ pc' = "failing" /\ awaits' = [awaits EXCEPT !["runner"] = Len(scheduled')]
    BY <2>1 DEF Fail, WaitFor
  <2>c. UNCHANGED <<aborted, chain, held, late, disposals, loop, stream>>
    BY DEF Answered
  <2>3. ChainInv' /\ \A r \in Resources : Known(r)' => Known(r)
    BY <2>2, <2>c, DisposeKeepsChain DEF IInv, chain
  <2>4. /\ disposed' /\ cleanups' = <<>> /\ scheduled' \in Seq(Resources)
        /\ Len(scheduled) \in Nat /\ Len(scheduled') \in Nat /\ Len(scheduled) <= Len(scheduled')
        /\ disposed => scheduled' = scheduled
    BY <2>2, DisposeFacts DEF IInv
  <2>5. TypeOK'
    BY <2>2, <2>c, <2>4 DEF IInv, TypeOK, Waiters, chain, stream, Dispose
  <2>6. ControlInv'
    BY <1>p, <2>2, <2>c, <2>3, <2>4 DEF IInv, TypeOK, Resources, Preparing, Waiters, chain, stream,
               ControlInv, AcquiredOnce, BodyIsLast, WaitersAreLast, WaitsForAll, AllEnded,
               StreamIsAttached, LoopIsServed
  <2> QED
    BY <2>3, <2>5, <2>6 DEF IInv
<1>2. CASE ~aborted
  <2>1. /\ pc' \in {"request", "direct", "model", "scope", "runtime"}
        /\ UNCHANGED <<lifecycle, awaits>>
    BY <1>2 DEF Answered, Proceed, Service, lifecycle
  <2>c. UNCHANGED <<chain, held, late, disposals, loop, stream>>
    BY DEF Answered
  <2>2. ChainInv' /\ \A r \in Resources : Known(r)' <=> Known(r)
    BY <2>1, <2>c, ChainUnchanged DEF IInv, lifecycle, chain
  <2>3. TypeOK'
    BY <2>1, <2>c DEF IInv, TypeOK, Preparing, lifecycle, chain, stream
  <2>4. ControlInv'
    BY <1>p, <2>1, <2>c, <2>2 DEF IInv, TypeOK, Resources, Preparing, lifecycle, chain, stream,
               ControlInv, AcquiredOnce, BodyIsLast, WaitersAreLast, WaitsForAll, AllEnded,
               StreamIsAttached, LoopIsServed
  <2> QED
    BY <2>2, <2>3, <2>4 DEF IInv
<1> QED
  BY <1>1, <1>2

-----------------------------------------------------------------------------
\* The steps that acquire.
LEMMA RuntimePreparedInv == IInv /\ RuntimePrepared => IInv'
<1> SUFFICES ASSUME IInv, RuntimePrepared PROVE IInv'
  OBVIOUS
<1>1. /\ pc = "runtime" /\ pc' = "ready" /\ Acquire("runtime")
      /\ UNCHANGED <<aborted, disposed, chain, disposals, loop, stream>>
  BY DEF RuntimePrepared
<1>2. ~Known("runtime") /\ source = "none"
  BY <1>1 DEF IInv, ControlInv, AcquiredOnce, BodyIsLast, Preparing
<1>3. /\ ChainInv'
      /\ cleanups' \in Seq(Resources) /\ scheduled' \in Seq(Resources)
      /\ disposed <=> cleanups' = <<>>
      /\ Len(scheduled') \in {Len(scheduled), Len(scheduled) + 1}
      /\ \A q \in Resources : Known(q)' => q = "runtime" \/ Known(q)
  BY <1>1, <1>2, AcquireKeepsChain DEF IInv, chain
<1>4. held' = held \cup {"runtime"} /\ late' \subseteq late \cup {"runtime"}
  BY <1>1 DEF Acquire
<1>5. Len(scheduled) \in Nat /\ ended \in 0 .. Len(scheduled)
  BY DEF IInv, TypeOK
<1>6. awaits' \in [Waiters -> 0 .. Len(scheduled')]
  BY <1>3, <1>5 DEF IInv, TypeOK, RuntimePrepared, Waiters
<1>7. ended' \in 0 .. Len(scheduled') /\ (cleaning' => ended' < Len(scheduled'))
  BY <1>1, <1>3, <1>5 DEF IInv, TypeOK, chain
<1>8. TypeOK'
  BY <1>1, <1>3, <1>4, <1>6, <1>7 DEF IInv, TypeOK, Preparing, Resources, chain, stream
<1>9. ControlInv'
  BY <1>1, <1>2, <1>3, <1>4 DEF IInv, TypeOK, Resources, Preparing, chain, stream,
               ControlInv, AcquiredOnce, BodyIsLast, WaitersAreLast, WaitsForAll, AllEnded,
               StreamIsAttached, LoopIsServed
<1> QED
  BY <1>3, <1>8, <1>9 DEF IInv

\* A body, late or not, is registered: all that the two actions share.
LEMMA OwnBodyInv ==
  ASSUME IInv, OwnBody, pc \in {"direct", "model", "ready"},
         UNCHANGED <<aborted, chain, disposals>>,
         \/ loop' = loop
         \/ loop' = "running" /\ pc = "ready" /\ ~aborted
  PROVE  IInv'
<1>1. /\ Acquire("body") /\ source' = "open" /\ finished' = aborted /\ UNCHANGED <<disposed, puller>>
      /\ output' = IF aborted THEN "errored" ELSE "open"
      /\ aborted => pc' = "failing" /\ awaits' = [awaits EXCEPT !["runner"] = Len(scheduled')]
      /\ ~aborted => pc' = "returned" /\ awaits' = awaits
  BY DEF OwnBody, WaitFor
<1>2. ~Known("body") /\ source = "none" /\ puller = "idle" /\ output = "none" /\ loop = "none"
  BY DEF IInv, ControlInv, AcquiredOnce, BodyIsLast, LoopIsServed
<1>3. /\ ChainInv'
      /\ cleanups' \in Seq(Resources) /\ scheduled' \in Seq(Resources)
      /\ disposed <=> cleanups' = <<>>
      /\ Len(scheduled') \in {Len(scheduled), Len(scheduled) + 1}
      /\ \A q \in Resources : Known(q)' => q = "body" \/ Known(q)
  BY <1>1, <1>2, AcquireKeepsChain DEF IInv, chain
<1>4. held' = held \cup {"body"} /\ late' \subseteq late \cup {"body"}
  BY <1>1 DEF Acquire
<1>5. Len(scheduled) \in Nat /\ Len(scheduled') \in Nat /\ ended \in 0 .. Len(scheduled)
  BY <1>3 DEF IInv, TypeOK
<1>6. awaits' \in [Waiters -> 0 .. Len(scheduled')]
  BY <1>1, <1>3, <1>5 DEF IInv, TypeOK, Waiters
<1>7. ended' \in 0 .. Len(scheduled') /\ (cleaning' => ended' < Len(scheduled'))
  BY <1>3, <1>5 DEF IInv, TypeOK, chain
<1>8. TypeOK'
  BY <1>1, <1>2, <1>3, <1>4, <1>6, <1>7 DEF IInv, TypeOK, Preparing, Resources, chain
<1>9. ControlInv'
  BY <1>1, <1>2, <1>3, <1>4 DEF IInv, TypeOK, Resources, Preparing, Waiters, chain,
               ControlInv, AcquiredOnce, BodyIsLast, WaitersAreLast, WaitsForAll, AllEnded,
               StreamIsAttached, LoopIsServed
<1> QED
  BY <1>3, <1>8, <1>9 DEF IInv

LEMMA EarlyResponseInv == IInv /\ EarlyResponse => IInv'
  BY OwnBodyInv DEF EarlyResponse

LEMMA StartLoopInv == IInv /\ StartLoop => IInv'
  BY OwnBodyInv DEF StartLoop

-----------------------------------------------------------------------------
LEMMA StutterInv == IInv /\ UNCHANGED vars => IInv'
<1> SUFFICES ASSUME IInv, UNCHANGED vars PROVE IInv'
  OBVIOUS
<1>1. ChainInv' /\ \A r \in Resources : Known(r)' <=> Known(r)
  BY ChainUnchanged DEF IInv, vars, lifecycle, chain
<1>2. TypeOK'
  BY DEF IInv, TypeOK, vars, lifecycle, chain, stream
<1>3. ControlInv'
  BY <1>1 DEF IInv, Resources, Preparing, vars, lifecycle, chain, stream,
               ControlInv, AcquiredOnce, BodyIsLast, WaitersAreLast, WaitsForAll, AllEnded,
               StreamIsAttached, LoopIsServed
<1> QED
  BY <1>1, <1>2, <1>3 DEF IInv

LEMMA NextInv == IInv /\ [Next]_vars => IInv'
<1> SUFFICES ASSUME IInv, [Next]_vars PROVE IInv'
  OBVIOUS
<1>1. CASE Abort
  BY <1>1, AbortInv
<1>2. CASE CleanupBegins
  BY <1>2, CleanupBeginsInv
<1>3. CASE RuntimeDisposed
  BY <1>3, RuntimeDisposedInv
<1>4. CASE CleanupEnds
  BY <1>4, CleanupEndsInv
<1>5. CASE Answered
  BY <1>5, AnsweredInv
<1>6. CASE ServiceFails
  BY <1>6, ServiceFailsInv
<1>7. CASE RuntimePrepared
  BY <1>7, RuntimePreparedInv
<1>8. CASE EarlyResponse
  BY <1>8, EarlyResponseInv
<1>9. CASE EmptyResponse
  BY <1>9, EmptyResponseInv
<1>10. CASE StartLoop
  BY <1>10, StartLoopInv
<1>11. CASE CancelledWhenReady
  BY <1>11, CancelledWhenReadyInv
<1>12. CASE RunnerEnds
  BY <1>12, RunnerEndsInv
<1>13. CASE LoopEnds
  BY <1>13, LoopEndsInv
<1>14. CASE LoopCloses
  BY <1>14, LoopClosesInv
<1>15. CASE SourceEnds
  BY <1>15, SourceEndsInv
<1>16. CASE Pull
  BY <1>16, PullInv
<1>17. CASE ReadReturns
  BY <1>17, ReadReturnsInv
<1>18. CASE ReadDone
  BY <1>18, ReadDoneInv
<1>19. CASE ReadFails
  BY <1>19, ReadFailsInv
<1>20. CASE PullEnds
  BY <1>20, PullEndsInv
<1>21. CASE ClientLeft
  BY <1>21, ClientLeftInv
<1>22. CASE ClientLeaves
  BY <1>22, ClientLeavesInv
<1>23. CASE UNCHANGED vars
  BY <1>23, StutterInv
<1> QED
  BY <1>1, <1>2, <1>3, <1>4, <1>5, <1>6, <1>7, <1>8, <1>9, <1>10, <1>11, <1>12, <1>13, <1>14, <1>15, <1>16, <1>17, <1>18, <1>19, <1>20, <1>21, <1>22, <1>23
     DEF Next, Cleanup, Runner, Stream

-----------------------------------------------------------------------------
\* The inductive invariant holds in every state of every turn.
THEOREM Invariant == Spec => []IInv
<1>1. Init => IInv
  BY InitInv
<1>2. IInv /\ [Next]_vars => IInv'
  BY NextInv
<1> QED
  BY <1>1, <1>2, PTL DEF Spec

\* Every variable keeps its type, and a turn is disposed when its cleanups
\* are handed over (dispose).
THEOREM TypeCorrect == Spec => []TypeOK
<1>1. IInv => TypeOK
  BY DEF IInv
<1> QED
  BY <1>1, Invariant, PTL

\* No cleanup is on the chain twice and the runtime is disposed at most once
\* (dispose, defer, disposeRuntime).
THEOREM NothingReleasedTwice == Spec => []ReleasedOnce
<1>1. IInv => ReleasedOnce
  BY DEF IInv, ChainInv, KnownOnce, ControlInv, ReleasedOnce
<1> QED
  BY <1>1, Invariant, PTL

\* Whoever learns that the turn is over finds all its resources released
\* (the awaits of dispose in the runner, in pull and in cancel).
THEOREM NothingHeldAtTheEnd == Spec => []EndedHoldsNothing
<1>1. IInv => EndedHoldsNothing
  <2> SUFFICES ASSUME IInv,
                      \/ pc = "thrown"
                      \/ pc = "returned" /\ source = "none"
                      \/ output \in {"closed", "left"}
               PROVE  held = {}
    BY DEF EndedHoldsNothing, Over
  <2>1. AllEnded
    BY DEF IInv, ControlInv, WaitersAreLast
  <2>2. cleanups = <<>> /\ Len(cleanups) = 0 /\ Len(scheduled) \in Nat
    BY <2>1 DEF IInv, TypeOK, AllEnded
  <2>3. \A r : ~IsRegistered(r) /\ ~IsDue(r)
    BY <2>1, <2>2 DEF IsRegistered, IsDue, AllEnded
  <2> QED
    BY <2>3 DEF IInv, ChainInv, HeldIsDue
<1> QED
  BY <1>1, Invariant, PTL

\* The runtime of a running loop is not taken away unless the signal of the
\* turn is aborted (execute, pull).
THEOREM LoopKeepsItsRuntime == Spec => []RuntimeOutlivesLoop
<1>1. IInv => RuntimeOutlivesLoop
  BY DEF IInv, TypeOK, ControlInv, LoopIsServed, RuntimeOutlivesLoop
<1> QED
  BY <1>1, Invariant, PTL

\* The response stream never reads a body whose reader was given back, and
\* a client that may still read it finds it attached.
ReadsAnOpenBody ==
  output = "open" /\ ~finished => "body" \in held /\ source # "cancelled"

\* A client that may still read has a body that is attached (onAbort, pull).
THEOREM ReaderIsAttached == Spec => []ReadsAnOpenBody
<1>1. IInv => ReadsAnOpenBody
  BY DEF IInv, ControlInv, StreamIsAttached, ReadsAnOpenBody
<1> QED
  BY <1>1, Invariant, PTL

\* The execution state closes after everything that was acquired in time
\* (the reversal in dispose, and defer for what is late).
THEOREM StateIsClosedLast == Spec => []StateClosesLast
<1>1. IInv => StateClosesLast
  <2> SUFFICES ASSUME IInv, "state" \notin held, NEW r \in held PROVE r \in late
    BY DEF StateClosesLast
  <2>1. disposed /\ cleanups = <<>> /\ Len(cleanups) = 0
    BY DEF IInv, TypeOK, ChainInv, StateIsFirst
  <2>2. Len(scheduled) \in Nat /\ ended \in 0 .. Len(scheduled)
    BY DEF IInv, TypeOK
  <2>3. PICK i \in 1 .. ended : scheduled[i] = "state"
    BY DEF IInv, ChainInv, StateIsFirst
  <2>4. PICK j \in (ended + 1) .. Len(scheduled) : scheduled[j] = r
    BY <2>1 DEF IInv, ChainInv, HeldIsDue, IsRegistered, IsDue
  <2>5. i \in 1 .. Len(scheduled) /\ j \in 1 .. Len(scheduled) /\ i < j
    BY <2>2
  <2> QED
    BY <2>3, <2>4, <2>5 DEF IInv, ChainInv, StateIsFirst
<1> QED
  BY <1>1, Invariant, PTL

\* A completed turn is neither failed nor aborted by a late cancellation
\* (detach in pull, removeEventListener in dispose).
THEOREM CompletedTurnsStand == Spec => CompletionStands
<1>1. IInv /\ [Next]_vars =>
        [puller = "closing" =>
           /\ output' \in {"open", "closed", "leaving", "left"}
           /\ aborted' # aborted => output' = "leaving"]_vars
  <2> SUFFICES ASSUME IInv, [Next]_vars, puller = "closing"
               PROVE  /\ output' \in {"open", "closed", "leaving", "left"}
                      /\ aborted' # aborted => output' = "leaving"
    OBVIOUS
  <2>1. disposed /\ output \in {"open", "leaving", "left"} /\ pc = "returned"
    BY DEF IInv, ControlInv, WaitersAreLast, WaitsForAll, StreamIsAttached, BodyIsLast
  <2>2. CASE Cleanup
    BY <2>1, <2>2 DEF Cleanup, CleanupBegins, RuntimeDisposed, CleanupEnds, lifecycle, stream
  <2>3. CASE Runner
    BY <2>1, <2>3 DEF Runner, Answered, Service, ServiceFails, RuntimePrepared, EarlyResponse,
                      EmptyResponse, StartLoop, CancelledWhenReady, RunnerEnds, lifecycle, stream
  <2>4. CASE Stream
    BY <2>1, <2>4 DEF Stream, Pull, ReadReturns, ReadDone, ReadFails, PullEnds, ClientLeft, lifecycle
  <2>5. CASE LoopEnds \/ LoopCloses \/ SourceEnds
    BY <2>1, <2>5 DEF LoopEnds, LoopCloses, SourceEnds, lifecycle, stream
  <2>6. CASE Abort
    BY <2>1, <2>6 DEF Abort, Listens
  <2>7. CASE ClientLeaves
    BY <2>7 DEF ClientLeaves
  <2>8. CASE UNCHANGED vars
    BY <2>1, <2>8 DEF vars, lifecycle, stream
  <2> QED
    BY <2>2, <2>3, <2>4, <2>5, <2>6, <2>7, <2>8 DEF Next
<1> QED
  BY <1>1, Invariant, PTL DEF Spec, CompletionStands

-----------------------------------------------------------------------------
(* The turn implements Lifetime.  What was acquired is registered or on the *)
(* chain for good (KnownResources), and a step changes what is known or what *)
(* is held by one resource at most.                                         *)

KnownResources == Elements(cleanups) \cup Elements(scheduled)

LEMMA KnownIsKnown ==
  /\ \A r : r \in KnownResources <=> Known(r)
  /\ TypeOK => KnownResources \subseteq Resources
<1>1. \A r : r \in KnownResources <=> Known(r)
  BY DEF KnownResources, Elements, Known, IsRegistered, IsScheduled
<1>2. ASSUME TypeOK, NEW r, Known(r) PROVE r \in Resources
  <2>1. cleanups \in Seq(Resources) /\ scheduled \in Seq(Resources)
    BY <1>2 DEF TypeOK
  <2>2. /\ \A i \in 1 .. Len(cleanups) : cleanups[i] \in Resources
        /\ \A i \in 1 .. Len(scheduled) : scheduled[i] \in Resources
    BY <2>1
  <2> QED BY <1>2, <2>2 DEF Known, IsRegistered, IsScheduled
<1> QED BY <1>1, <1>2

\* What is held is known: it is registered, or due on the chain.
HeldIsKnown == held \subseteq KnownResources /\ KnownResources \subseteq Resources

LEMMA HeldKnown == IInv => HeldIsKnown
<1> SUFFICES ASSUME IInv, NEW r \in held PROVE Known(r)
  BY KnownIsKnown DEF HeldIsKnown, IInv
<1>1. ended \in Nat
  BY DEF IInv, TypeOK
<1> QED
  BY <1>1 DEF IInv, ChainInv, HeldIsDue, Known, IsScheduled, IsDue

\* dispose() hands the cleanups over and forgets none.
LEMMA DisposeForgetsNothing ==
  ASSUME TypeOK, Dispose
  PROVE  KnownResources' = KnownResources
<1> DEFINE n == Len(scheduled)  m == Len(cleanups)
<1>0. n \in Nat /\ m \in Nat
  BY DEF TypeOK
<1>1. /\ cleanups' = <<>>
      /\ Len(scheduled') = n + m
      /\ \A i \in 1 .. n : scheduled'[i] = scheduled[i]
      /\ \A i \in 1 .. n + m : i > n =>
           \E j \in 1 .. m : i + j = n + m + 1 /\ scheduled'[i] = cleanups[j]
      /\ \A j \in 1 .. m :
           \E i \in 1 .. n + m : i > n /\ i + j = n + m + 1 /\ scheduled'[i] = cleanups[j]
  BY DisposeHands
<1>2. Elements(cleanups') = {}
  BY <1>1 DEF Elements
<1> HIDE DEF n, m
<1>3. /\ Elements(cleanups) = {cleanups[j] : j \in 1 .. m}
      /\ Elements(scheduled) = {scheduled[i] : i \in 1 .. n}
      /\ Elements(scheduled') = {scheduled'[i] : i \in 1 .. n + m}
  BY <1>1 DEF Elements, n, m
<1>4. ASSUME NEW i \in 1 .. n + m
      PROVE  scheduled'[i] \in Elements(cleanups) \cup Elements(scheduled)
  <2>1. CASE i <= n
    BY <1>0, <1>1, <1>3, <2>1
  <2>2. CASE i > n
    BY <1>1, <1>3, <2>2
  <2> QED BY <1>0, <2>1, <2>2
<1>5. ASSUME NEW i \in 1 .. n PROVE scheduled[i] \in Elements(scheduled')
  <2>1. i \in 1 .. n + m /\ scheduled'[i] = scheduled[i]
    BY <1>0, <1>1
  <2> QED BY <1>3, <2>1
<1>6. ASSUME NEW j \in 1 .. m PROVE cleanups[j] \in Elements(scheduled')
  BY <1>1, <1>3
<1> QED BY <1>2, <1>3, <1>4, <1>5, <1>6 DEF KnownResources

\* Registering one resource makes it known and forgets none.
LEMMA RegisteredIsKnown ==
  ASSUME TypeOK, NEW r \in Resources, Registered(r)
  PROVE  KnownResources' = KnownResources \cup {r}
<1>1. ASSUME NEW s \in Seq(Resources) PROVE Elements(Append(s, r)) = Elements(s) \cup {r}
  <2>1. Len(s) \in Nat /\ Len(Append(s, r)) = Len(s) + 1 /\ Append(s, r)[Len(s) + 1] = r
    BY <1>1
  <2>2. \A i \in 1 .. Len(s) : Append(s, r)[i] = s[i]
    BY <1>1
  <2>3. 1 .. Len(s) + 1 = (1 .. Len(s)) \cup {Len(s) + 1}
    BY <2>1
  <2> QED BY <2>1, <2>2, <2>3 DEF Elements
<1>2. cleanups \in Seq(Resources) /\ scheduled \in Seq(Resources)
  BY DEF TypeOK
<1>3. CASE disposed
  <2>1. cleanups' = cleanups /\ scheduled' = Append(scheduled, r)
    BY <1>3 DEF Registered
  <2>2. Elements(scheduled') = Elements(scheduled) \cup {r}
    BY <1>1, <1>2, <2>1
  <2> QED BY <2>1, <2>2 DEF KnownResources
<1>4. CASE ~disposed
  <2>1. scheduled' = scheduled /\ cleanups' = Append(cleanups, r)
    BY <1>4 DEF Registered
  <2>2. Elements(cleanups') = Elements(cleanups) \cup {r}
    BY <1>1, <1>2, <2>1
  <2> QED BY <2>1, <2>2 DEF KnownResources
<1> QED BY <1>3, <1>4

-----------------------------------------------------------------------------
\* A step that acquires.
AcquiresOne(r) ==
  /\ r \in Resources /\ r \notin KnownResources
  /\ KnownResources' = KnownResources \cup {r}
  /\ held' = held \cup {r}
  /\ ~Over

\* A step that acquires nothing releases at most one resource, and once the
\* turn was over it stays so.
ReleasesAtMost ==
  /\ KnownResources' = KnownResources
  /\ held' = held \/ \E r \in held : held' = held \ {r} /\ (Over' <=> Over)
  /\ Over => Over'

LEMMA CleanupsRelease == IInv /\ Cleanup => ReleasesAtMost
<1> SUFFICES ASSUME IInv, Cleanup PROVE ReleasesAtMost
  OBVIOUS
<1>1. /\ UNCHANGED <<cleanups, scheduled, pc, output>>
      /\ source = "none" <=> source' = "none"
      /\ held' = held \/ \E r : held' = held \ {r}
  <2>1. CASE CleanupBegins
    <3>1. UNCHANGED <<cleanups, scheduled, pc, output>>
      BY <2>1 DEF CleanupBegins, lifecycle
    <3>2. CASE Due = "state"
      BY <2>1, <3>1, <3>2 DEF CleanupBegins
    <3>3. CASE Due = "runtime"
      BY <2>1, <3>1, <3>3 DEF CleanupBegins
    <3>4. CASE Due = "body"
      BY <2>1, <3>1, <3>4 DEF CleanupBegins
    <3>5. Due \in Resources
      BY <2>1 DEF CleanupBegins, Due, IInv, TypeOK
    <3> QED BY <3>2, <3>3, <3>4, <3>5 DEF Resources
  <2>2. CASE RuntimeDisposed
    BY <2>2 DEF RuntimeDisposed, lifecycle, stream
  <2>3. CASE CleanupEnds
    BY <2>3 DEF CleanupEnds, lifecycle, stream
  <2> QED BY <2>1, <2>2, <2>3 DEF Cleanup
<1>2. KnownResources' = KnownResources /\ (Over' <=> Over)
  BY <1>1 DEF KnownResources, Over
<1>3. held' = held \/ \E r \in held : held' = held \ {r}
  <2> SUFFICES ASSUME NEW r, held' = held \ {r}, r \notin held PROVE held' = held
    BY <1>1
  <2> QED OBVIOUS
<1> QED BY <1>2, <1>3 DEF ReleasesAtMost

\* The steps of the runner that acquire nothing.
LEMMA PreparationsRelease ==
  IInv /\ (Answered \/ ServiceFails \/ EmptyResponse \/ CancelledWhenReady \/ RunnerEnds)
    => ReleasesAtMost
<1> SUFFICES ASSUME IInv, Answered \/ ServiceFails \/ EmptyResponse \/ CancelledWhenReady \/ RunnerEnds
             PROVE  ReleasesAtMost
  OBVIOUS
<1>1. UNCHANGED <<held, source, output>>
  BY DEF Answered, ServiceFails, EmptyResponse, CancelledWhenReady, RunnerEnds, stream
<1>2. Dispose \/ UNCHANGED <<cleanups, scheduled>>
  BY DEF Answered, Proceed, Fail, ServiceFails, EmptyResponse, CancelledWhenReady, RunnerEnds, lifecycle
<1>3. KnownResources' = KnownResources
  BY <1>2, DisposeForgetsNothing DEF IInv, KnownResources
<1>4. pc \notin {"thrown", "returned"}
  BY DEF Answered, Service, ServiceFails, EmptyResponse, CancelledWhenReady, RunnerEnds
<1>5. Over => Over'
  BY <1>1, <1>4 DEF Over
<1> QED BY <1>1, <1>3, <1>5 DEF ReleasesAtMost

LEMMA StreamReleasesNothing ==
  IInv /\ (Stream \/ Abort \/ ClientLeaves \/ LoopEnds \/ LoopCloses \/ SourceEnds \/ UNCHANGED vars)
    => ReleasesAtMost
<1> SUFFICES ASSUME IInv,
                    Stream \/ Abort \/ ClientLeaves \/ LoopEnds \/ LoopCloses \/ SourceEnds
                      \/ UNCHANGED vars
             PROVE  ReleasesAtMost
  OBVIOUS
<1>1. UNCHANGED <<held, pc>> /\ (source = "none" <=> source' = "none")
  BY DEF Stream, Pull, ReadReturns, ReadDone, ReadFails, PullEnds, ClientLeft, Abort, ClientLeaves,
         LoopEnds, LoopCloses, CloseSource, SourceEnds, vars, lifecycle, stream
<1>2. Dispose \/ UNCHANGED <<cleanups, scheduled>>
  BY DEF Stream, Pull, ReadReturns, ReadDone, ReadFails, PullEnds, ClientLeft, Abort, ClientLeaves,
         LoopEnds, LoopCloses, SourceEnds, vars, lifecycle, stream
<1>3. KnownResources' = KnownResources
  BY <1>2, DisposeForgetsNothing DEF IInv, KnownResources
<1>4. output \in {"closed", "left"} => output' = output
  BY DEF Stream, Pull, ReadReturns, ReadDone, ReadFails, PullEnds, ClientLeft, Abort, Heard, ClientLeaves,
         LoopEnds, LoopCloses, SourceEnds, vars, lifecycle, stream
<1>5. Over => Over'
  BY <1>1, <1>4 DEF Over
<1> QED BY <1>1, <1>3, <1>5 DEF ReleasesAtMost

LEMMA RuntimeIsAcquired == IInv /\ RuntimePrepared => AcquiresOne("runtime") /\ ~Over'
<1> SUFFICES ASSUME IInv, RuntimePrepared PROVE AcquiresOne("runtime") /\ ~Over'
  OBVIOUS
<1>1. /\ pc = "runtime" /\ pc' = "ready" /\ Registered("runtime") /\ held' = held \cup {"runtime"}
      /\ output' = output
  BY DEF RuntimePrepared, Acquire, stream
<1>2. ~Known("runtime") /\ source = "none" /\ output = "none"
  BY <1>1 DEF IInv, ControlInv, AcquiredOnce, BodyIsLast, Preparing
<1>3. KnownResources' = KnownResources \cup {"runtime"}
  BY <1>1, RegisteredIsKnown DEF IInv, Resources
<1> QED BY <1>1, <1>2, <1>3, KnownIsKnown DEF AcquiresOne, Over, Resources

LEMMA BodyIsAcquired ==
  IInv /\ (EarlyResponse \/ StartLoop) => AcquiresOne("body") /\ ~Over'
<1> SUFFICES ASSUME IInv, EarlyResponse \/ StartLoop PROVE AcquiresOne("body") /\ ~Over'
  OBVIOUS
<1>1. /\ pc \in {"direct", "model", "ready"} /\ pc' \in {"failing", "returned"}
      /\ Registered("body") /\ held' = held \cup {"body"}
      /\ source' = "open" /\ output' \in {"errored", "open"}
  BY DEF EarlyResponse, StartLoop, OwnBody, Acquire
<1>2. ~Known("body") /\ output = "none"
  BY <1>1 DEF IInv, ControlInv, AcquiredOnce, BodyIsLast
<1>3. KnownResources' = KnownResources \cup {"body"}
  BY <1>1, RegisteredIsKnown DEF IInv, Resources
<1> QED BY <1>1, <1>2, <1>3, KnownIsKnown DEF AcquiresOne, Over, Resources

LEMMA OneLifetimeStep ==
  HeldIsKnown /\ HeldIsKnown' /\ EndedHoldsNothing'
    /\ (ReleasesAtMost \/ \E r \in Resources : AcquiresOne(r) /\ ~Over')
    => [Turn!LifetimeNext]_(Turn!lifetimeVars)
<1> SUFFICES ASSUME HeldIsKnown, HeldIsKnown', EndedHoldsNothing',
                    ReleasesAtMost \/ \E r \in Resources : AcquiresOne(r) /\ ~Over'
             PROVE  [Turn!LifetimeNext]_(Turn!lifetimeVars)
  OBVIOUS
<1> DEFINE gone == KnownResources \ held
<1>0. /\ gone = (Elements(cleanups) \cup Elements(scheduled)) \ held
      /\ gone' = (Elements(cleanups') \cup Elements(scheduled')) \ held'
      /\ Over \in BOOLEAN /\ Over' \in BOOLEAN
  BY DEF KnownResources, Over
<1>1. CASE \E r \in Resources : AcquiresOne(r) /\ ~Over'
  <2>1. PICK r \in Resources : AcquiresOne(r) /\ ~Over'
    BY <1>1
  <2>2. gone' = gone /\ r \notin held \cup gone /\ held' = held \cup {r} /\ Over' = Over /\ ~Over
    BY <2>1, <1>0 DEF AcquiresOne, HeldIsKnown
  <2>3. Turn!Acquire(r)
    BY <1>0, <2>2 DEF Turn!Acquire
  <2> QED BY <2>3 DEF Turn!LifetimeNext
<1>2. CASE ReleasesAtMost /\ held' = held
  <2>1. gone' = gone /\ (Over => Over')
    BY <1>2 DEF ReleasesAtMost
  <2>2. CASE Over' = Over
    BY <1>0, <1>2, <2>1, <2>2 DEF Turn!lifetimeVars
  <2>3. CASE ~Over /\ Over'
    <3>1. held = {}
      BY <1>2, <2>3 DEF EndedHoldsNothing
    <3>2. Turn!End
      BY <1>0, <1>2, <2>1, <2>3, <3>1 DEF Turn!End
    <3> QED BY <3>2 DEF Turn!LifetimeNext
  <2> QED BY <1>0, <2>1, <2>2, <2>3
<1>3. CASE ReleasesAtMost /\ held' # held
  <2>1. PICK r \in held : held' = held \ {r} /\ (Over' <=> Over)
    BY <1>3 DEF ReleasesAtMost
  <2>2. gone' = gone \cup {r} /\ r \in Resources /\ Over' = Over
    BY <1>0, <1>3, <2>1 DEF ReleasesAtMost, HeldIsKnown
  <2>3. Turn!Release(r)
    BY <1>0, <2>1, <2>2 DEF Turn!Release
  <2> QED BY <2>2, <2>3 DEF Turn!LifetimeNext
<1> QED BY <1>1, <1>2, <1>3

\* Cancelled, failed, dropped or read to its end, a turn acquires each of its
\* resources once, releases it once, and holds nothing, for good, when someone
\* was told that it is over (defer, dispose, ownResponse): it keeps Lifetime.
THEOREM TurnKeepsTheLifetime == Spec => ImplementsLifetime
<1>1. Init => Turn!LifetimeInit
  <2> SUFFICES ASSUME Init PROVE Turn!LifetimeInit
    OBVIOUS
  <2>1. held = {"state"} /\ ~Over
    BY DEF Init, Over
  <2>2. Elements(cleanups) \cup Elements(scheduled) = {"state"}
    BY DEF Init, Elements
  <2> QED BY <2>1, <2>2 DEF Turn!LifetimeInit, Resources, Over
<1>2. IInv /\ EndedHoldsNothing' /\ HeldIsKnown /\ HeldIsKnown' /\ [Next]_vars
        => [Turn!LifetimeNext]_(Turn!lifetimeVars)
  <2> SUFFICES ASSUME IInv, EndedHoldsNothing', HeldIsKnown, HeldIsKnown', [Next]_vars
               PROVE  [Turn!LifetimeNext]_(Turn!lifetimeVars)
    OBVIOUS
  <2>1. CASE RuntimePrepared
    BY <2>1, RuntimeIsAcquired, OneLifetimeStep DEF AcquiresOne
  <2>2. CASE EarlyResponse \/ StartLoop
    BY <2>2, BodyIsAcquired, OneLifetimeStep DEF AcquiresOne
  <2>3. CASE Cleanup
    BY <2>3, CleanupsRelease, OneLifetimeStep
  <2>4. CASE Answered \/ ServiceFails \/ EmptyResponse \/ CancelledWhenReady \/ RunnerEnds
    BY <2>4, PreparationsRelease, OneLifetimeStep
  <2>5. CASE Stream \/ Abort \/ ClientLeaves \/ LoopEnds \/ LoopCloses \/ SourceEnds \/ UNCHANGED vars
    BY <2>5, StreamReleasesNothing, OneLifetimeStep
  <2> QED BY <2>1, <2>2, <2>3, <2>4, <2>5 DEF Next, Runner
<1> QED
  BY <1>1, <1>2, Invariant, HeldKnown, NothingHeldAtTheEnd, PTL
     DEF Spec, ImplementsLifetime, Turn!LifetimeSpec

-----------------------------------------------------------------------------
(* A cancelled turn never gets stuck: the safety half of CancelledTurnEnds, *)
(* by the guards of the actions.                                            *)

\* CleanupBegins, RuntimeDisposed or CleanupEnds.
CleanupGoesOn ==
  \/ ~cleaning /\ ended < Len(scheduled)
  \/ disposals > 0 /\ "runtime" \in held
  \/ cleaning /\ (Due = "runtime" => "runtime" \notin held)

\* A service that ends, or a runner that has nothing to wait for.
RunnerGoesOn ==
  \/ pc \in {"request", "direct", "model", "scope", "runtime"}
  \/ pc \in {"deferring", "ready", "failing", "finishing"} /\ Waited("runner")

CancelledGoesOn ==
  aborted => \/ held = {} /\ pc \in {"returned", "thrown"}
             \/ CleanupGoesOn
             \/ RunnerGoesOn

\* Who cleans the runtime up has asked it to dispose.
CleaningInv == cleaning /\ Due = "runtime" => disposals > 0

\* The link that is being cleaned up stays the same while others are added.
LEMMA CleaningStays ==
  ASSUME TypeOK, CleaningInv, UNCHANGED chain,
         disposals' = disposals \/ DisposeRuntime,
         UNCHANGED scheduled \/ Dispose \/ \E r \in Resources : Registered(r)
  PROVE  CleaningInv'
<1> SUFFICES ASSUME cleaning, Due' = "runtime" PROVE disposals' > 0
  BY DEF CleaningInv, chain
<1>1. scheduled \in Seq(Resources) /\ ended \in Nat /\ ended + 1 \in 1 .. Len(scheduled)
  BY DEF TypeOK
<1>2. scheduled'[ended + 1] = scheduled[ended + 1]
  <2>1. CASE UNCHANGED scheduled
    BY <2>1
  <2>2. CASE Dispose
    BY <1>1, <2>2, DisposeHands
  <2>3. ASSUME NEW r \in Resources, Registered(r)
        PROVE  scheduled'[ended + 1] = scheduled[ended + 1]
    <3>1. scheduled' = scheduled \/ scheduled' = Append(scheduled, r)
      BY <2>3 DEF Registered
    <3> QED BY <1>1, <3>1
  <2> QED BY <2>1, <2>2, <2>3
<1>3. Due' = Due /\ disposals \in Nat /\ disposals > 0
  BY <1>2 DEF Due, chain, CleaningInv, TypeOK
<1> QED BY <1>3 DEF DisposeRuntime

LEMMA CleaningNext == IInv /\ CleaningInv /\ [Next]_vars => CleaningInv'
<1> SUFFICES ASSUME IInv, CleaningInv, [Next]_vars PROVE CleaningInv'
  OBVIOUS
<1>1. TypeOK
  BY DEF IInv
<1> USE DEF lifecycle, chain, stream, Resources
<1>2. CASE CleanupBegins
  <2>1. Due \in Resources /\ scheduled' = scheduled /\ ~cleaning
    BY <1>1, <1>2 DEF CleanupBegins, Due, TypeOK
  <2>2. CASE Due = "runtime"
    <3>1. DisposeRuntime /\ disposals \in Nat
      BY <1>1, <1>2, <2>2 DEF CleanupBegins, TypeOK
    <3> QED BY <3>1 DEF CleaningInv, DisposeRuntime
  <2>3. CASE Due = "state"
    <3>1. ~cleaning'
      BY <1>2, <2>1, <2>3 DEF CleanupBegins
    <3> QED BY <3>1 DEF CleaningInv
  <2>4. CASE Due = "body"
    <3>1. ended' = ended
      BY <1>2, <2>4 DEF CleanupBegins
    <3>2. Due' = "body"
      BY <2>1, <2>4, <3>1 DEF Due
    <3> QED BY <3>2 DEF CleaningInv
  <2> QED BY <2>1, <2>2, <2>3, <2>4
<1>3. CASE CleanupEnds
  BY <1>3 DEF CleanupEnds, CleaningInv
<1>4. CASE RuntimeDisposed \/ RunnerEnds \/ LoopCloses \/ SourceEnds
  BY <1>1, <1>4, CleaningStays DEF RuntimeDisposed, RunnerEnds, LoopCloses, SourceEnds
<1>5. CASE Pull \/ ReadReturns \/ PullEnds \/ ClientLeft
  BY <1>1, <1>5, CleaningStays DEF Pull, ReadReturns, PullEnds, ClientLeft
<1>6. CASE LoopEnds
  BY <1>1, <1>6, CleaningStays DEF LoopEnds
<1>7. CASE Abort \/ ReadDone \/ ReadFails \/ ClientLeaves
  BY <1>1, <1>7, CleaningStays DEF Abort, ReadDone, ReadFails, ClientLeaves
<1>8. CASE ServiceFails \/ EmptyResponse \/ CancelledWhenReady
  BY <1>1, <1>8, CleaningStays DEF ServiceFails, EmptyResponse, CancelledWhenReady, Fail
<1>9. CASE Answered
  BY <1>1, <1>9, CleaningStays DEF Answered, Proceed, Fail
<1>10. CASE RuntimePrepared
  BY <1>1, <1>10, CleaningStays DEF RuntimePrepared, Acquire
<1>11. CASE EarlyResponse \/ StartLoop
  BY <1>1, <1>11, CleaningStays DEF EarlyResponse, StartLoop, OwnBody, Acquire
<1>12. CASE UNCHANGED vars
  BY <1>1, <1>12, CleaningStays DEF vars
<1> QED
  BY <1>2, <1>3, <1>4, <1>5, <1>6, <1>7, <1>8, <1>9, <1>10, <1>11, <1>12
  DEF Next, Cleanup, Runner, Stream

LEMMA CancelledHasAStep ==
  ASSUME IInv, CleaningInv PROVE CancelledGoesOn
<1>1. /\ scheduled \in Seq(Resources) /\ Len(scheduled) \in Nat
      /\ ended \in 0 .. Len(scheduled) /\ awaits["runner"] \in 0 .. Len(scheduled)
  BY DEF IInv, TypeOK, Waiters
<1>2. ended < Len(scheduled) => CleanupGoesOn
  <2> SUFFICES ASSUME ended < Len(scheduled), cleaning, Due = "runtime", "runtime" \in held
               PROVE  CleanupGoesOn
    BY DEF CleanupGoesOn
  <2> QED BY DEF CleaningInv, CleanupGoesOn
<1>3. ~Waited("runner") => CleanupGoesOn
  BY <1>1, <1>2 DEF Waited
<1>4. ASSUME aborted, NEW r \in held PROVE CleanupGoesOn
  <2>1. disposed /\ cleanups = <<>> /\ Len(cleanups) = 0
    BY <1>4 DEF IInv, ControlInv, TypeOK
  <2>2. PICK i \in (ended + 1) .. Len(scheduled) : scheduled[i] = r
    BY <2>1 DEF IInv, ChainInv, HeldIsDue, IsRegistered, IsDue
  <2> QED BY <1>1, <1>2, <2>2
<1>5. pc \notin {"returned", "thrown"} => CleanupGoesOn \/ RunnerGoesOn
  BY <1>3 DEF RunnerGoesOn, IInv, TypeOK, Preparing
<1> QED BY <1>4, <1>5 DEF CancelledGoesOn

\* A cancelled turn that still holds something or has not answered always
\* has a cleanup or a step of its runner to go on with, whoever disposed
\* what before (disposeRuntime, dispose, the catch of the runner).
THEOREM CancelledNeverStuck == Spec => []CancelledGoesOn
<1>1. Init => CleaningInv
  BY DEF Init, CleaningInv
<1> QED
  BY <1>1, CleaningNext, CancelledHasAStep, Invariant, PTL DEF Spec

=============================================================================
