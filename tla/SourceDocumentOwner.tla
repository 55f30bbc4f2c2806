------------------------- MODULE SourceDocumentOwner -------------------------
(***************************************************************************)
(* The server's ownership of source bundles (source-document-owner.server  *)
(* .ts).  An editor that opens a bundle claims its directory and holds the *)
(* lease for as long as its response stream lives; its own operations name *)
(* the lease by a token, and every other writer of the process passes      *)
(* withExternalSourceDocumentWrite.  All three kinds of call go through    *)
(* one promise chain, so one runs at a time; the release of a lease does   *)
(* not, and may come while any call runs.                                  *)
(*                                                                         *)
(* A token is the claim that produced it.  A step is the code between two  *)
(* awaits.  What a call does inside (inspect, save, sync, a file write) is *)
(* given by its callers and is only a beginning and an end here.           *)
(***************************************************************************)
EXTENDS Naturals, Sequences, FiniteSets

CONSTANTS
  Calls,         \* calls the process receives
  Directories,   \* canonical bundle directories
  Paths,         \* canonical targets of other writers, files or directories
  Overlaps,      \* pairs of bundles of which one's source lies in the other
  Covers,        \* pairs of a bundle and a target in its writable footprint
  Nobody         \* no lease

ASSUME OverlapsAssumption ==
  /\ Overlaps \subseteq Directories \X Directories
  /\ \A d \in Directories : <<d, d>> \in Overlaps
  /\ \A d, e \in Directories : <<d, e>> \in Overlaps => <<e, d>> \in Overlaps

Claims     == [kind : {"claim"}, dir : Directories]
Operations == [kind : {"operate"}, dir : Directories, token : Calls]
Writes     == [kind : {"write"}, path : Paths]
Requests   == Claims \cup Operations \cup Writes

ASSUME NobodyAssumption == Nobody \notin Calls \cup Requests

VARIABLES
  queue,     \* state.tail: the calls whose release is still awaited, in order
  phase,     \* phase[c]: where call c is
  request,   \* request[c]: its arguments, once it was made
  aborted,   \* aborted[c]: its signal
  leases     \* state.leases: the claim that holds each directory

vars == <<queue, phase, request, aborted, leases>>

Inside == {"resolving", "inspecting", "running", "dispatched"}
Phases == Inside \cup {"unmade", "queued", "held", "released", "done"}

TypeOK ==
  /\ queue \in Seq(Calls)
  /\ phase \in [Calls -> Phases]
  /\ request \in [Calls -> Requests \cup {Nobody}]
  /\ aborted \in [Calls -> BOOLEAN]
  /\ leases \in [Directories -> Calls \cup {Nobody}]
  /\ \A c \in Calls : (request[c] = Nobody) <=> (phase[c] = "unmade")

Init ==
  /\ queue = <<>>
  /\ phase = [c \in Calls |-> "unmade"]
  /\ request = [c \in Calls |-> Nobody]
  /\ aborted = [c \in Calls |-> FALSE]
  /\ leases = [d \in Directories |-> Nobody]

-----------------------------------------------------------------------------
\* A claim whose lease was handed to its caller: the tokens that are known.
Known(c) == phase[c] \in {"held", "released"}

\* The call takes its place in the chain before it awaits anything.
Make(c, r) ==
  /\ phase[c] = "unmade"
  /\ r.kind = "operate" => Known(r.token)
  /\ request' = [request EXCEPT ![c] = r]
  /\ phase' = [phase EXCEPT ![c] = "queued"]
  /\ queue' = Append(queue, c)
  /\ UNCHANGED <<aborted, leases>>

Abort(c) ==
  /\ phase[c] \notin {"unmade", "released", "done"}
  /\ ~aborted[c]
  /\ aborted' = [aborted EXCEPT ![c] = TRUE]
  /\ UNCHANGED <<queue, phase, request, leases>>

AtHead(c) == queue # <<>> /\ Head(queue) = c

\* The finally of serialized: whatever the outcome, the next call may go on.
PassOn == queue' = Tail(queue)

FailWithoutPassing(c) ==
  /\ phase' = [phase EXCEPT ![c] = "done"]
  /\ UNCHANGED <<queue, leases>>
Fail(c) ==
  /\ phase' = [phase EXCEPT ![c] = "done"]
  /\ PassOn
  /\ UNCHANGED leases

\* await previous, then run: every run begins by awaiting the canonical path.
Turn(c) ==
  /\ phase[c] = "queued"
  /\ AtHead(c)
  /\ IF aborted[c]
       THEN Fail(c)
       ELSE /\ phase' = [phase EXCEPT ![c] = "resolving"]
            /\ UNCHANGED <<queue, leases>>
  /\ UNCHANGED <<request, aborted>>

\* realpath may fail with anything but ENOENT.
ResolveFails(c) ==
  /\ phase[c] = "resolving"
  /\ Fail(c)
  /\ UNCHANGED <<request, aborted>>

Held(d) == leases[d] # Nobody

MayClaimFree(d) == ~Held(d)
MayClaim(d) == \A e \in Directories : Held(e) => <<e, d>> \notin Overlaps

Claim(c) ==
  /\ phase[c] = "resolving"
  /\ request[c].kind = "claim"
  /\ IF aborted[c] \/ ~MayClaim(request[c].dir)
       THEN Fail(c)
       ELSE /\ leases' = [leases EXCEPT ![request[c].dir] = c]
            /\ phase' = [phase EXCEPT ![c] = "inspecting"]
            /\ UNCHANGED queue
  /\ UNCHANGED <<request, aborted>>

\* release() of claim c: only its own lease is removed.
WithoutAny(c) == [leases EXCEPT ![request[c].dir] = Nobody]
Without(c) ==
  LET d == request[c].dir
  IN  IF leases[d] = c THEN [leases EXCEPT ![d] = Nobody] ELSE leases

\* A failed or aborted inspect gives the lease back.
Inspected(c) ==
  /\ phase[c] = "inspecting"
  /\ PassOn
  /\ \/ /\ ~aborted[c]
        /\ phase' = [phase EXCEPT ![c] = "held"]
        /\ UNCHANGED leases
     \/ /\ phase' = [phase EXCEPT ![c] = "done"]
        /\ leases' = Without(c)
  /\ UNCHANGED <<request, aborted>>

\* The stream of the claim ends, or its response could not be built: nothing
\* here waits for the chain, and the handle may be released more than once.
Release(c) ==
  /\ Known(c)
  /\ phase' = [phase EXCEPT ![c] = "released"]
  /\ leases' = Without(c)
  /\ UNCHANGED <<queue, request, aborted>>

\* isCurrent(), and the comparison of the token before it.
IsCurrent(c) == leases[request[c].dir] = request[c].token

Operate(c) ==
  /\ phase[c] = "resolving"
  /\ request[c].kind = "operate"
  /\ IF aborted[c] \/ ~IsCurrent(c)
       THEN Fail(c)
       ELSE /\ phase' = [phase EXCEPT ![c] = "running"]
            /\ UNCHANGED <<queue, leases>>
  /\ UNCHANGED <<request, aborted>>

\* The callers inspect the bundle first and ask isCurrent() again before they
\* dispatch the save, the preview, the sync or the catalog request; none is
\* dispatched for a signal that is aborted.
NotAsked(c) == ~aborted[c]
MayDispatch(c) == ~aborted[c] /\ IsCurrent(c)

Dispatch(c) ==
  /\ phase[c] = "running"
  /\ request[c].kind = "operate"
  /\ IF MayDispatch(c)
       THEN /\ phase' = [phase EXCEPT ![c] = "dispatched"]
            /\ UNCHANGED <<queue, leases>>
       ELSE Fail(c)
  /\ UNCHANGED <<request, aborted>>

MayWriteAny(p) == TRUE
MayWrite(p) == \A d \in Directories : Held(d) => <<d, p>> \notin Covers

Write(c) ==
  /\ phase[c] = "resolving"
  /\ request[c].kind = "write"
  /\ IF aborted[c] \/ ~MayWrite(request[c].path)
       THEN Fail(c)
       ELSE /\ phase' = [phase EXCEPT ![c] = "dispatched"]
            /\ UNCHANGED <<queue, leases>>
  /\ UNCHANGED <<request, aborted>>

\* The run returns or throws.
Ends(c) ==
  /\ phase[c] \in {"running", "dispatched"}
  /\ Fail(c)
  /\ UNCHANGED <<request, aborted>>

Run(c) ==
  \/ Turn(c)
  \/ ResolveFails(c)
  \/ Claim(c)
  \/ Inspected(c)
  \/ Operate(c)
  \/ Dispatch(c)
  \/ Write(c)
  \/ Ends(c)

Next ==
  \E c \in Calls :
    \/ \E r \in Requests : Make(c, r)
    \/ Abort(c)
    \/ Run(c)
    \/ Release(c)

\* Every await of a run ends: file system calls do, and inspect, save and
\* sync are processes or requests with a time limit.  Nobody has to release.
Fairness == \A c \in Calls : WF_vars(Run(c))

Spec == Init /\ [][Next]_vars /\ Fairness

-----------------------------------------------------------------------------
\* Two leases never share a writable byte, so two open documents never save
\* into each other's resources, whichever of them was opened first.
LeasesAreDisjoint ==
  \A d, e \in Directories : Held(d) /\ Held(e) /\ <<d, e>> \in Overlaps => d = e

\* While a writer is inside, nobody else's document owns what it writes: not
\* the bundle a save was dispatched for, though its owner may have closed it
\* meanwhile, and no bundle at all for a writer that has no lease.
WritersAreAlone ==
  \A c \in Calls : phase[c] = "dispatched" =>
    \A d \in Directories : Held(d) =>
      IF request[c].kind = "write"
        THEN <<d, request[c].path>> \notin Covers
        ELSE <<d, request[c].dir>> \in Overlaps => leases[d] = request[c].token

\* A lease is the lease of a claim of that directory that is being opened or
\* is open: none is left behind by a failed, aborted or closed claim.
LeasesHaveOwners ==
  \A d \in Directories : Held(d) =>
    /\ request[leases[d]] = [kind |-> "claim", dir |-> d]
    /\ phase[leases[d]] \in {"inspecting", "held"}

\* An open document keeps its lease until it is released itself: neither a
\* later claim nor a second release of an earlier one takes it away.
OpenKeepsItsLease ==
  \A c \in Calls : phase[c] = "held" => leases[request[c].dir] = c

\* Leases and open documents are the same thing, seen from the directories and
\* from the claims: no lease without its document, no document without its lease.
LeasesMatchClaims == LeasesHaveOwners /\ OpenKeepsItsLease

\* Nothing is dispatched for a document that was closed, or by a call that
\* was cancelled, though it was accepted before.
StaleDispatchesNothing ==
  [][\A c \in Calls :
       phase[c] = "running" /\ phase'[c] = "dispatched"
         => ~aborted[c] /\ phase[request[c].token] = "held"]_vars

\* Every call gets its answer, whatever the calls before it came to.
CallsAreAnswered ==
  \A c \in Calls : phase[c] = "queued" ~> phase[c] \in {"held", "released", "done"}

=============================================================================
