---------------------------- MODULE HostCallsProofs ----------------------------
(***************************************************************************)
(* A write runs at most once and its result is true, for any number of      *)
(* calls, turns, hosts, connections and faults.  The argument follows one   *)
(* write: where its request is says whether it was ever written to a pipe   *)
(* (WriteProgress), and Node never sends it again, because a write is       *)
(* answered by whatever ends its first attempt.                             *)
(***************************************************************************)
EXTENDS HostCalls, TLAPS

Bindable == Identified \cup {NoHost}

CallStates == [pc : {"idle", "resolving", "sent", "done"}, res : Replies \cup {"aborted"},
               tries : 1 .. MaxTries, pin : Bindable]
Requests == [srv : {"none", "posted", "waiting", "connecting", "calling", "replied", "gone"},
             to : Bindable, pool : Pools, sess : Ids \cup {0}, at : Hosts \cup {NoHost},
             rpc : {"none", "sent", "ran", "rejected"},
             reply : Replies, from : Bindable, relisted : BOOLEAN]
PoolStates == [gate : Calls \cup {NoCall}, session : Ids \cup {0}, goal : Hosts \cup {NoHost},
               binding : Hosts \cup {NoHost}, legacy : BOOLEAN]
Connections == [host : Hosts \cup {NoHost}, open : BOOLEAN, bound : BOOLEAN]

\* A pool that requests use is bound to a host that answers the handshake, or to
\* none; a request that calls has a session, and one that was written a host.
PoolsAreKnown(P) ==
  \A p \in {Root} \cup Identified : P[p].binding \in Bindable /\ P[p].goal \in Bindable
ConnectionsAreKnown(C) == \A i \in Ids : C[i].open => C[i].host \in Hosts
RequestIsKnown(r) ==
  /\ r.pool \in {Root} \cup Identified
  /\ r.srv = "calling" => r.sess \in Ids
  /\ r.rpc # "none" => r.at \in Hosts

HostsAreKnown ==
  PoolsAreKnown(pools) /\ ConnectionsAreKnown(conn) /\ \A c \in Calls : RequestIsKnown(req[c])

\* No host has run the request of a write, or will.
NeverRuns(r) == r.srv \in {"none", "replied", "gone"} /\ r.rpc \in {"none", "rejected"}

\* A write with request r and call state k was executed by the hosts in runs.
Progress(r, k, runs) ==
  /\ IF r.rpc = "ran" THEN Len(runs) = 1 ELSE runs = <<>>
  /\ k.pc \in {"idle", "resolving"} => r.srv = "none"
  /\ r.srv \in {"none", "posted", "waiting", "connecting"} => r.rpc = "none"
  /\ r.srv # "none" => r.to # NoHost
  /\ r.srv = "replied" => /\ r.reply = "ok" => r.rpc = "ran"
                          /\ r.reply \in {"refused", "failed"} => NeverRuns(r)
  /\ k.pc = "done" => /\ k.res = "ok" => r.rpc = "ran"
                      /\ k.res \in {"refused", "failed"} => NeverRuns(r)

WriteProgress == \A c \in Writes : Progress(req[c], call[c], ran[c])

Typed ==
  /\ host \in [Hosts -> {"absent", "up", "stopping", "down"}]
  /\ target \in [Turns -> Bindable]
  /\ unverified \in [Turns -> BOOLEAN]
  /\ call \in [Calls -> CallStates]
  /\ req \in [Calls -> Requests]
  /\ pools \in [Pools -> PoolStates]
  /\ conn \in [Ids -> Connections]
  /\ ran \in [Writes -> Seq(Hosts)]
  /\ faults \in 0 .. MaxFaults /\ health \in BOOLEAN

IInv == Typed /\ HostsAreKnown /\ WriteProgress

LEMMA TypeOKStates == TypeOK <=> Typed
BY DEF TypeOK, Typed, Bindable, CallStates, Requests, PoolStates, Connections

LEMMA InitIInv == Init => IInv
<1> SUFFICES ASSUME Init PROVE IInv
  OBVIOUS
<1> USE CallsAssumption, BoundsAssumption
<1>1. NoRequest \in Requests /\ Closed \in Connections /\ \A p \in Pools : NewPool(p) \in PoolStates
  BY DEF NoRequest, Requests, Closed, Connections, NewPool, PoolStates, Pools, NoCall, Replies, Bindable
<1>2. call \in [Calls -> CallStates]
  BY DEF Init, CallStates, Replies, Bindable
<1>3. /\ req \in [Calls -> Requests] /\ pools \in [Pools -> PoolStates] /\ conn \in [Ids -> Connections]
      /\ ran \in [Writes -> Seq(Hosts)]
  BY <1>1 DEF Init
<1>4. /\ host \in [Hosts -> {"absent", "up", "stopping", "down"}] /\ target \in [Turns -> Bindable]
      /\ unverified \in [Turns -> BOOLEAN] /\ faults \in 0 .. MaxFaults /\ health \in BOOLEAN
  <2>1. host \in [Hosts -> {"absent", "up", "stopping", "down"}]
    BY DEF Init
  <2>2. target \in [Turns -> Bindable] /\ unverified = [t \in Turns |-> FALSE]
    BY DEF Init, Bindable
  <2>3. faults \in 0 .. MaxFaults
    BY DEF Init
  <2>4. health \in BOOLEAN
    BY DEF Init
  <2> QED BY <2>1, <2>2, <2>3, <2>4
<1>5. Typed
  BY <1>2, <1>3, <1>4 DEF Typed
<1>6. HostsAreKnown
  BY DEF Init, HostsAreKnown, PoolsAreKnown, ConnectionsAreKnown, RequestIsKnown, NewPool, NoRequest, Bindable, Pools, Closed
<1>7. WriteProgress
  BY DEF Init, WriteProgress, Progress, NeverRuns, NoRequest
<1> QED BY <1>5, <1>6, <1>7 DEF IInv

\* Sessions are disposed one, all or none at a time.
LEMMA CloseKeepsTypes ==
  ASSUME Typed, ConnectionsAreKnown(conn), NEW I
  PROVE  Close(I) \in [Ids -> Connections] /\ ConnectionsAreKnown(Close(I))
BY DEF Close, Typed, Connections, ConnectionsAreKnown

-----------------------------------------------------------------------------
(* Hosts.                                                                  *)

LEMMA HostSteps ==
  ASSUME IInv, NEW h \in Hosts, HostStarts(h) \/ StopAsync(h) \/ HostEnds(h)
  PROVE  IInv'
<1> USE CallsAssumption, BoundsAssumption DEF IInv
<1>1. UNCHANGED <<target, unverified, call, req, pools, ran, health>>
  BY DEF HostStarts, StopAsync, HostEnds, nodeVars, countVars
<1>2. host' \in [Hosts -> {"absent", "up", "stopping", "down"}] /\ faults' \in 0 .. MaxFaults
  <2>1. CASE HostStarts(h)
    BY <2>1 DEF HostStarts, Typed, countVars
  <2>2. CASE StopAsync(h)
    BY <2>2 DEF StopAsync, Fault, Typed
  <2>3. CASE HostEnds(h)
    BY <2>3 DEF HostEnds, Fault, Typed
  <2> QED BY <2>1, <2>2, <2>3
<1>3. conn' \in [Ids -> Connections] /\ ConnectionsAreKnown(conn')
  BY CloseKeepsTypes DEF HostStarts, StopAsync, HostEnds, Typed, HostsAreKnown
<1>4. Typed'
  BY <1>1, <1>2, <1>3 DEF Typed
<1>5. HostsAreKnown' /\ WriteProgress'
  BY <1>1, <1>3 DEF HostsAreKnown, PoolsAreKnown, RequestIsKnown, ConnectionsAreKnown, WriteProgress, Progress, NeverRuns
<1> QED BY <1>4, <1>5

\* Only this step executes a write, and only one that was never executed.
LEMMA HostCallSteps ==
  ASSUME IInv, NEW c \in Calls, HostRuns(c) \/ HostRejects(c)
  PROVE  IInv'
<1> USE CallsAssumption, BoundsAssumption DEF IInv
<1>1. UNCHANGED <<host, target, unverified, call, pools, conn, faults, health>> /\ req[c].rpc = "sent"
  BY DEF HostRuns, HostRejects, hostVars, nodeVars, countVars
<1>2. \E to \in {"ran", "rejected"} :
         /\ req' = [req EXCEPT ![c].rpc = to]
         /\ ran' = IF to = "ran" /\ c \in Writes THEN [ran EXCEPT ![c] = Append(@, req[c].at)] ELSE ran
         /\ Running(req[c].at)
  BY DEF HostRuns, HostRejects, hostVars
<1>3. PICK to \in {"ran", "rejected"} :
         /\ req' = [req EXCEPT ![c].rpc = to]
         /\ ran' = IF to = "ran" /\ c \in Writes THEN [ran EXCEPT ![c] = Append(@, req[c].at)] ELSE ran
         /\ Running(req[c].at)
  BY <1>2
<1>4. req' \in [Calls -> Requests]
  <2>1. ASSUME NEW r \in Requests PROVE [r EXCEPT !.rpc = to] \in Requests
    BY DEF Requests
  <2> QED BY <1>3, <2>1 DEF Typed
<1>5. ran' \in [Writes -> Seq(Hosts)]
  BY <1>1, <1>3 DEF HostsAreKnown, RequestIsKnown, Typed
<1>6. Typed'
  BY <1>1, <1>4, <1>5 DEF Typed
<1>7. HostsAreKnown'
  BY <1>1, <1>3 DEF Typed, HostsAreKnown, PoolsAreKnown, ConnectionsAreKnown, RequestIsKnown, Requests
<1>8. WriteProgress'
  BY <1>1, <1>3 DEF Typed, WriteProgress, Progress, NeverRuns, Requests
<1> QED BY <1>6, <1>7, <1>8

-----------------------------------------------------------------------------
(* The steps of one call, in Node and in serve.                            *)

\* What such a step owes: the new request and state of its call, and the pools
\* and connections it leaves.
LEMMA OneCall ==
  ASSUME IInv, NEW c \in Calls,
         UNCHANGED <<host, ran>>,
         target' \in [Turns -> Bindable], unverified' \in [Turns -> BOOLEAN],
         faults' \in 0 .. MaxFaults, health' \in BOOLEAN,
         call' \in [Calls -> CallStates], req' \in [Calls -> Requests],
         \A d \in Calls \ {c} : req'[d] = req[d] /\ call'[d] = call[d],
         RequestIsKnown(req'[c]),
         c \in Writes => Progress(req'[c], call'[c], ran[c]),
         pools' \in [Pools -> PoolStates], PoolsAreKnown(pools'),
         conn' \in [Ids -> Connections], ConnectionsAreKnown(conn')
  PROVE  IInv'
<1>1. Typed'
  BY DEF IInv, Typed
<1>2. HostsAreKnown'
  BY DEF IInv, HostsAreKnown, PoolsAreKnown, ConnectionsAreKnown
<1>3. WriteProgress'
  BY CallsAssumption DEF IInv, WriteProgress
<1> QED BY <1>1, <1>2, <1>3 DEF IInv

LEMMA ReleasedKeepsTypes ==
  ASSUME IInv, NEW c \in Calls
  PROVE  Released(c) \in [Pools -> PoolStates] /\ PoolsAreKnown(Released(c))
BY CallsAssumption DEF IInv, Typed, HostsAreKnown, PoolsAreKnown, Released, PoolStates, Pools

LEMMA InvalidateKeepsTypes ==
  ASSUME NEW P \in [Pools -> PoolStates], PoolsAreKnown(P), NEW p \in Pools
  PROVE  /\ InvalidateDisconnected(P, p) \in [Pools -> PoolStates]
         /\ PoolsAreKnown(InvalidateDisconnected(P, p))
<1>1. [P[p] EXCEPT !.session = 0] \in PoolStates
  BY DEF PoolStates
<1> QED
  BY <1>1, CallsAssumption DEF PoolsAreKnown, InvalidateDisconnected, PoolStates, Pools

LEMMA ReplyKeepsTypes ==
  ASSUME IInv, NEW c \in Calls, NEW r \in Replies
  PROVE  /\ Reply(c, r) \in Requests
         /\ RequestIsKnown(Reply(c, r))
         /\ Reply(c, r).srv = "replied" /\ Reply(c, r).reply = r
         /\ Reply(c, r).rpc = req[c].rpc /\ Reply(c, r).to = req[c].to
<1>1. req[c] \in Requests /\ pools[req[c].pool].binding \in Bindable
  BY DEF IInv, Typed, HostsAreKnown, PoolsAreKnown, RequestIsKnown
<1>2. ASSUME NEW q \in Requests, NEW b \in Bindable
      PROVE  LET n == [q EXCEPT !.srv = "replied", !.reply = r, !.sess = 0, !.relisted = FALSE,
                                !.pool = Root, !.from = b]
             IN  /\ n \in Requests /\ n.srv = "replied" /\ n.reply = r /\ n.pool = Root
                 /\ n.rpc = q.rpc /\ n.to = q.to /\ n.at = q.at
  BY DEF Requests, Pools
<1>3. req[c].rpc # "none" => req[c].at \in Hosts
  BY DEF IInv, HostsAreKnown, RequestIsKnown
<1> QED BY <1>1, <1>2, <1>3 DEF Reply, RequestIsKnown

\* A reply of serve is right if it says "ok" of a write that ran, and a definite
\* failure of one that was not written or was rejected.
LEMMA ReplySteps ==
  ASSUME IInv, NEW c \in Calls, NEW r \in Replies,
         req[c].srv # "none", req' = [req EXCEPT ![c] = Reply(c, r)],
         UNCHANGED <<hostVars, nodeVars, conn, countVars>>,
         pools' \in [Pools -> PoolStates], PoolsAreKnown(pools'),
         c \in Writes /\ r = "ok" => req[c].rpc = "ran",
         c \in Writes /\ r \in {"refused", "failed"} => req[c].rpc \in {"none", "rejected"}
  PROVE  IInv'
<1>1. /\ Reply(c, r) \in Requests /\ RequestIsKnown(Reply(c, r))
      /\ Reply(c, r).srv = "replied" /\ Reply(c, r).reply = r
      /\ Reply(c, r).rpc = req[c].rpc /\ Reply(c, r).to = req[c].to
  BY ReplyKeepsTypes
<1>2. UNCHANGED <<host, ran, target, unverified, call, conn, faults, health>>
  BY DEF hostVars, nodeVars, countVars
<1>3. req' \in [Calls -> Requests] /\ req'[c] = Reply(c, r) /\ \A d \in Calls \ {c} : req'[d] = req[d]
  BY <1>1 DEF IInv, Typed
<1>4. c \in Writes => Progress(Reply(c, r), call[c], ran[c])
  BY <1>1 DEF IInv, WriteProgress, Progress, NeverRuns
<1>5. /\ target' \in [Turns -> Bindable] /\ unverified' \in [Turns -> BOOLEAN]
      /\ faults' \in 0 .. MaxFaults /\ health' \in BOOLEAN
      /\ call' \in [Calls -> CallStates]
      /\ conn' \in [Ids -> Connections] /\ ConnectionsAreKnown(conn')
  BY <1>2 DEF IInv, Typed, HostsAreKnown
<1> QED BY <1>1, <1>2, <1>3, <1>4, <1>5, OneCall

LEMMA FailureSteps ==
  ASSUME IInv, NEW c \in Calls, NEW r \in {"refused", "failed", "unknown"},
         FailureAsync(c, r), UNCHANGED <<hostVars, nodeVars, countVars>>,
         req[c].srv # "none",
         c \in Writes /\ r # "unknown" => req[c].rpc \in {"none", "rejected"}
  PROVE  IInv'
<1>1. r \in Replies /\ req[c].pool \in Pools
  BY DEF Replies, IInv, Typed, Requests
<1>2. pools' \in [Pools -> PoolStates] /\ PoolsAreKnown(pools')
  BY <1>1, ReleasedKeepsTypes, InvalidateKeepsTypes DEF FailureAsync
<1> QED BY <1>1, <1>2, ReplySteps DEF FailureAsync

\* What the request of a write in progress has and has not done.
LEMMA InProgressFacts ==
  ASSUME IInv, NEW c \in Calls
  PROVE  /\ req[c] \in Requests /\ call[c] \in CallStates
         /\ c \in Writes => Progress(req[c], call[c], ran[c])
BY DEF IInv, Typed, WriteProgress

LEMMA ServeFails ==
  ASSUME IInv, NEW c \in Calls, ConnectFails(c) \/ RpcLost(c) \/ RpcReturns(c) \/ Deadline(c)
  PROVE  IInv'
<1> USE InProgressFacts DEF Progress
<1>1. CASE ConnectFails(c)
  BY <1>1, FailureSteps DEF ConnectFails
<1>2. CASE RpcLost(c)
  BY <1>2, FailureSteps DEF RpcLost, LostMeaning
<1>3. CASE RpcReturns(c) /\ FailureAsync(c, LostMeaning(c))
  BY <1>3, FailureSteps DEF RpcReturns, LostMeaning
<1>4. CASE RpcReturns(c) /\ ~FailureAsync(c, LostMeaning(c))
  BY <1>4, ReplySteps DEF RpcReturns, Replies, IInv, Typed, HostsAreKnown
<1>5. CASE Deadline(c) /\ FailureAsync(c, "unknown")
  BY <1>5, FailureSteps DEF Deadline, InProgress
<1>6. CASE Deadline(c) /\ ~FailureAsync(c, "unknown")
  BY <1>6, ReplySteps, ReleasedKeepsTypes DEF Deadline, InProgress, Replies
<1> QED BY <1>1, <1>2, <1>3, <1>4, <1>5, <1>6

\* Serve moves the request of a call, with its pool or connection.
LEMMA RequestSteps ==
  ASSUME IInv, NEW c \in Calls, UNCHANGED <<hostVars, nodeVars, countVars>>,
         req' \in [Calls -> Requests], \A d \in Calls \ {c} : req'[d] = req[d],
         RequestIsKnown(req'[c]), c \in Writes => Progress(req'[c], call[c], ran[c]),
         pools' \in [Pools -> PoolStates], PoolsAreKnown(pools'),
         conn' \in [Ids -> Connections], ConnectionsAreKnown(conn')
  PROVE  IInv'
<1>1. UNCHANGED <<host, ran, target, unverified, call, faults, health>>
  BY DEF hostVars, nodeVars, countVars
<1>2. /\ target \in [Turns -> Bindable] /\ unverified \in [Turns -> BOOLEAN]
      /\ faults \in 0 .. MaxFaults /\ health \in BOOLEAN /\ call \in [Calls -> CallStates]
  BY DEF IInv, Typed
<1> QED BY <1>1, <1>2, OneCall

LEMMA InvokeSteps ==
  ASSUME IInv, NEW c \in Calls, InvokeAsync(c)
  PROVE  IInv'
<1> DEFINE pool == IF req[c].to = NoHost \/ pools[Root].binding = req[c].to THEN Root ELSE req[c].to
<1>1. req[c] \in Requests /\ RequestIsKnown(req[c]) /\ req[c].srv = "posted" /\ pool \in {Root} \cup Identified
  BY CallsAssumption DEF IInv, Typed, HostsAreKnown, InvokeAsync, Requests, Bindable
<1>2. UNCHANGED <<hostVars, nodeVars, countVars, pools, conn>>
  BY DEF InvokeAsync
<1>3. CASE req' = [req EXCEPT ![c].srv = "replied", ![c].reply = "refused", ![c].from = req[c].to]
  <2>1. ASSUME NEW q \in Requests
        PROVE  [q EXCEPT !.srv = "replied", !.reply = "refused", !.from = q.to] \in Requests
    BY DEF Requests, Replies
  <2>2. req' \in [Calls -> Requests] /\ \A d \in Calls \ {c} : req'[d] = req[d]
    BY <1>3, <2>1, <1>1 DEF IInv, Typed
  <2>3. RequestIsKnown(req'[c])
    BY <1>1, <1>3 DEF IInv, Typed, RequestIsKnown, Requests
  <2>4. c \in Writes => Progress(req'[c], call[c], ran[c])
    BY <1>1, <1>3 DEF IInv, Typed, WriteProgress, Progress, NeverRuns, Requests
  <2> QED BY <1>2, <2>2, <2>3, <2>4, RequestSteps DEF IInv, Typed, HostsAreKnown
<1>4. CASE req' = [req EXCEPT ![c].srv = "waiting", ![c].pool = pool]
  <2>1. ASSUME NEW q \in Requests, NEW p \in {Root} \cup Identified
        PROVE  [q EXCEPT !.srv = "waiting", !.pool = p] \in Requests
    BY CallsAssumption DEF Requests, Pools
  <2>2. req' \in [Calls -> Requests] /\ \A d \in Calls \ {c} : req'[d] = req[d]
    BY <1>4, <2>1, <1>1 DEF IInv, Typed
  <2>3. RequestIsKnown(req'[c])
    BY <1>1, <1>4 DEF IInv, Typed, RequestIsKnown, Requests
  <2>4. c \in Writes => Progress(req'[c], call[c], ran[c])
    BY <1>1, <1>4 DEF IInv, Typed, WriteProgress, Progress, NeverRuns, Requests
  <2> QED BY <1>2, <2>2, <2>3, <2>4, RequestSteps DEF IInv, Typed, HostsAreKnown
<1> QED BY <1>3, <1>4 DEF InvokeAsync

LEMMA SessionSteps ==
  ASSUME IInv, NEW c \in Calls, GetSessionAsync(c)
  PROVE  IInv'
<1> DEFINE p == req[c].pool
<1>1. /\ req[c] \in Requests /\ RequestIsKnown(req[c]) /\ req[c].srv = "waiting"
      /\ p \in Pools /\ p \in {Root} \cup Identified
      /\ UNCHANGED <<hostVars, nodeVars, countVars>>
  BY DEF IInv, Typed, HostsAreKnown, RequestIsKnown, GetSessionAsync, Requests
<1>2. CASE FailureAsync(c, "refused")
  BY <1>1, <1>2, FailureSteps DEF IInv, WriteProgress, Progress
<1>3. CASE /\ pools[p].session # 0 /\ UNCHANGED <<pools, conn>>
           /\ req' = [req EXCEPT ![c].srv = "calling", ![c].sess = pools[p].session]
  <2>1. ASSUME NEW q \in Requests, NEW i \in Ids
        PROVE  [q EXCEPT !.srv = "calling", !.sess = i] \in Requests
    BY DEF Requests
  <2>2. pools[p].session \in Ids
    BY <1>1, <1>3 DEF IInv, Typed, PoolStates
  <2>3. req' \in [Calls -> Requests] /\ \A d \in Calls \ {c} : req'[d] = req[d]
    BY <1>1, <1>3, <2>1, <2>2 DEF IInv, Typed
  <2>4. RequestIsKnown(req'[c])
    BY <1>1, <1>3, <2>2 DEF IInv, Typed, RequestIsKnown, Requests
  <2>5. c \in Writes => Progress(req'[c], call[c], ran[c])
    BY <1>1, <1>3 DEF IInv, Typed, WriteProgress, Progress, NeverRuns, Requests
  <2> QED BY <1>1, <1>3, <2>3, <2>4, <2>5, RequestSteps DEF IInv, Typed, HostsAreKnown
<1>4. CASE \E h \in Bindable : /\ pools' = [pools EXCEPT ![p].gate = c, ![p].goal = h]
                               /\ req' = [req EXCEPT ![c].srv = "connecting"] /\ UNCHANGED conn
  <2>1. PICK h \in Bindable : /\ pools' = [pools EXCEPT ![p].gate = c, ![p].goal = h]
                              /\ req' = [req EXCEPT ![c].srv = "connecting"] /\ UNCHANGED conn
    BY <1>4
  <2>2. ASSUME NEW q \in Requests PROVE [q EXCEPT !.srv = "connecting"] \in Requests
    BY DEF Requests
  <2>3. req' \in [Calls -> Requests] /\ \A d \in Calls \ {c} : req'[d] = req[d]
    BY <1>1, <2>1, <2>2 DEF IInv, Typed
  <2>4. RequestIsKnown(req'[c])
    BY <1>1, <2>1 DEF IInv, Typed, RequestIsKnown, Requests
  <2>5. c \in Writes => Progress(req'[c], call[c], ran[c])
    BY <1>1, <2>1 DEF IInv, Typed, WriteProgress, Progress, NeverRuns, Requests
  <2>6. ASSUME NEW P \in PoolStates PROVE [P EXCEPT !.gate = c, !.goal = h] \in PoolStates
    BY CallsAssumption DEF PoolStates, Bindable
  <2>7. pools' \in [Pools -> PoolStates]
    BY <1>1, <2>1, <2>6 DEF IInv, Typed
  <2>8. PoolsAreKnown(pools')
    BY <1>1, <2>1, CallsAssumption DEF IInv, Typed, HostsAreKnown, PoolsAreKnown, PoolStates, Pools
  <2> QED BY <1>1, <2>1, <2>3, <2>4, <2>5, <2>7, <2>8, RequestSteps DEF IInv, Typed, HostsAreKnown
<1>5. \A D \in Discovered : D \subseteq Identified
  BY DEF Discovered
<1>6. pools[p].binding \in Bindable
  BY <1>1 DEF IInv, HostsAreKnown, PoolsAreKnown
<1> QED BY <1>2, <1>3, <1>4, <1>5, <1>6 DEF GetSessionAsync, Bindable

\* A new connection of a pool, made for a call or for a health request.
LEMMA ConnectSteps ==
  ASSUME IInv, NEW p \in {Root} \cup Identified, NEW goal \in Bindable, NEW h \in Hosts, NEW i \in Ids,
         ConnectBoundAsync(p, goal, h, i)
  PROVE  /\ pools' \in [Pools -> PoolStates] /\ PoolsAreKnown(pools')
         /\ conn' \in [Ids -> Connections] /\ ConnectionsAreKnown(conn')
<1> DEFINE b == IF pools[p].binding # NoHost THEN pools[p].binding ELSE goal
<1>1. /\ conn' = [conn EXCEPT ![i] = [host |-> h, open |-> TRUE, bound |-> goal # NoHost]]
      /\ pools' = [pools EXCEPT ![p] = [gate |-> NoCall, session |-> i, goal |-> NoHost,
                                        binding |-> b, legacy |-> b = NoHost]]
      /\ p \in Pools
  BY CallsAssumption DEF ConnectBoundAsync, Pools
<1>2. b \in Bindable /\ b \in Hosts \cup {NoHost}
  BY CallsAssumption DEF IInv, HostsAreKnown, PoolsAreKnown, Bindable
<1>3. conn' \in [Ids -> Connections] /\ ConnectionsAreKnown(conn')
  BY <1>1 DEF IInv, Typed, Connections, HostsAreKnown, ConnectionsAreKnown
<1>4. pools' \in [Pools -> PoolStates] /\ PoolsAreKnown(pools')
  <2>1. [gate |-> NoCall, session |-> i, goal |-> NoHost, binding |-> b, legacy |-> b = NoHost] \in PoolStates
    BY <1>2 DEF PoolStates
  <2> QED
    BY <1>1, <1>2, <2>1, CallsAssumption DEF IInv, Typed, HostsAreKnown, PoolsAreKnown, Pools, Bindable
<1> QED BY <1>3, <1>4

LEMMA ConnectedSteps ==
  ASSUME IInv, NEW c \in Calls, Connected(c)
  PROVE  IInv'
<1> DEFINE p == req[c].pool
<1>1. /\ req[c] \in Requests /\ RequestIsKnown(req[c]) /\ req[c].srv = "connecting"
      /\ p \in {Root} \cup Identified /\ pools[p].goal \in Bindable
      /\ UNCHANGED <<hostVars, nodeVars, countVars>>
  BY DEF IInv, Typed, HostsAreKnown, PoolsAreKnown, RequestIsKnown, Connected
<1>2. PICK h \in Hosts, i \in Ids :
        /\ ConnectBoundAsync(p, pools[p].goal, h, i)
        /\ req' = [req EXCEPT ![c].srv = "calling", ![c].sess = i]
  BY DEF Connected
<1>3. /\ pools' \in [Pools -> PoolStates] /\ PoolsAreKnown(pools')
      /\ conn' \in [Ids -> Connections] /\ ConnectionsAreKnown(conn')
  BY <1>1, <1>2, ConnectSteps
<1>4. ASSUME NEW q \in Requests, NEW j \in Ids
      PROVE  [q EXCEPT !.srv = "calling", !.sess = j] \in Requests
  BY DEF Requests
<1>5. req' \in [Calls -> Requests] /\ \A d \in Calls \ {c} : req'[d] = req[d]
  BY <1>1, <1>2, <1>4 DEF IInv, Typed
<1>6. RequestIsKnown(req'[c]) /\ (c \in Writes => Progress(req'[c], call[c], ran[c]))
  BY <1>1, <1>2 DEF IInv, Typed, RequestIsKnown, Requests, WriteProgress, Progress, NeverRuns
<1> QED BY <1>1, <1>3, <1>5, <1>6, RequestSteps

LEMMA GuardedSteps ==
  ASSUME IInv, NEW c \in Calls, GuardedInvoke(c)
  PROVE  IInv'
<1> DEFINE at == conn[req[c].sess].host
<1>1. /\ req[c] \in Requests /\ RequestIsKnown(req[c]) /\ req[c].srv = "calling" /\ req[c].rpc = "none"
      /\ req[c].sess \in Ids
      /\ UNCHANGED <<hostVars, nodeVars, countVars>>
  BY DEF IInv, Typed, HostsAreKnown, RequestIsKnown, GuardedInvoke
<1>2. CASE FailureAsync(c, "refused") \/ FailureAsync(c, LostMeaning(c))
  BY <1>1, <1>2, FailureSteps DEF LostMeaning
<1>3. CASE /\ conn[req[c].sess].open /\ UNCHANGED <<pools, conn>>
           /\ req' = [req EXCEPT ![c].rpc = "sent", ![c].at = at]
  <2>1. at \in Hosts
    BY <1>1, <1>3 DEF IInv, HostsAreKnown, ConnectionsAreKnown
  <2>2. ASSUME NEW q \in Requests, NEW h \in Hosts
        PROVE  [q EXCEPT !.rpc = "sent", !.at = h] \in Requests
    BY DEF Requests
  <2>3. req' \in [Calls -> Requests] /\ \A d \in Calls \ {c} : req'[d] = req[d]
    BY <1>1, <1>3, <2>1, <2>2 DEF IInv, Typed
  <2>4. RequestIsKnown(req'[c])
    BY <1>1, <1>3, <2>1 DEF IInv, Typed, RequestIsKnown, Requests
  <2>5. c \in Writes => Progress(req'[c], call[c], ran[c])
    BY <1>1, <1>3 DEF IInv, Typed, WriteProgress, Progress, NeverRuns, Requests
  <2> QED BY <1>1, <1>3, <2>3, <2>4, <2>5, RequestSteps DEF IInv, Typed, HostsAreKnown
<1> QED BY <1>2, <1>3 DEF GuardedInvoke

LEMMA AbortedSteps ==
  ASSUME IInv, NEW c \in Calls, RequestAborted(c)
  PROVE  IInv'
<1>1. /\ req[c] \in Requests /\ RequestIsKnown(req[c]) /\ req[c].srv # "none"
      /\ req' = [req EXCEPT ![c].srv = "gone", ![c].sess = 0, ![c].pool = Root]
      /\ pools' = Released(c) /\ UNCHANGED <<hostVars, nodeVars, conn, countVars>>
  BY DEF IInv, Typed, HostsAreKnown, RequestAborted, InProgress
<1>2. ASSUME NEW q \in Requests PROVE [q EXCEPT !.srv = "gone", !.sess = 0, !.pool = Root] \in Requests
  BY DEF Requests, Pools
<1>3. req' \in [Calls -> Requests] /\ \A d \in Calls \ {c} : req'[d] = req[d]
  BY <1>1, <1>2 DEF IInv, Typed
<1>4. RequestIsKnown(req'[c]) /\ (c \in Writes => Progress(req'[c], call[c], ran[c]))
  BY <1>1 DEF IInv, Typed, RequestIsKnown, Requests, WriteProgress, Progress, NeverRuns
<1> QED BY <1>1, <1>3, <1>4, ReleasedKeepsTypes, RequestSteps DEF IInv, Typed, HostsAreKnown

LEMMA InvalidateSteps ==
  ASSUME IInv, NEW p \in Pools, InvalidateAsync(p)
  PROVE  /\ pools' \in [Pools -> PoolStates] /\ PoolsAreKnown(pools')
         /\ conn' \in [Ids -> Connections] /\ ConnectionsAreKnown(conn')
<1>1. ASSUME NEW P \in PoolStates PROVE [P EXCEPT !.session = 0] \in PoolStates
  BY DEF PoolStates
<1>2. pools' \in [Pools -> PoolStates]
  BY <1>1 DEF InvalidateAsync, IInv, Typed
<1>3. PoolsAreKnown(pools')
  BY CallsAssumption DEF InvalidateAsync, IInv, Typed, HostsAreKnown, PoolsAreKnown, PoolStates, Pools
<1> QED BY <1>2, <1>3, CloseKeepsTypes DEF InvalidateAsync, IInv, HostsAreKnown

LEMMA ListSteps ==
  ASSUME IInv, NEW c \in Calls, ActionListAsync(c)
  PROVE  IInv'
<1>1. /\ req[c] \in Requests /\ RequestIsKnown(req[c]) /\ req[c].pool \in Pools /\ c \notin Writes
      /\ req' = [req EXCEPT ![c].srv = "waiting", ![c].sess = 0, ![c].rpc = "none", ![c].relisted = TRUE]
      /\ InvalidateAsync(req[c].pool) /\ UNCHANGED <<hostVars, nodeVars, countVars>>
  BY DEF IInv, Typed, HostsAreKnown, ActionListAsync, Requests
<1>2. ASSUME NEW q \in Requests
      PROVE  [q EXCEPT !.srv = "waiting", !.sess = 0, !.rpc = "none", !.relisted = TRUE] \in Requests
  BY DEF Requests
<1>3. req' \in [Calls -> Requests] /\ \A d \in Calls \ {c} : req'[d] = req[d]
  BY <1>1, <1>2 DEF IInv, Typed
<1>4. RequestIsKnown(req'[c])
  BY <1>1 DEF IInv, Typed, RequestIsKnown, Requests
<1> QED BY <1>1, <1>3, <1>4, InvalidateSteps, RequestSteps

-----------------------------------------------------------------------------
(* The pool and the serve process as a whole.                              *)

LEMMA FaultKeepsType ==
  ASSUME Typed, Fault \/ UNCHANGED faults
  PROVE  faults' \in 0 .. MaxFaults
<1>1. faults \in 0 .. MaxFaults
  BY DEF Typed
<1> QED BY <1>1, BoundsAssumption DEF Fault

LEMMA HealthSteps ==
  ASSUME IInv, HealthConnects \/ HealthFails \/ HandleHealthAsync
  PROVE  IInv'
<1>1. UNCHANGED <<host, ran, target, unverified, call, req>>
  BY DEF HealthConnects, HealthFails, HandleHealthAsync, hostVars, nodeVars, serveVars
<1>2. faults' \in 0 .. MaxFaults /\ health' \in BOOLEAN
  <2>1. Fault \/ UNCHANGED faults
    BY DEF HealthConnects, HealthFails, HandleHealthAsync, countVars
  <2>2. health' = TRUE \/ health' = FALSE \/ health' = health
    BY DEF HealthConnects, HealthFails, HandleHealthAsync, countVars
  <2> QED BY <2>1, <2>2, FaultKeepsType DEF IInv, Typed
<1>3. /\ pools' \in [Pools -> PoolStates] /\ PoolsAreKnown(pools')
      /\ conn' \in [Ids -> Connections] /\ ConnectionsAreKnown(conn')
  <2>1. CASE HealthFails
    BY <2>1 DEF HealthFails, serveVars, IInv, Typed, HostsAreKnown
  <2>2. CASE HandleHealthAsync
    BY <2>2, InvalidateSteps DEF HandleHealthAsync, Pools
  <2>3. CASE HealthConnects
    BY <2>3, ConnectSteps DEF HealthConnects, Bindable
  <2> QED BY <2>1, <2>2, <2>3
<1>4. Typed'
  BY <1>1, <1>2, <1>3 DEF IInv, Typed
<1>5. HostsAreKnown' /\ WriteProgress'
  BY <1>1, <1>3 DEF IInv, HostsAreKnown, PoolsAreKnown, ConnectionsAreKnown, RequestIsKnown,
                    WriteProgress, Progress, NeverRuns
<1> QED BY <1>4, <1>5 DEF IInv

LEMMA DeathSteps ==
  ASSUME IInv, ServeDies
  PROVE  IInv'
<1>1. UNCHANGED <<host, ran, target, unverified, call>> /\ health' = FALSE
  BY DEF ServeDies, hostVars, nodeVars
<1>2. faults' \in 0 .. MaxFaults
  BY FaultKeepsType DEF ServeDies, IInv
<1>3. req' = [c \in Calls |-> IF req[c].srv \in {"none", "gone"} THEN req[c]
                              ELSE [req[c] EXCEPT !.srv = "gone", !.sess = 0, !.pool = Root]]
  BY DEF ServeDies
<1>4. ASSUME NEW q \in Requests PROVE [q EXCEPT !.srv = "gone", !.sess = 0, !.pool = Root] \in Requests
  BY DEF Requests, Pools
<1>5. req' \in [Calls -> Requests]
  BY <1>3, <1>4 DEF IInv, Typed
<1>6. ASSUME NEW c \in Calls PROVE RequestIsKnown(req'[c])
  <2>1. RequestIsKnown(req[c]) /\ req[c] \in Requests
    BY DEF IInv, Typed, HostsAreKnown
  <2>2. CASE req'[c] = [req[c] EXCEPT !.srv = "gone", !.sess = 0, !.pool = Root]
    BY <2>1, <2>2 DEF RequestIsKnown, Requests
  <2> QED BY <1>3, <2>1, <2>2
<1>7. ASSUME NEW c \in Writes PROVE Progress(req'[c], call'[c], ran'[c])
  <2>1. Progress(req[c], call[c], ran[c]) /\ req[c] \in Requests /\ c \in Calls
    BY CallsAssumption DEF IInv, Typed, WriteProgress
  <2>2. call'[c] = call[c] /\ ran'[c] = ran[c]
    BY <1>1
  <2>3. CASE req'[c] = req[c]
    BY <2>1, <2>2, <2>3
  <2>4. CASE req[c].srv \notin {"none", "gone"} /\ req'[c] = [req[c] EXCEPT !.srv = "gone", !.sess = 0, !.pool = Root]
    BY <2>1, <2>2, <2>4 DEF Progress, NeverRuns, Requests
  <2> QED BY <1>3, <2>1, <2>3, <2>4
<1>8. pools' \in [Pools -> PoolStates] /\ PoolsAreKnown(pools')
  BY CallsAssumption DEF ServeDies, NewPool, PoolStates, PoolsAreKnown, Pools, Bindable, NoCall
<1>9. conn' \in [Ids -> Connections] /\ ConnectionsAreKnown(conn')
  BY CloseKeepsTypes DEF ServeDies, IInv, HostsAreKnown
<1>10. Typed'
  BY <1>1, <1>2, <1>5, <1>8, <1>9 DEF IInv, Typed
<1>11. HostsAreKnown' /\ WriteProgress'
  BY <1>6, <1>7, <1>8, <1>9 DEF HostsAreKnown, PoolsAreKnown, ConnectionsAreKnown, WriteProgress
<1> QED BY <1>10, <1>11 DEF IInv

-----------------------------------------------------------------------------
(* The client.                                                             *)

\* Node changes what it knows of a call, and may send its request.
LEMMA ClientMoves ==
  ASSUME IInv, NEW c \in Calls, UNCHANGED <<hostVars, pools, conn, health>>,
         target' \in [Turns -> Bindable], unverified' \in [Turns -> BOOLEAN],
         faults' \in 0 .. MaxFaults,
         NEW k \in CallStates, call' = [call EXCEPT ![c] = k],
         req' \in [Calls -> Requests], \A d \in Calls \ {c} : req'[d] = req[d],
         RequestIsKnown(req'[c]), c \in Writes => Progress(req'[c], k, ran[c])
  PROVE  IInv'
<1>1. UNCHANGED <<host, ran>>
  BY DEF hostVars
<1>2. call' \in [Calls -> CallStates] /\ call'[c] = k /\ \A d \in Calls \ {c} : call'[d] = call[d]
  BY DEF IInv, Typed
<1>3. /\ pools' \in [Pools -> PoolStates] /\ PoolsAreKnown(pools')
      /\ conn' \in [Ids -> Connections] /\ ConnectionsAreKnown(conn') /\ health' \in BOOLEAN
  BY DEF IInv, Typed, HostsAreKnown
<1> QED BY <1>1, <1>2, <1>3, OneCall

LEMMA AnswerKeepsTypes ==
  ASSUME IInv, NEW c \in Calls, NEW r \in Replies \cup {"aborted"}
  PROVE  Answer(c, r) \in CallStates /\ Answer(c, r).pc = "done" /\ Answer(c, r).res = r
BY DEF Answer, IInv, Typed, CallStates

\* A dispatch starts from a call that is not under way, with a fresh request;
\* that of a write names a host.
LEMMA Dispatches ==
  ASSUME IInv, NEW c \in Calls, NEW h \in Bindable, Dispatch(c, h),
         call[c].pc \in {"idle", "resolving"}, c \in Writes => h # NoHost,
         UNCHANGED <<hostVars, unverified, pools, conn, countVars>>,
         target' \in [Turns -> Bindable]
  PROVE  IInv'
<1>1. [NoRequest EXCEPT !.srv = "posted", !.to = h] \in Requests
  BY CallsAssumption DEF NoRequest, Requests, Replies, Pools, Bindable
<1>2. req' \in [Calls -> Requests] /\ \A d \in Calls \ {c} : req'[d] = req[d]
  BY <1>1 DEF Dispatch, IInv, Typed
<1>3. [call[c] EXCEPT !.pc = "sent"] \in CallStates
  BY DEF IInv, Typed, CallStates
<1>4. call' = [call EXCEPT ![c] = [call[c] EXCEPT !.pc = "sent"]]
  BY DEF Dispatch
<1>5. req'[c] = [NoRequest EXCEPT !.srv = "posted", !.to = h]
  BY DEF Dispatch, IInv, Typed
<1>6. RequestIsKnown(req'[c])
  BY <1>5 DEF RequestIsKnown, NoRequest
<1>7. ASSUME c \in Writes PROVE Progress(req'[c], [call[c] EXCEPT !.pc = "sent"], ran[c])
  BY <1>5, <1>7 DEF IInv, Typed, WriteProgress, Progress, NoRequest, CallStates
<1> QED BY <1>2, <1>3, <1>4, <1>6, <1>7, ClientMoves DEF IInv, Typed, countVars

LEMMA InvokeHttpSteps ==
  ASSUME IInv, NEW c \in Calls, invokeQkrpcHttp(c)
  PROVE  IInv'
<1> DEFINE t == TurnOf[c]
<1>1. /\ call[c].pc = "idle" /\ t \in Turns /\ target[t] \in Bindable /\ call[c] \in CallStates
      /\ UNCHANGED <<hostVars, target, unverified, pools, conn, countVars>>
  BY CallsAssumption DEF invokeQkrpcHttp, IInv, Typed
<1>2. CASE target[t] # NoHost /\ Dispatch(c, target[t])
  BY <1>1, <1>2, Dispatches DEF IInv, Typed
<1>3. CASE target[t] = NoHost
  <2>1. PICK k \in {Answer(c, "refused"), [call[c] EXCEPT !.pc = "resolving"]} :
          call' = [call EXCEPT ![c] = k] /\ req' = req
    BY <1>1, <1>3 DEF invokeQkrpcHttp
  <2>2. k \in CallStates /\ k.pc \in {"done", "resolving"} /\ (k.pc = "done" => k.res = "refused")
    BY <1>1, <2>1, AnswerKeepsTypes DEF CallStates, Replies
  <2>3. ASSUME c \in Writes PROVE Progress(req'[c], k, ran[c])
    BY <1>1, <2>1, <2>2, <2>3 DEF IInv, WriteProgress, Progress, NeverRuns
  <2> QED BY <1>1, <2>1, <2>2, <2>3, ClientMoves DEF IInv, Typed, HostsAreKnown, countVars
<1> QED BY <1>2, <1>3 DEF invokeQkrpcHttp

\* A call that ends before its request was sent may report any refusal.
LEMMA ResolveSteps ==
  ASSUME IInv, NEW c \in Calls, resolveQkrpcHttpBinding(c) \/ DiscoveryFails(c)
  PROVE  IInv'
<1> DEFINE t == TurnOf[c]
<1>1. /\ call[c].pc = "resolving" /\ t \in Turns /\ target[t] \in Bindable /\ call[c].pin \in Bindable
      /\ UNCHANGED <<hostVars, unverified, pools, conn, countVars>>
  BY CallsAssumption DEF resolveQkrpcHttpBinding, DiscoveryFails, IInv, Typed, CallStates
<1>2. ASSUME NEW r \in Replies \ {"ok"}, call' = [call EXCEPT ![c] = Answer(c, r)], UNCHANGED <<req, target>>
      PROVE  IInv'
  <2>1. Answer(c, r) \in CallStates /\ Answer(c, r).pc = "done" /\ Answer(c, r).res = r
    BY AnswerKeepsTypes
  <2>2. ASSUME c \in Writes PROVE Progress(req'[c], Answer(c, r), ran[c])
    BY <1>1, <1>2, <2>1, <2>2 DEF IInv, WriteProgress, Progress, NeverRuns
  <2> QED BY <1>1, <1>2, <2>1, <2>2, ClientMoves DEF IInv, Typed, HostsAreKnown, countVars
<1>3. CASE DiscoveryFails(c)
  <2>1. PICK r \in {"refused", "failed"} :
          call' = [call EXCEPT ![c] = Answer(c, r)] /\ UNCHANGED <<req, target>>
    BY <1>3 DEF DiscoveryFails
  <2> QED BY <1>2, <2>1 DEF Replies
<1>4. CASE resolveQkrpcHttpBinding(c)
  <2>1. \/ \E h \in Bindable \ {NoHost} : bindQkrpcTarget(t, h) /\ Dispatch(c, h)
        \/ c \notin Writes /\ Dispatch(c, NoHost) /\ UNCHANGED target
        \/ call' = [call EXCEPT ![c] = Answer(c, "refused")] /\ UNCHANGED <<req, target>>
    BY <1>1, <1>4, CallsAssumption DEF resolveQkrpcHttpBinding, Discovered, Bindable
  <2>2. CASE \E h \in Bindable \ {NoHost} : bindQkrpcTarget(t, h) /\ Dispatch(c, h)
    <3>1. PICK h \in Bindable \ {NoHost} : bindQkrpcTarget(t, h) /\ Dispatch(c, h)
      BY <2>2
    <3>2. target' \in [Turns -> Bindable]
      BY <1>1, <3>1 DEF bindQkrpcTarget, IInv, Typed
    <3> QED BY <1>1, <3>1, <3>2, Dispatches
  <2>3. CASE c \notin Writes /\ Dispatch(c, NoHost) /\ UNCHANGED target
    <3>1. NoHost \in Bindable
      BY DEF Bindable
    <3> QED BY <1>1, <2>3, <3>1, Dispatches DEF IInv, Typed
  <2>4. CASE call' = [call EXCEPT ![c] = Answer(c, "refused")] /\ UNCHANGED <<req, target>>
    BY <1>2, <2>4 DEF Replies
  <2> QED BY <2>1, <2>2, <2>3, <2>4
<1> QED BY <1>3, <1>4

\* A write is answered by whatever ends its attempt, and only serve says that it
\* failed or was refused.
LEMMA SettleSteps ==
  ASSUME IInv, NEW c \in Calls, NEW r \in Replies, Settle(c, r), call[c].pc = "sent",
         UNCHANGED <<hostVars, req, pools, conn, health>>,
         target' \in [Turns -> Bindable], unverified' \in [Turns -> BOOLEAN], faults' \in 0 .. MaxFaults,
         r \in {"timeout", "none"} \/ (req[c].srv = "replied" /\ req[c].reply = r)
  PROVE  IInv'
<1> DEFINE k == IF MayRetry(c, r) THEN [call[c] EXCEPT !.pc = "idle", !.tries = call[c].tries + 1]
                ELSE Answer(c, Meaning(c, r))
<1>1. call' = [call EXCEPT ![c] = k] /\ call[c] \in CallStates /\ Meaning(c, r) \in Replies
  <2>1. call' = [call EXCEPT ![c] = k]
    BY DEF Settle
  <2>2. call[c] \in CallStates
    BY DEF IInv, Typed
  <2>3. Meaning(c, r) \in {r, "unknown", "failed"}
    BY DEF Meaning
  <2> QED BY <2>1, <2>2, <2>3 DEF Replies
<1>2. k \in CallStates
  <2>1. CASE MayRetry(c, r)
    <3>1. call[c].tries + 1 \in 1 .. MaxTries
      BY <1>1, <2>1, BoundsAssumption DEF MayRetry, CallStates
    <3> QED BY <1>1, <2>1, <3>1 DEF CallStates
  <2>2. CASE ~MayRetry(c, r)
    BY <1>1, <2>2, AnswerKeepsTypes
  <2> QED BY <2>1, <2>2
<1>3. ASSUME c \in Writes PROVE Progress(req'[c], k, ran[c])
  <2>1. k = Answer(c, Meaning(c, r)) /\ k.pc = "done" /\ k.res = Meaning(c, r)
    BY <1>1, <1>3, AnswerKeepsTypes DEF MayRetry, isQkrpcInvokeReplaySafe
  <2>2. Meaning(c, r) = (IF r \in {"timeout", "none"} THEN "unknown" ELSE r)
    BY <1>3 DEF Meaning
  <2> QED BY <1>3, <2>1, <2>2 DEF IInv, WriteProgress, Progress, NeverRuns
<1> QED BY <1>1, <1>2, <1>3, ClientMoves DEF IInv, Typed, HostsAreKnown

LEMMA ReceiveSteps ==
  ASSUME IInv, NEW c \in Calls, Receive(c)
  PROVE  IInv'
<1> DEFINE t == TurnOf[c]
           h == req[c].from
           unbound == req[c].to = NoHost
<1>1. /\ call[c].pc = "sent" /\ req[c].srv = "replied" /\ t \in Turns
      /\ req[c].reply \in Replies /\ h \in Bindable
      /\ UNCHANGED <<hostVars, req, pools, conn, countVars>>
  BY CallsAssumption DEF Receive, IInv, Typed, Requests
<1>2. CASE unbound /\ h # NoHost /\ ~MayBind(t, h)
  <2>1. call' = [call EXCEPT ![c] = Answer(c, "refused")] /\ UNCHANGED <<target, unverified>>
    BY <1>2 DEF Receive
  <2>2. Answer(c, "refused") \in CallStates
    BY AnswerKeepsTypes DEF Replies
  <2>3. c \notin Writes
    BY <1>1, <1>2 DEF IInv, WriteProgress, Progress
  <2> QED BY <1>1, <2>1, <2>2, <2>3, ClientMoves DEF IInv, Typed, HostsAreKnown, countVars
<1>3. CASE ~(unbound /\ h # NoHost /\ ~MayBind(t, h))
  <2>1. /\ Settle(c, req[c].reply)
        /\ IF unbound /\ h # NoHost THEN bindQkrpcTarget(t, h) ELSE UNCHANGED target
        /\ unverified' = [unverified EXCEPT ![t] =
             @ \/ (req[c].reply = "ok" /\ unbound /\ h = NoHost /\ target[t] = NoHost)]
    BY <1>3 DEF Receive
  <2>2. target' \in [Turns -> Bindable]
    BY <1>1, <2>1 DEF bindQkrpcTarget, IInv, Typed
  <2>3. unverified' \in [Turns -> BOOLEAN]
    BY <1>1, <2>1 DEF IInv, Typed
  <2> QED BY <1>1, <2>1, <2>2, <2>3, SettleSteps DEF IInv, Typed, countVars
<1> QED BY <1>2, <1>3

LEMMA LostSteps ==
  ASSUME IInv, NEW c \in Calls, HttpFails(c) \/ Abort(c)
  PROVE  IInv'
<1>1. /\ faults' \in 0 .. MaxFaults
      /\ UNCHANGED <<hostVars, target, unverified, req, pools, conn, health>>
  BY FaultKeepsType DEF HttpFails, Abort, IInv
<1>2. CASE HttpFails(c)
  BY <1>1, <1>2, SettleSteps DEF HttpFails, Replies, IInv, Typed
<1>3. CASE Abort(c)
  <2>1. Answer(c, "aborted") \in CallStates /\ Answer(c, "aborted").pc = "done" /\ Answer(c, "aborted").res = "aborted"
    BY AnswerKeepsTypes
  <2>2. c \in Writes => Progress(req[c], Answer(c, "aborted"), ran[c])
    BY <2>1 DEF IInv, WriteProgress, Progress, NeverRuns
  <2> QED BY <1>1, <1>3, <2>1, <2>2, ClientMoves DEF Abort, IInv, Typed, HostsAreKnown
<1> QED BY <1>2, <1>3

-----------------------------------------------------------------------------
LEMMA NextIInv == IInv /\ [Next]_vars => IInv'
<1> SUFFICES ASSUME IInv, [Next]_vars PROVE IInv'
  OBVIOUS
<1>1. CASE UNCHANGED vars
  <2>1. UNCHANGED <<host, target, unverified, call, req, pools, conn, ran, faults, health>>
    BY <1>1 DEF vars
  <2> QED BY <2>1 DEF IInv, Typed, HostsAreKnown, PoolsAreKnown, ConnectionsAreKnown, RequestIsKnown,
                      WriteProgress, Progress, NeverRuns
<1>2. ASSUME NEW c \in Calls, Client(c) PROVE IInv'
  BY <1>2, InvokeHttpSteps, ResolveSteps, ReceiveSteps, LostSteps DEF Client
<1>3. ASSUME NEW c \in Calls, Serve(c) PROVE IInv'
  BY <1>3, InvokeSteps, SessionSteps, ConnectedSteps, GuardedSteps, ServeFails, AbortedSteps, ListSteps DEF Serve
<1> QED BY <1>1, <1>2, <1>3, HostSteps, HostCallSteps, HealthSteps, DeathSteps DEF Next

\* The inductive invariant.
THEOREM Invariant == Spec => []IInv
BY InitIInv, NextIInv, PTL DEF Spec

\* Every variable keeps its type, for any bounds.
THEOREM TypeCorrect == Spec => []TypeOK
<1>1. IInv => TypeOK
  BY TypeOKStates DEF IInv
<1> QED BY <1>1, Invariant, PTL

\* Whatever is lost, late or repeated, a write of an agent tool is executed at
\* most once, with any number of calls, hosts and faults.
THEOREM WritesAreNotRepeated == Spec => []WritesRunOnce
<1>1. IInv => WritesRunOnce
  <2> SUFFICES ASSUME IInv, NEW c \in Writes PROVE Len(ran[c]) <= 1
    BY DEF WritesRunOnce
  <2>1. CASE req[c].rpc = "ran"
    <3>1. Len(ran[c]) = 1
      BY <2>1 DEF IInv, WriteProgress, Progress
    <3> QED BY <3>1
  <2>2. CASE req[c].rpc # "ran"
    <3>1. ran[c] = <<>>
      BY <2>2 DEF IInv, WriteProgress, Progress
    <3> QED BY <3>1
  <2> QED BY <2>1, <2>2
<1> QED BY <1>1, Invariant, PTL

\* The tool never reports a write as done that no host ran, nor as failed or
\* refused one that a host ran or that a pipe still holds.
THEOREM WritesAreReportedTruly == Spec => []AnswersAreTrue
<1>1. IInv => AnswersAreTrue
  BY DEF IInv, WriteProgress, Progress, NeverRuns, AnswersAreTrue
<1> QED BY <1>1, Invariant, PTL

-----------------------------------------------------------------------------
(***************************************************************************)
(* The verified calls of a turn reach one host, and no connection is lost.  *)
(* The argument links the places where the host of a turn is written down:  *)
(* the target of the turn, the host a request names, the binding of its     *)
(* pool, the host of the connection it calls through, the host it was       *)
(* written to and the host the reply names.  A binding is chosen once, by    *)
(* the request that holds the gate or a health request, while nobody calls    *)
(* through the pool.                                                        *)
(***************************************************************************)
\* The pool p of P is bound to at most one host, which is at the other end of its
\* connection in C; a pool without binding that has or had a connection is legacy.
PoolIsBound(P, C, p) ==
  /\ p \in Identified => P[p].binding = p
  /\ P[p].gate # NoCall /\ P[p].binding # NoHost => P[p].goal = P[p].binding
  /\ P[p].legacy => P[p].binding = NoHost /\ P[p].gate = NoCall
  /\ P[p].session # 0 /\ P[p].binding = NoHost => P[p].legacy
  /\ P[p].session # 0 /\ P[p].binding # NoHost /\ C[P[p].session].open
       => C[P[p].session].host = P[p].binding

\* A request r in pool q reaches the host it names, or the host of the pool.
RequestIsBound(r, q, C) ==
  /\ r.srv \in {"none", "posted", "waiting", "connecting"} => r.rpc = "none"
  /\ r.srv \in {"waiting", "connecting", "calling"} /\ r.to # NoHost => q.binding = r.to
  /\ r.srv = "calling" => q.binding # NoHost \/ q.legacy
  /\ r.srv = "calling" /\ q.binding # NoHost => /\ C[r.sess].open => C[r.sess].host = q.binding
                                                /\ r.rpc # "none" => r.at = q.binding
  /\ r.to # NoHost /\ r.rpc # "none" => r.at = r.to
  /\ r.srv = "replied" => /\ r.reply = "ok" => r.rpc = "ran"
                          /\ r.from # NoHost /\ r.rpc # "none" => r.at = r.from

\* A call with request r and state k belongs to a turn that is bound to host t.
CallIsBound(r, k, t) ==
  /\ r.to # NoHost => t = r.to
  /\ k.res = "ok" => /\ k.pc = "done" /\ r.srv \in {"replied", "gone"} /\ r.rpc = "ran"
                     /\ r.from # NoHost => t = r.at

Bound ==
  /\ \A p \in {Root} \cup Identified : PoolIsBound(pools, conn, p)
  /\ \A c \in Calls : /\ RequestIsBound(req[c], pools[req[c].pool], conn)
                      /\ CallIsBound(req[c], call[c], target[TurnOf[c]])
  /\ \A c \in Writes : \A i \in 1 .. Len(ran[c]) : ran[c][i] = req[c].at

\* The gate of a pool belongs to the one request that connects it; meanwhile the
\* pool has no session.
GateHasItsOwner ==
  /\ \A p \in Pools : pools[p].gate # NoCall => /\ req[pools[p].gate].srv = "connecting"
                                                /\ req[pools[p].gate].pool = p
                                                /\ pools[p].session = 0
  /\ \A c \in Calls : /\ req[c].srv = "connecting" => pools[req[c].pool].gate = c
                      /\ call[c].pc = "resolving" => req[c].srv \in {"none", "replied", "gone"}

ConnectionsAreKept ==
  \A i \in Ids : conn[i].open => \E p \in Pools : pools[p].session = i

GInv == IInv /\ GateHasItsOwner /\ ConnectionsAreKept

-----------------------------------------------------------------------------
(* Gates and connections.                                                  *)

LEMMA InitGate == Init => GateHasItsOwner /\ ConnectionsAreKept
BY CallsAssumption DEF Init, GateHasItsOwner, ConnectionsAreKept, NewPool, NoRequest, Closed, Pools, Ids

\* Every gate is given back by c, if it is its owner; sessions are dropped only
\* with their connection.
Quiet(c) ==
  /\ \A p \in Pools :
       /\ pools'[p].gate = IF pools[p].gate = c THEN NoCall ELSE pools[p].gate
       /\ \/ pools'[p].session = pools[p].session
          \/ pools'[p].session = 0 /\ ~conn'[pools[p].session].open
  /\ \A i \in Ids : conn'[i].open => conn[i].open

LEMMA QuietKeeps ==
  ASSUME GInv, NEW c \in Calls \cup {NoCall}, Quiet(c),
         \A d \in Calls \ {c} : req'[d].srv = req[d].srv /\ req'[d].pool = req[d].pool,
         c \in Calls => req'[c].srv # "connecting",
         \A d \in Calls : call'[d].pc = "resolving" => req'[d].srv \in {"none", "replied", "gone"}
  PROVE  GateHasItsOwner' /\ ConnectionsAreKept'
<1>1. \A p \in Pools : pools[p].gate \in Calls \cup {NoCall} /\ pools[p].session \in Ids \cup {0}
  BY DEF GInv, IInv, Typed, PoolStates
<1>2. \A d \in Calls : req[d].pool \in Pools
  BY DEF GInv, IInv, Typed, Requests
<1>3. ASSUME NEW p \in Pools, pools'[p].gate # NoCall
      PROVE  /\ req'[pools'[p].gate].srv = "connecting" /\ req'[pools'[p].gate].pool = p
             /\ pools'[p].session = 0
  <2>1. pools'[p].gate = pools[p].gate /\ pools[p].gate \in Calls \ {c}
    BY <1>1, <1>3 DEF Quiet
  <2> QED BY <1>3, <2>1 DEF Quiet, GInv, GateHasItsOwner
<1>4. ASSUME NEW d \in Calls, req'[d].srv = "connecting" PROVE pools'[req'[d].pool].gate = d
  <2>1. d # c /\ req'[d].pool = req[d].pool /\ pools[req[d].pool].gate = d
    BY <1>4 DEF GInv, GateHasItsOwner
  <2> QED BY <1>2, <2>1 DEF Quiet
<1>5. ASSUME NEW i \in Ids, conn'[i].open PROVE \E p \in Pools : pools'[p].session = i
  <2>1. PICK p \in Pools : pools[p].session = i
    BY <1>5 DEF Quiet, GInv, ConnectionsAreKept
  <2> QED BY <1>5, <2>1 DEF Quiet
<1> QED BY <1>3, <1>4, <1>5 DEF GateHasItsOwner, ConnectionsAreKept

LEMMA FailureIsQuiet ==
  ASSUME GInv, NEW c \in Calls, NEW r, FailureAsync(c, r)
  PROVE  Quiet(c)
<1>1. /\ req[c].pool \in Pools /\ Released(c) \in [Pools -> PoolStates]
      /\ pools' = InvalidateDisconnected(Released(c), req[c].pool) /\ conn' = conn
  BY ReleasedKeepsTypes DEF FailureAsync, GInv, IInv, Typed, Requests
<1>2. ASSUME NEW p \in Pools
      PROVE  /\ Released(c)[p].gate = IF pools[p].gate = c THEN NoCall ELSE pools[p].gate
             /\ Released(c)[p].session = pools[p].session
  BY DEF Released, GInv, IInv, Typed, PoolStates
<1>3. ASSUME NEW p \in Pools
      PROVE  /\ pools'[p].gate = Released(c)[p].gate
             /\ \/ pools'[p].session = pools[p].session
                \/ pools'[p].session = 0 /\ ~conn[pools[p].session].open
  BY <1>1, <1>2 DEF InvalidateDisconnected, Completed, PoolStates
<1> QED BY <1>1, <1>2, <1>3 DEF Quiet

LEMMA InvalidateIsQuiet ==
  ASSUME GInv, NEW p \in Pools, NEW c \in Calls \cup {NoCall}, InvalidateAsync(p),
         \A q \in Pools : pools[q].gate # c \/ c = NoCall
  PROVE  Quiet(c)
<1>1. /\ pools' = [pools EXCEPT ![p].session = 0] /\ conn' = Close({pools[p].session})
      /\ pools \in [Pools -> PoolStates] /\ conn \in [Ids -> Connections]
  BY DEF InvalidateAsync, GInv, IInv, Typed
<1>2. \A i \in Ids : conn'[i].open => conn[i].open /\ i # pools[p].session
  BY <1>1 DEF Close, Connections
<1>3. \A q \in Pools : pools'[q].gate = pools[q].gate /\ (q # p => pools'[q].session = pools[q].session)
  BY <1>1 DEF PoolStates
<1>4. pools[p].session \in Ids \cup {0} /\ pools'[p].session = 0
  BY <1>1 DEF PoolStates
<1>5. pools[p].session \in Ids => ~conn'[pools[p].session].open
  BY <1>2
<1> QED BY <1>2, <1>3, <1>4, <1>5 DEF Quiet

\* The request of c moves, from a state in which it is under way to one in which it
\* does not hold a gate.
LEMMA GateOfMoves ==
  ASSUME GInv, NEW c \in Calls, Quiet(c), UNCHANGED call,
         \A d \in Calls \ {c} : req'[d] = req[d],
         req[c].srv \notin {"none", "replied", "gone"}, req'[c].srv # "connecting"
  PROVE  GateHasItsOwner' /\ ConnectionsAreKept'
BY QuietKeeps DEF GInv, GateHasItsOwner

\* A call that does not hold a gate leaves all gates as they are.
LEMMA IdleIsQuiet ==
  ASSUME GInv, NEW c \in Calls \cup {NoCall}, UNCHANGED <<pools, conn>>,
         c \in Calls => req[c].srv # "connecting"
  PROVE  Quiet(c)
<1>1. \A p \in Pools : pools[p].gate # c \/ c = NoCall
  BY DEF GInv, GateHasItsOwner
<1> QED BY <1>1 DEF Quiet

LEMMA ServeIsQuiet ==
  ASSUME GInv, NEW c \in Calls,
         \/ InvokeAsync(c) \/ ConnectFails(c) \/ GuardedInvoke(c) \/ RpcReturns(c)
         \/ RpcLost(c) \/ Deadline(c) \/ RequestAborted(c) \/ ActionListAsync(c)
  PROVE  GateHasItsOwner' /\ ConnectionsAreKept'
<1>1. /\ req[c].srv \notin {"none", "replied", "gone"} /\ call' = call
      /\ \A d \in Calls \ {c} : req'[d] = req[d]
  <2>1. req[c].srv \in {"posted", "waiting", "connecting", "calling"} /\ call' = call
    BY DEF InvokeAsync, ConnectFails, GuardedInvoke, RpcReturns, RpcLost, Deadline, RequestAborted,
           ActionListAsync, InProgress, nodeVars
  <2>2. req' = [req EXCEPT ![c] = req'[c]]
    <3> USE DEF GInv, IInv, Typed
    <3>1. CASE InvokeAsync(c) \/ RequestAborted(c) \/ ActionListAsync(c)
      BY <3>1 DEF InvokeAsync, RequestAborted, ActionListAsync
    <3>2. CASE ConnectFails(c) \/ RpcLost(c)
      BY <3>2 DEF ConnectFails, RpcLost, FailureAsync
    <3>3. CASE GuardedInvoke(c)
      BY <3>3 DEF GuardedInvoke, FailureAsync
    <3>4. CASE RpcReturns(c)
      BY <3>4 DEF RpcReturns, FailureAsync
    <3>5. CASE Deadline(c)
      BY <3>5 DEF Deadline, FailureAsync
    <3> QED BY <3>1, <3>2, <3>3, <3>4, <3>5
  <2>3. \A d \in Calls \ {c} : req'[d] = req[d]
    BY <2>2 DEF GInv, IInv, Typed
  <2> QED BY <2>1, <2>3
<1>2. /\ req[c] \in Requests /\ req[c].pool \in Pools /\ req \in [Calls -> Requests]
  BY DEF GInv, IInv, Typed, Requests
<1>3. ASSUME NEW r \in Replies, req' = [req EXCEPT ![c] = Reply(c, r)] PROVE req'[c].srv = "replied"
  BY <1>2, <1>3, ReplyKeepsTypes DEF GInv
<1>4. ASSUME NEW r \in {"refused", "failed", "unknown"}, FailureAsync(c, r)
      PROVE  GateHasItsOwner' /\ ConnectionsAreKept'
  BY <1>1, <1>3, <1>4, FailureIsQuiet, GateOfMoves DEF FailureAsync, Replies
<1>5. CASE InvokeAsync(c)
  <2>1. Quiet(c)
    BY <1>5, IdleIsQuiet DEF InvokeAsync
  <2>2. req'[c].srv # "connecting"
    BY <1>2, <1>5 DEF InvokeAsync, Requests
  <2> QED BY <1>1, <2>1, <2>2, GateOfMoves
<1>6. CASE ConnectFails(c) \/ RpcLost(c)
  BY <1>4, <1>6 DEF ConnectFails, RpcLost, LostMeaning
<1>7. CASE GuardedInvoke(c)
  <2>1. CASE FailureAsync(c, "refused") \/ FailureAsync(c, LostMeaning(c))
    BY <1>4, <2>1 DEF LostMeaning
  <2>2. CASE /\ req' = [req EXCEPT ![c].rpc = "sent", ![c].at = conn[req[c].sess].host]
             /\ UNCHANGED <<pools, conn>>
    <3>1. Quiet(c)
      BY <1>7, <2>2, IdleIsQuiet DEF GuardedInvoke
    <3>2. req'[c].srv # "connecting"
      BY <1>2, <1>7, <2>2 DEF GuardedInvoke, Requests
    <3> QED BY <1>1, <3>1, <3>2, GateOfMoves
  <2> QED BY <1>7, <2>1, <2>2 DEF GuardedInvoke
<1>8. CASE RpcReturns(c)
  <2>1. CASE FailureAsync(c, LostMeaning(c))
    BY <1>4, <2>1 DEF LostMeaning
  <2>2. CASE ~FailureAsync(c, LostMeaning(c))
    <3>1. req'[c].srv = "replied"
      BY <1>3, <1>8, <2>2 DEF RpcReturns, Replies
    <3>2. Quiet(c)
      BY <1>8, <2>2, IdleIsQuiet DEF RpcReturns
    <3> QED BY <1>1, <3>1, <3>2, GateOfMoves
  <2> QED BY <2>1, <2>2
<1>9. ASSUME pools' = Released(c), conn' = conn PROVE Quiet(c)
  BY <1>9 DEF Quiet, Released, GInv, IInv, Typed, PoolStates
<1>10. CASE Deadline(c)
  <2>1. CASE FailureAsync(c, "unknown")
    BY <1>4, <2>1
  <2>2. CASE req' = [req EXCEPT ![c] = Reply(c, "timeout")] /\ pools' = Released(c) /\ UNCHANGED conn
    BY <1>1, <1>3, <1>9, <2>2, GateOfMoves DEF Replies
  <2> QED BY <1>10, <2>1, <2>2 DEF Deadline
<1>11. CASE RequestAborted(c)
  <2>1. Quiet(c)
    BY <1>9, <1>11 DEF RequestAborted
  <2>2. req'[c].srv # "connecting"
    BY <1>2, <1>11 DEF RequestAborted, Requests
  <2> QED BY <1>1, <2>1, <2>2, GateOfMoves
<1>12. CASE ActionListAsync(c)
  <2>1. \A q \in Pools : pools[q].gate # c
    BY <1>12, CallsAssumption DEF ActionListAsync, GInv, GateHasItsOwner, NoCall
  <2>2. Quiet(c)
    BY <1>2, <1>12, <2>1, InvalidateIsQuiet DEF ActionListAsync
  <2>3. req'[c].srv # "connecting"
    BY <1>2, <1>12 DEF ActionListAsync, Requests
  <2> QED BY <1>1, <2>2, <2>3, GateOfMoves
<1> QED BY <1>5, <1>6, <1>7, <1>8, <1>10, <1>11, <1>12

\* The request takes the session of its pool, is refused, or owns the gate now.
LEMMA SessionIsQuiet ==
  ASSUME GInv, NEW c \in Calls, GetSessionAsync(c)
  PROVE  GateHasItsOwner' /\ ConnectionsAreKept'
<1> DEFINE p == req[c].pool
<1>1. /\ req[c].srv = "waiting" /\ GateIsFree(p) /\ call' = call /\ p \in Pools
      /\ req \in [Calls -> Requests] /\ pools \in [Pools -> PoolStates]
  BY DEF GetSessionAsync, nodeVars, GInv, IInv, Typed, Requests
<1>2. CASE FailureAsync(c, "refused")
  <2>1. req' = [req EXCEPT ![c] = Reply(c, "refused")]
    BY <1>2 DEF FailureAsync
  <2>2. req'[c].srv = "replied" /\ \A d \in Calls \ {c} : req'[d] = req[d]
    BY <1>1, <2>1, ReplyKeepsTypes DEF Replies, GInv
  <2> QED BY <1>1, <1>2, <2>2, FailureIsQuiet, GateOfMoves
<1>3. CASE req' = [req EXCEPT ![c].srv = "calling", ![c].sess = pools[p].session] /\ UNCHANGED <<pools, conn>>
  <2>1. req'[c].srv = "calling" /\ \A d \in Calls \ {c} : req'[d] = req[d]
    BY <1>1, <1>3 DEF Requests
  <2>2. Quiet(c)
    BY <1>1, <1>3, IdleIsQuiet
  <2> QED BY <1>1, <2>1, <2>2, GateOfMoves
<1>4. ASSUME NEW h, pools[p].session = 0, UNCHANGED conn,
             pools' = [pools EXCEPT ![p].gate = c, ![p].goal = h],
             req' = [req EXCEPT ![c].srv = "connecting"]
      PROVE  GateHasItsOwner' /\ ConnectionsAreKept'
  <2>1. /\ req'[c].srv = "connecting" /\ req'[c].pool = p
        /\ \A d \in Calls \ {c} : req'[d] = req[d]
    BY <1>1, <1>4 DEF Requests
  <2>2. /\ pools'[p].gate = c /\ pools'[p].session = 0
        /\ \A q \in Pools \ {p} : pools'[q] = pools[q]
    BY <1>1, <1>4 DEF PoolStates
  <2>3. pools[p].gate = NoCall
    BY <1>1 DEF GateIsFree
  <2>4. ASSUME NEW q \in Pools, pools'[q].gate # NoCall
        PROVE  /\ req'[pools'[q].gate].srv = "connecting" /\ req'[pools'[q].gate].pool = q
               /\ pools'[q].session = 0
    <3>1. CASE q = p
      BY <2>1, <2>2, <3>1
    <3>2. CASE q # p
      <4>1. /\ pools'[q] = pools[q] /\ pools[q].gate \in Calls
            /\ req[pools[q].gate].srv = "connecting" /\ req[pools[q].gate].pool = q /\ pools[q].session = 0
        BY <1>1, <2>2, <2>4, <3>2 DEF GInv, GateHasItsOwner, PoolStates
      <4> QED BY <1>1, <2>1, <4>1
    <3> QED BY <3>1, <3>2
  <2>5. ASSUME NEW d \in Calls
        PROVE  /\ req'[d].srv = "connecting" => pools'[req'[d].pool].gate = d
               /\ call'[d].pc = "resolving" => req'[d].srv \in {"none", "replied", "gone"}
    <3>1. CASE d = c
      BY <1>1, <2>1, <2>2, <3>1 DEF GInv, GateHasItsOwner
    <3>2. CASE d # c
      <4>1. req'[d] = req[d] /\ call'[d] = call[d] /\ req[d].pool \in Pools
        BY <1>1, <2>1, <3>2 DEF Requests
      <4>2. /\ req[d].srv = "connecting" => pools[req[d].pool].gate = d
            /\ call[d].pc = "resolving" => req[d].srv \in {"none", "replied", "gone"}
        BY DEF GInv, GateHasItsOwner
      <4>3. req[d].srv = "connecting" => req[d].pool # p
        BY <2>3, <4>2, CallsAssumption DEF NoCall
      <4> QED BY <2>2, <4>1, <4>2, <4>3
    <3> QED BY <3>1, <3>2
  <2>6. ConnectionsAreKept'
    <3>1. \A q \in Pools : pools'[q].session = pools[q].session
      BY <1>4, <2>2
    <3> QED BY <1>4, <3>1 DEF GInv, ConnectionsAreKept
  <2> QED BY <2>4, <2>5, <2>6 DEF GateHasItsOwner
<1> QED BY <1>2, <1>3, <1>4 DEF GetSessionAsync

\* A new connection belongs to the pool that it was made for, which had none; the
\* gates of the other pools stay with their owners.
LEMMA ConnectIsKept ==
  ASSUME GInv, NEW p \in Pools, NEW goal, NEW h \in Hosts, NEW i \in Ids, NEW c \in Calls \cup {NoCall},
         ConnectBoundAsync(p, goal, h, i), pools[p].session = 0, pools[p].gate = c, call' = call,
         c \in Calls => req'[c].srv = "calling",
         \A d \in Calls \ {c} : req'[d] = req[d]
  PROVE  GateHasItsOwner' /\ ConnectionsAreKept'
<1> DEFINE b == IF pools[p].binding # NoHost THEN pools[p].binding ELSE goal
<1>1. /\ conn' = [conn EXCEPT ![i] = [host |-> h, open |-> TRUE, bound |-> goal # NoHost]]
      /\ pools' = [pools EXCEPT ![p] = [gate |-> NoCall, session |-> i, goal |-> NoHost,
                                        binding |-> b, legacy |-> b = NoHost]]
      /\ req \in [Calls -> Requests] /\ pools \in [Pools -> PoolStates] /\ conn \in [Ids -> Connections]
  BY DEF ConnectBoundAsync, GInv, IInv, Typed
<1>2. /\ pools'[p].gate = NoCall /\ pools'[p].session = i
      /\ \A q \in Pools \ {p} : pools'[q] = pools[q]
  BY <1>1
<1>3. ASSUME NEW q \in Pools, pools'[q].gate # NoCall
      PROVE  /\ req'[pools'[q].gate].srv = "connecting" /\ req'[pools'[q].gate].pool = q
             /\ pools'[q].session = 0
  <2>1. /\ q # p /\ pools'[q] = pools[q] /\ pools[q].gate \in Calls
        /\ req[pools[q].gate].srv = "connecting" /\ req[pools[q].gate].pool = q /\ pools[q].session = 0
    BY <1>1, <1>2, <1>3 DEF GInv, GateHasItsOwner, PoolStates
  <2>2. c \in Calls => req[c].pool = p
    BY CallsAssumption DEF GInv, GateHasItsOwner, NoCall
  <2> QED BY <2>1, <2>2
<1>4. ASSUME NEW d \in Calls
      PROVE  /\ req'[d].srv = "connecting" => pools'[req'[d].pool].gate = d
             /\ call'[d].pc = "resolving" => req'[d].srv \in {"none", "replied", "gone"}
  <2>1. CASE d = c
    <3>1. req[c].srv = "connecting"
      BY <2>1, CallsAssumption DEF GInv, GateHasItsOwner, NoCall
    <3> QED BY <2>1, <3>1 DEF GInv, GateHasItsOwner
  <2>2. CASE d # c
    <3>1. req'[d] = req[d] /\ call'[d] = call[d] /\ req[d].pool \in Pools
      BY <1>1, <2>2 DEF Requests
    <3>2. /\ req[d].srv = "connecting" => pools[req[d].pool].gate = d
          /\ call[d].pc = "resolving" => req[d].srv \in {"none", "replied", "gone"}
      BY DEF GInv, GateHasItsOwner
    <3>3. req[d].srv = "connecting" => req[d].pool # p
      BY <2>2, <3>2
    <3> QED BY <1>2, <3>1, <3>2, <3>3
  <2> QED BY <2>1, <2>2
<1>5. ASSUME NEW k \in Ids, conn'[k].open PROVE \E q \in Pools : pools'[q].session = k
  <2>1. CASE k = i
    BY <1>2, <2>1
  <2>2. CASE k # i
    <3>1. conn[k].open
      BY <1>1, <1>5, <2>2
    <3>2. PICK q \in Pools : pools[q].session = k
      BY <3>1 DEF GInv, ConnectionsAreKept
    <3>3. q # p
      BY <3>2 DEF Ids
    <3> QED BY <1>2, <3>2, <3>3
  <2> QED BY <2>1, <2>2
<1> QED BY <1>3, <1>4, <1>5 DEF GateHasItsOwner, ConnectionsAreKept

\* The owner of the gate gives it back with a session that the pool did not have.
LEMMA ConnectedIsQuiet ==
  ASSUME GInv, NEW c \in Calls, Connected(c)
  PROVE  GateHasItsOwner' /\ ConnectionsAreKept'
<1> DEFINE p == req[c].pool
<1>1. /\ req[c].srv = "connecting" /\ call' = call /\ p \in Pools
      /\ req \in [Calls -> Requests]
  BY DEF Connected, nodeVars, GInv, IInv, Typed, Requests
<1>2. PICK h \in Hosts, i \in Ids :
        /\ ConnectBoundAsync(p, pools[p].goal, h, i)
        /\ req' = [req EXCEPT ![c].srv = "calling", ![c].sess = i]
  BY DEF Connected
<1>3. /\ req'[c].srv = "calling" /\ \A d \in Calls \ {c} : req'[d] = req[d]
  BY <1>1, <1>2 DEF Requests
<1>4. pools[p].gate = c /\ pools[p].session = 0
  BY <1>1, CallsAssumption DEF GInv, GateHasItsOwner, NoCall
<1> QED BY <1>1, <1>2, <1>3, <1>4, ConnectIsKept

\* So does a health request, which nobody waits for.
LEMMA HealthIsQuiet ==
  ASSUME GInv, HealthConnects
  PROVE  GateHasItsOwner' /\ ConnectionsAreKept'
<1>1. PICK h \in Hosts, i \in Ids, goal \in Identified \cup {NoHost} : ConnectBoundAsync(Root, goal, h, i)
  BY DEF HealthConnects
<1>2. /\ Root \in Pools /\ pools[Root].session = 0 /\ pools[Root].gate = NoCall /\ NoCall \notin Calls
      /\ UNCHANGED <<call, req>>
  BY CallsAssumption DEF HealthConnects, GateIsFree, Pools, NoCall, nodeVars
<1> QED BY <1>1, <1>2, ConnectIsKept

LEMMA CloseShrinks ==
  ASSUME Typed, NEW I, NEW i \in Ids
  PROVE  Close(I)[i].open => Close(I)[i] = conn[i]
BY DEF Close, Typed, Connections

\* Steps of hosts and of the health request.
LEMMA HostIsQuiet ==
  ASSUME GInv,
         \/ \E h \in Hosts : HostStarts(h) \/ StopAsync(h) \/ HostEnds(h)
         \/ \E c \in Calls : HostRuns(c) \/ HostRejects(c)
         \/ HealthFails \/ HandleHealthAsync
  PROVE  GateHasItsOwner' /\ ConnectionsAreKept'
<1>1. call' = call
  BY DEF HostStarts, StopAsync, HostEnds, HostRuns, HostRejects, HealthFails, HandleHealthAsync, nodeVars
<1>2. \A d \in Calls : req'[d].srv = req[d].srv /\ req'[d].pool = req[d].pool
  <2>1. CASE \E c \in Calls : HostRuns(c) \/ HostRejects(c)
    <3>1. PICK c \in Calls, to \in {"ran", "rejected"} : req' = [req EXCEPT ![c].rpc = to]
      BY <2>1 DEF HostRuns, HostRejects
    <3> QED BY <3>1 DEF GInv, IInv, Typed, Requests
  <2>2. CASE ~\E c \in Calls : HostRuns(c) \/ HostRejects(c)
    BY <2>2 DEF HostStarts, StopAsync, HostEnds, HealthFails, HandleHealthAsync, nodeVars, serveVars
  <2> QED BY <2>1, <2>2
<1>3. Quiet(NoCall)
  <2>1. CASE HandleHealthAsync
    BY <2>1, InvalidateIsQuiet DEF HandleHealthAsync, Pools
  <2>2. CASE pools' = pools /\ \A i \in Ids : conn'[i].open => conn[i].open
    BY <2>2 DEF Quiet
  <2>3. CASE \E h \in Hosts : HostEnds(h)
    <3>1. \A i \in Ids : conn'[i].open => conn[i].open
      BY <2>3, CloseShrinks DEF HostEnds, GInv, IInv
    <3> QED BY <2>2, <2>3, <3>1 DEF HostEnds
  <2>4. CASE UNCHANGED <<pools, conn>>
    BY <2>2, <2>4
  <2> QED BY <2>1, <2>3, <2>4 DEF HostStarts, StopAsync, HostRuns, HostRejects, HealthFails, serveVars
<1>4. \A d \in Calls : call'[d].pc = "resolving" => req'[d].srv \in {"none", "replied", "gone"}
  BY <1>1, <1>2 DEF GInv, GateHasItsOwner
<1> QED BY <1>2, <1>3, <1>4, QuietKeeps, CallsAssumption DEF NoCall

LEMMA DeathIsQuiet ==
  ASSUME GInv, ServeDies
  PROVE  GateHasItsOwner' /\ ConnectionsAreKept'
<1>1. /\ pools' = [p \in Pools |-> NewPool(p)] /\ conn' = Close(Ids) /\ call' = call
      /\ req' = [c \in Calls |-> IF req[c].srv \in {"none", "gone"} THEN req[c]
                                 ELSE [req[c] EXCEPT !.srv = "gone", !.sess = 0, !.pool = Root]]
  BY DEF ServeDies, nodeVars
<1>2. \A p \in Pools : pools'[p].gate = NoCall
  BY <1>1 DEF NewPool
<1>3. \A i \in Ids : ~conn'[i].open
  BY <1>1 DEF Close, GInv, IInv, Typed, Connections
<1>4. \A d \in Calls : req'[d].srv \in {"none", "gone"}
  BY <1>1 DEF GInv, IInv, Typed, Requests
<1> QED BY <1>2, <1>3, <1>4 DEF GateHasItsOwner, ConnectionsAreKept

\* Node sends a new request only when the last one has ended.
LEMMA ClientIsQuiet ==
  ASSUME GInv, NEW c \in Calls, Client(c)
  PROVE  GateHasItsOwner' /\ ConnectionsAreKept'
<1>1. UNCHANGED <<pools, conn>>
  BY DEF Client, invokeQkrpcHttp, resolveQkrpcHttpBinding, DiscoveryFails, Receive, HttpFails, Abort
<1>2. CASE \E h : Dispatch(c, h) /\ req[c].srv \in {"none", "replied", "gone"}
  <2>1. PICK h : Dispatch(c, h) /\ req[c].srv \in {"none", "replied", "gone"}
    BY <1>2
  <2>2. /\ req'[c].srv = "posted" /\ \A d \in Calls \ {c} : req'[d] = req[d]
        /\ call'[c].pc = "sent" /\ \A d \in Calls \ {c} : call'[d] = call[d]
    BY <2>1 DEF Dispatch, NoRequest, GInv, IInv, Typed, CallStates
  <2>3. Quiet(c)
    BY <1>1, <2>1, IdleIsQuiet
  <2>4. \A d \in Calls : call'[d].pc = "resolving" => req'[d].srv \in {"none", "replied", "gone"}
    BY <2>2 DEF GInv, GateHasItsOwner
  <2> QED BY <2>2, <2>3, <2>4, QuietKeeps
<1>3. CASE /\ req' = req /\ \A d \in Calls \ {c} : call'[d] = call[d]
           /\ call'[c].pc = "resolving" => req[c].srv \in {"none", "replied", "gone"}
  <2>1. Quiet(NoCall)
    BY <1>1, IdleIsQuiet, CallsAssumption DEF NoCall
  <2>2. \A d \in Calls : call'[d].pc = "resolving" => req'[d].srv \in {"none", "replied", "gone"}
    BY <1>3 DEF GInv, GateHasItsOwner
  <2> QED BY <1>3, <2>1, <2>2, QuietKeeps, CallsAssumption DEF NoCall
<1>4. CASE invokeQkrpcHttp(c)
  <2>1. CASE \E h : Dispatch(c, h)
    BY <1>2, <1>4, <2>1 DEF invokeQkrpcHttp
  <2>2. CASE ~\E h : Dispatch(c, h)
    <3>1. /\ req' = req /\ req[c].srv \in {"none", "replied", "gone"}
          /\ \E k : call' = [call EXCEPT ![c] = k]
      BY <1>4, <2>2 DEF invokeQkrpcHttp
    <3>2. \A d \in Calls \ {c} : call'[d] = call[d]
      BY <3>1 DEF GInv, IInv, Typed
    <3> QED BY <1>3, <3>1, <3>2
  <2> QED BY <2>1, <2>2
<1>5. ASSUME NEW r \in Replies \cup {"aborted"}, call' = [call EXCEPT ![c] = Answer(c, r)], req' = req
      PROVE  GateHasItsOwner' /\ ConnectionsAreKept'
  <2>1. call'[c].pc = "done" /\ \A d \in Calls \ {c} : call'[d] = call[d]
    BY <1>5 DEF Answer, GInv, IInv, Typed, CallStates
  <2> QED BY <1>3, <1>5, <2>1
<1>6. CASE resolveQkrpcHttpBinding(c) \/ DiscoveryFails(c)
  <2>1. call[c].pc = "resolving" /\ req[c].srv \in {"none", "replied", "gone"}
    BY <1>6 DEF resolveQkrpcHttpBinding, DiscoveryFails, GInv, GateHasItsOwner
  <2>2. CASE \E h : Dispatch(c, h)
    BY <1>2, <2>1, <2>2
  <2>3. CASE ~\E h : Dispatch(c, h)
    <3>1. PICK r \in {"refused", "failed"} : call' = [call EXCEPT ![c] = Answer(c, r)] /\ req' = req
      BY <1>6, <2>3 DEF resolveQkrpcHttpBinding, DiscoveryFails
    <3> QED BY <1>5, <3>1 DEF Replies
  <2> QED BY <2>2, <2>3
<1>7. ASSUME NEW r \in Replies, Settle(c, r), req' = req PROVE GateHasItsOwner' /\ ConnectionsAreKept'
  <2>1. CASE call' = [call EXCEPT ![c] = [call[c] EXCEPT !.pc = "idle", !.tries = call[c].tries + 1]]
    <3>1. call'[c].pc = "idle" /\ \A d \in Calls \ {c} : call'[d] = call[d]
      BY <2>1 DEF GInv, IInv, Typed, CallStates
    <3> QED BY <1>3, <1>7, <3>1
  <2>2. CASE call' = [call EXCEPT ![c] = Answer(c, Meaning(c, r))]
    <3>1. Meaning(c, r) \in Replies
      BY <1>7 DEF Meaning, Replies
    <3> QED BY <1>5, <1>7, <2>2, <3>1
  <2> QED BY <1>7, <2>1, <2>2 DEF Settle
<1>8. CASE Receive(c)
  <2>1. req' = req /\ req[c].reply \in Replies
    BY <1>8 DEF Receive, GInv, IInv, Typed, Requests
  <2>2. CASE Settle(c, req[c].reply)
    BY <1>7, <2>1, <2>2
  <2>3. CASE call' = [call EXCEPT ![c] = Answer(c, "refused")]
    BY <1>5, <2>1, <2>3 DEF Replies
  <2> QED BY <1>8, <2>2, <2>3 DEF Receive
<1>9. CASE HttpFails(c)
  BY <1>7, <1>9 DEF HttpFails, Replies
<1>10. CASE Abort(c)
  BY <1>5, <1>10 DEF Abort
<1> QED BY <1>4, <1>6, <1>8, <1>9, <1>10 DEF Client

BInv == GInv /\ Bound

-----------------------------------------------------------------------------
(* Bindings.                                                               *)

LEMMA InitBound == Init => Bound
<1> SUFFICES ASSUME Init PROVE Bound
  OBVIOUS
<1>1. \A p \in {Root} \cup Identified : PoolIsBound(pools, conn, p)
  BY CallsAssumption DEF Init, PoolIsBound, NewPool, Pools
<1>2. \A c \in Calls : /\ RequestIsBound(req[c], pools[req[c].pool], conn)
                       /\ CallIsBound(req[c], call[c], target[TurnOf[c]])
  BY DEF Init, RequestIsBound, CallIsBound, NoRequest
<1>3. ASSUME NEW c \in Writes, NEW i \in 1 .. Len(ran[c]) PROVE ran[c][i] = req[c].at
  <2>1. ran[c] = <<>>
    BY DEF Init
  <2> QED BY <2>1
<1> QED BY <1>1, <1>2, <1>3 DEF Bound

-----------------------------------------------------------------------------
(* What a step leaves of pools and connections.                            *)

\* Sessions are dropped and gates given back, connections close; bindings stay.
Shrink ==
  /\ \A p \in Pools : /\ pools'[p].binding = pools[p].binding /\ pools'[p].goal = pools[p].goal
                       /\ pools'[p].legacy = pools[p].legacy
                       /\ pools'[p].gate \in {pools[p].gate, NoCall}
                       /\ pools'[p].session \in {pools[p].session, 0}
  /\ \A i \in Ids : conn'[i].open => conn'[i] = conn[i]

\* No binding that anybody relies on changes, and no connection that another call
\* than c may use.
Keep(c) ==
  /\ \A p \in {Root} \cup Identified :
       /\ PoolIsBound(pools', conn', p)
       /\ \/ pools'[p].binding = pools[p].binding /\ pools'[p].legacy = pools[p].legacy
          \/ pools[p].binding = NoHost /\ ~pools[p].legacy
  /\ \A i \in Ids : conn'[i].open =>
       conn'[i] = conn[i] \/ \A d \in Calls \ {c} : req[d].sess # i

LEMMA ShrinkKeeps ==
  ASSUME BInv, Shrink, NEW c
  PROVE  Keep(c)
<1> SUFFICES ASSUME NEW p \in {Root} \cup Identified PROVE PoolIsBound(pools', conn', p)
  BY CallsAssumption DEF Keep, Shrink, Pools
<1>1. /\ PoolIsBound(pools, conn, p) /\ p \in Pools /\ pools[p].session \in Ids \cup {0}
  BY CallsAssumption DEF BInv, Bound, GInv, IInv, Typed, PoolStates, Pools
<1> QED BY <1>1 DEF Shrink, PoolIsBound

LEMMA OthersKeep ==
  ASSUME BInv, NEW c, NEW d \in Calls \ {c}, Keep(c)
  PROVE  RequestIsBound(req[d], pools'[req[d].pool], conn')
<1>1. /\ RequestIsBound(req[d], pools[req[d].pool], conn)
      /\ req[d].pool \in {Root} \cup Identified /\ (req[d].srv = "calling" => req[d].sess \in Ids)
  BY DEF BInv, Bound, GInv, IInv, HostsAreKnown, RequestIsKnown
<1> QED BY <1>1 DEF Keep, RequestIsBound

\* Serve moves the request of c.
LEMMA MovesKeep ==
  ASSUME BInv, NEW c \in Calls, UNCHANGED <<target, call, ran>>, Keep(c),
         \A d \in Calls \ {c} : req'[d] = req[d],
         req[c].srv \notin {"none", "replied", "gone"},
         req'[c].to = req[c].to, req'[c].at = req[c].at \/ req[c].rpc = "none",
         RequestIsBound(req'[c], pools'[req'[c].pool], conn')
  PROVE  Bound'
<1>1. \A p \in {Root} \cup Identified : PoolIsBound(pools', conn', p)
  BY DEF Keep
<1>2. \A d \in Calls : RequestIsBound(req'[d], pools'[req'[d].pool], conn')
  BY OthersKeep
<1>3. \A d \in Calls : CallIsBound(req'[d], call'[d], target'[TurnOf[d]])
  BY DEF BInv, Bound, CallIsBound
<1>4. ASSUME NEW d \in Writes, NEW i \in 1 .. Len(ran'[d]) PROVE ran'[d][i] = req'[d].at
  <2>1. d \in Calls /\ ran[d][i] = req[d].at
    BY <1>4, CallsAssumption DEF BInv, Bound
  <2>2. CASE d # c \/ req'[c].at = req[c].at
    BY <2>1, <2>2
  <2>3. CASE d = c /\ req[c].rpc = "none"
    <3>1. ran[d] = <<>>
      BY <2>3 DEF BInv, GInv, IInv, WriteProgress, Progress
    <3> QED BY <1>4, <3>1
  <2> QED BY <2>2, <2>3
<1> QED BY <1>1, <1>2, <1>3, <1>4 DEF Bound

LEMMA ReleasedShrinks ==
  ASSUME Typed, NEW c \in Calls, NEW p \in Pools
  PROVE  /\ Released(c)[p].binding = pools[p].binding /\ Released(c)[p].goal = pools[p].goal
         /\ Released(c)[p].legacy = pools[p].legacy /\ Released(c)[p].session = pools[p].session
         /\ Released(c)[p].gate \in {pools[p].gate, NoCall}
BY DEF Released, Typed, PoolStates

LEMMA InvalidateShrinks ==
  ASSUME NEW P \in [Pools -> PoolStates], NEW q \in Pools, NEW p \in Pools
  PROVE  LET Q == InvalidateDisconnected(P, q)
         IN  /\ Q[p].binding = P[p].binding /\ Q[p].goal = P[p].goal
             /\ Q[p].legacy = P[p].legacy /\ Q[p].gate = P[p].gate
             /\ Q[p].session \in {P[p].session, 0}
BY DEF InvalidateDisconnected, PoolStates

\* A reply names the binding of the pool, to which the request was written.
LEMMA ReplyKeeps ==
  ASSUME BInv, NEW c \in Calls, NEW r \in Replies, UNCHANGED <<target, call, ran>>, Shrink,
         req' = [req EXCEPT ![c] = Reply(c, r)],
         req[c].srv \in {"waiting", "connecting", "calling"}, r = "ok" => req[c].rpc = "ran"
  PROVE  Bound'
<1>1. /\ req'[c] = Reply(c, r) /\ \A d \in Calls \ {c} : req'[d] = req[d]
      /\ req[c] \in Requests /\ pools[req[c].pool].binding \in Bindable
      /\ RequestIsBound(req[c], pools[req[c].pool], conn)
  BY DEF BInv, Bound, GInv, IInv, Typed, HostsAreKnown, PoolsAreKnown, RequestIsKnown
<1>2. ASSUME NEW q \in Requests, NEW b \in Bindable
      PROVE  LET n == [q EXCEPT !.srv = "replied", !.reply = r, !.sess = 0, !.relisted = FALSE,
                                !.pool = Root, !.from = b]
             IN  /\ n.srv = "replied" /\ n.reply = r /\ n.from = b
                 /\ n.rpc = q.rpc /\ n.to = q.to /\ n.at = q.at
  BY DEF Requests
<1>3. /\ req'[c].srv = "replied" /\ req'[c].reply = r /\ req'[c].from = pools[req[c].pool].binding
      /\ req'[c].rpc = req[c].rpc /\ req'[c].to = req[c].to /\ req'[c].at = req[c].at
  <2>1. /\ Reply(c, r).srv = "replied" /\ Reply(c, r).reply = r
        /\ Reply(c, r).from = pools[req[c].pool].binding
        /\ Reply(c, r).rpc = req[c].rpc /\ Reply(c, r).to = req[c].to /\ Reply(c, r).at = req[c].at
    BY <1>1, <1>2 DEF Reply
  <2> QED BY <1>1, <2>1
<1>4. RequestIsBound(req'[c], pools'[req'[c].pool], conn')
  BY <1>1, <1>3 DEF RequestIsBound
<1> QED BY <1>1, <1>3, <1>4, ShrinkKeeps, MovesKeep

LEMMA FailureKeeps ==
  ASSUME BInv, NEW c \in Calls, NEW r \in {"refused", "failed", "unknown"},
         FailureAsync(c, r), UNCHANGED <<hostVars, nodeVars, countVars>>,
         req[c].srv \in {"waiting", "connecting", "calling"}
  PROVE  Bound'
<1>1. req[c].pool \in Pools /\ Released(c) \in [Pools -> PoolStates]
  BY ReleasedKeepsTypes DEF BInv, GInv, IInv, Typed, Requests
<1>2. Shrink
  BY <1>1, ReleasedShrinks, InvalidateShrinks DEF FailureAsync, Shrink, BInv, GInv, IInv
<1> QED BY <1>2, ReplyKeeps DEF FailureAsync, Replies, hostVars, nodeVars

LEMMA ServeFailsKeeps ==
  ASSUME BInv, NEW c \in Calls, ConnectFails(c) \/ RpcLost(c) \/ RpcReturns(c) \/ Deadline(c)
  PROVE  Bound'
<1>1. CASE ConnectFails(c)
  BY <1>1, FailureKeeps DEF ConnectFails
<1>2. CASE RpcLost(c)
  BY <1>2, FailureKeeps DEF RpcLost, LostMeaning
<1>3. CASE RpcReturns(c) /\ FailureAsync(c, LostMeaning(c))
  BY <1>3, FailureKeeps DEF RpcReturns, LostMeaning
<1>4. CASE RpcReturns(c) /\ ~FailureAsync(c, LostMeaning(c))
  <2>1. Shrink
    BY <1>4 DEF RpcReturns, Shrink
  <2> QED BY <1>4, <2>1, ReplyKeeps DEF RpcReturns, Replies, hostVars, nodeVars
<1>5. CASE Deadline(c) /\ FailureAsync(c, "unknown")
  BY <1>5, FailureKeeps DEF Deadline, InProgress
<1>6. CASE Deadline(c) /\ ~FailureAsync(c, "unknown")
  <2>1. Shrink
    BY <1>6, ReleasedShrinks DEF Deadline, Shrink, BInv, GInv, IInv
  <2> QED BY <1>6, <2>1, ReplyKeeps DEF Deadline, InProgress, Replies, hostVars, nodeVars
<1> QED BY <1>1, <1>2, <1>3, <1>4, <1>5, <1>6

LEMMA InvokeKeeps ==
  ASSUME BInv, NEW c \in Calls, InvokeAsync(c)
  PROVE  Bound'
<1> DEFINE h == req[c].to
<1>1. /\ req[c] \in Requests /\ req[c].srv = "posted" /\ RequestIsBound(req[c], pools[req[c].pool], conn)
      /\ UNCHANGED <<target, call, ran, pools, conn>> /\ h \in Bindable
      /\ \A p \in Identified : pools[p].binding = p
  BY DEF BInv, Bound, PoolIsBound, GInv, IInv, Typed, Requests, InvokeAsync, hostVars, nodeVars
<1>2. Keep(c)
  BY <1>1, ShrinkKeeps DEF Shrink
<1>3. CASE req' = [req EXCEPT ![c].srv = "replied", ![c].reply = "refused", ![c].from = h]
  <2>1. RequestIsBound(req'[c], pools'[req'[c].pool], conn')
    BY <1>1, <1>3 DEF BInv, GInv, IInv, Typed, Requests, RequestIsBound
  <2> QED BY <1>1, <1>2, <1>3, <2>1, MovesKeep DEF BInv, GInv, IInv, Typed, Requests
<1>4. CASE req' = [req EXCEPT ![c].srv = "waiting",
                              ![c].pool = IF h = NoHost \/ pools[Root].binding = h THEN Root ELSE h]
  <2>1. RequestIsBound(req'[c], pools'[req'[c].pool], conn')
    BY <1>1, <1>4 DEF BInv, GInv, IInv, Typed, Requests, RequestIsBound, Bindable
  <2> QED BY <1>1, <1>2, <1>4, <2>1, MovesKeep DEF BInv, GInv, IInv, Typed, Requests
<1> QED BY <1>3, <1>4 DEF InvokeAsync

\* Whoever takes the gate of a bound pool goes for the host it is bound to.
LEMMA SessionKeeps ==
  ASSUME BInv, NEW c \in Calls, GetSessionAsync(c)
  PROVE  Bound'
<1> DEFINE p == req[c].pool
<1>1. /\ req[c] \in Requests /\ req[c].srv = "waiting"
      /\ p \in Pools /\ p \in {Root} \cup Identified
      /\ RequestIsBound(req[c], pools[p], conn) /\ PoolIsBound(pools, conn, p)
      /\ pools[p] \in PoolStates
      /\ UNCHANGED <<hostVars, nodeVars, countVars>> /\ UNCHANGED <<target, call, ran>>
  BY DEF BInv, Bound, GInv, IInv, Typed, HostsAreKnown, RequestIsKnown, GetSessionAsync, Requests, hostVars, nodeVars
<1>2. CASE FailureAsync(c, "refused")
  BY <1>1, <1>2, FailureKeeps
<1>3. CASE /\ pools[p].session # 0 /\ UNCHANGED <<pools, conn>>
           /\ req' = [req EXCEPT ![c].srv = "calling", ![c].sess = pools[p].session]
  <2>1. Keep(c)
    BY <1>3, ShrinkKeeps DEF Shrink
  <2>2. RequestIsBound(req'[c], pools'[req'[c].pool], conn')
    BY <1>1, <1>3 DEF BInv, GInv, IInv, Typed, Requests, RequestIsBound, PoolIsBound
  <2> QED BY <1>1, <1>3, <2>1, <2>2, MovesKeep DEF BInv, GInv, IInv, Typed, Requests
<1>4. CASE \E h \in Bindable : /\ pools[p].binding \in {NoHost, h} /\ ~pools[p].legacy /\ pools[p].session = 0
                               /\ pools' = [pools EXCEPT ![p].gate = c, ![p].goal = h]
                               /\ req' = [req EXCEPT ![c].srv = "connecting"] /\ UNCHANGED conn
  <2>1. PICK h \in Bindable : /\ pools[p].binding \in {NoHost, h} /\ ~pools[p].legacy /\ pools[p].session = 0
                              /\ pools' = [pools EXCEPT ![p].gate = c, ![p].goal = h]
                              /\ req' = [req EXCEPT ![c].srv = "connecting"] /\ UNCHANGED conn
    BY <1>4
  <2>2. /\ \A q \in Pools \ {p} : pools'[q] = pools[q]
        /\ pools'[p].gate = c /\ pools'[p].goal = h /\ pools'[p].binding = pools[p].binding
        /\ pools'[p].legacy = pools[p].legacy /\ pools'[p].session = pools[p].session
    BY <1>1, <2>1 DEF BInv, GInv, IInv, Typed, PoolStates
  <2>3. Keep(c)
    <3>1. ASSUME NEW q \in {Root} \cup Identified PROVE PoolIsBound(pools', conn', q)
      <4>1. q \in Pools /\ PoolIsBound(pools, conn, q)
        BY CallsAssumption DEF BInv, Bound, Pools
      <4>2. CASE q # p
        BY <2>1, <2>2, <4>1, <4>2 DEF PoolIsBound
      <4>3. CASE q = p
        BY <2>1, <2>2, <4>1, <4>3 DEF PoolIsBound
      <4> QED BY <4>2, <4>3
    <3>2. \A q \in {Root} \cup Identified :
            pools'[q].binding = pools[q].binding /\ pools'[q].legacy = pools[q].legacy
      BY <2>2, CallsAssumption DEF Pools
    <3> QED BY <2>1, <3>1, <3>2 DEF Keep
  <2>4. RequestIsBound(req'[c], pools'[req'[c].pool], conn')
    BY <1>1, <2>1, <2>2 DEF BInv, GInv, IInv, Typed, Requests, RequestIsBound
  <2> QED BY <1>1, <2>1, <2>3, <2>4, MovesKeep DEF BInv, GInv, IInv, Typed, Requests
<1>5. \A D \in Discovered : D \subseteq Identified
  BY DEF Discovered
<1>6. pools[p].binding \in Bindable
  BY <1>1 DEF BInv, GInv, IInv, HostsAreKnown, PoolsAreKnown
<1> QED BY <1>2, <1>3, <1>4, <1>5, <1>6 DEF GetSessionAsync, Bindable

\* A new connection has an id that no request and no pool uses, and leads to the
\* host the pool is or gets bound to.
LEMMA ConnectKeeps ==
  ASSUME BInv, NEW p \in {Root} \cup Identified, NEW goal, NEW h \in Hosts, NEW i \in Ids,
         ConnectBoundAsync(p, goal, h, i),
         ~pools[p].legacy, pools[p].binding \in {NoHost, goal}, NEW c
  PROVE  /\ Keep(c) /\ conn'[i].host = h
         /\ pools'[p].binding = goal /\ pools'[p].legacy = (goal = NoHost)
         /\ goal \in {NoHost, h}
<1>1. /\ conn' = [conn EXCEPT ![i] = [host |-> h, open |-> TRUE, bound |-> goal # NoHost]]
      /\ pools' = [pools EXCEPT ![p] = [gate |-> NoCall, session |-> i, goal |-> NoHost,
                                        binding |-> goal, legacy |-> goal = NoHost]]
      /\ i \in FreeIds /\ goal \in {NoHost, h}
  <2>1. (IF pools[p].binding # NoHost THEN pools[p].binding ELSE goal) = goal
    OBVIOUS
  <2> QED BY <2>1 DEF ConnectBoundAsync
<1>2. /\ p \in Pools /\ PoolIsBound(pools, conn, p)
  BY CallsAssumption DEF BInv, Bound, Pools
<1>3. /\ conn'[i].host = h /\ \A j \in Ids \ {i} : conn'[j] = conn[j]
      /\ \A d \in Calls : req[d].sess # i
      /\ \A q \in Pools : pools[q].session # i
  BY <1>1 DEF FreeIds, BInv, GInv, IInv, Typed
<1>4. /\ \A q \in Pools \ {p} : pools'[q] = pools[q]
      /\ pools'[p].gate = NoCall /\ pools'[p].session = i /\ pools'[p].binding = goal
      /\ pools'[p].legacy = (goal = NoHost)
  BY <1>1, <1>2 DEF BInv, GInv, IInv, Typed
<1>5. PoolIsBound(pools', conn', p)
  BY <1>1, <1>2, <1>3, <1>4, CallsAssumption DEF PoolIsBound
<1>6. ASSUME NEW q \in ({Root} \cup Identified) \ {p} PROVE PoolIsBound(pools', conn', q)
  <2>1. q \in Pools /\ PoolIsBound(pools, conn, q) /\ pools[q].session \in Ids \cup {0}
    BY CallsAssumption DEF BInv, Bound, GInv, IInv, Typed, PoolStates, Pools
  <2> QED BY <1>3, <1>4, <2>1 DEF PoolIsBound
<1>7. Keep(c)
  <2>1. ASSUME NEW q \in {Root} \cup Identified
        PROVE  /\ PoolIsBound(pools', conn', q)
               /\ \/ pools'[q].binding = pools[q].binding /\ pools'[q].legacy = pools[q].legacy
                  \/ pools[q].binding = NoHost /\ ~pools[q].legacy
    <3>1. CASE q = p
      <4>1. pools[p] \in PoolStates
        BY <1>2 DEF BInv, GInv, IInv, Typed
      <4> QED BY <1>2, <1>4, <1>5, <3>1, <4>1 DEF PoolIsBound, PoolStates
    <3>2. CASE q # p
      BY <1>4, <1>6, <3>2, CallsAssumption DEF Pools
    <3> QED BY <3>1, <3>2
  <2> QED BY <1>3, <2>1 DEF Keep
<1> QED BY <1>1, <1>3, <1>4, <1>7

LEMMA ConnectedKeeps ==
  ASSUME BInv, NEW c \in Calls, Connected(c)
  PROVE  Bound'
<1> DEFINE p == req[c].pool
           goal == pools[p].goal
<1>1. /\ req[c] \in Requests /\ req[c].srv = "connecting"
      /\ p \in Pools /\ p \in {Root} \cup Identified
      /\ RequestIsBound(req[c], pools[p], conn) /\ PoolIsBound(pools, conn, p)
      /\ pools[p] \in PoolStates /\ pools[p].gate = c /\ c # NoCall
      /\ UNCHANGED <<target, call, ran>>
  BY CallsAssumption DEF BInv, Bound, GInv, IInv, Typed, HostsAreKnown, RequestIsKnown, Connected, Requests, hostVars, nodeVars,
                         GateHasItsOwner, NoCall
<1>2. PICK h \in Hosts, i \in Ids :
        ConnectBoundAsync(p, goal, h, i) /\ req' = [req EXCEPT ![c].srv = "calling", ![c].sess = i]
  BY DEF Connected
<1>3. ~pools[p].legacy /\ pools[p].binding \in {NoHost, goal}
  BY <1>1 DEF PoolIsBound
<1>4. /\ Keep(c) /\ conn'[i].host = h
      /\ pools'[p].binding = goal /\ pools'[p].legacy = (goal = NoHost)
      /\ goal \in {NoHost, h}
  BY <1>1, <1>2, <1>3, ConnectKeeps
<1>5. RequestIsBound(req'[c], pools'[req'[c].pool], conn')
  BY <1>1, <1>2, <1>3, <1>4 DEF BInv, GInv, IInv, Typed, Requests, RequestIsBound
<1> QED BY <1>1, <1>2, <1>4, <1>5, MovesKeep DEF BInv, GInv, IInv, Typed, Requests

\* A request is written to the host at the other end of its connection.
LEMMA GuardedKeeps ==
  ASSUME BInv, NEW c \in Calls, GuardedInvoke(c)
  PROVE  Bound'
<1>1. /\ req[c] \in Requests /\ req[c].srv = "calling" /\ req[c].rpc = "none"
      /\ RequestIsBound(req[c], pools[req[c].pool], conn)
      /\ UNCHANGED <<hostVars, nodeVars, countVars>> /\ UNCHANGED <<target, call, ran>>
  BY DEF BInv, Bound, GInv, IInv, Typed, GuardedInvoke, hostVars, nodeVars
<1>2. CASE FailureAsync(c, "refused") \/ FailureAsync(c, LostMeaning(c))
  BY <1>1, <1>2, FailureKeeps DEF LostMeaning
<1>3. CASE /\ conn[req[c].sess].open /\ UNCHANGED <<pools, conn>>
           /\ c \notin Writes \/ conn[req[c].sess].bound
           /\ req' = [req EXCEPT ![c].rpc = "sent", ![c].at = conn[req[c].sess].host]
  <2>1. Keep(c)
    BY <1>3, ShrinkKeeps DEF Shrink
  <2>2. /\ req'[c].srv = "calling" /\ req'[c].rpc = "sent" /\ req'[c].at = conn[req[c].sess].host
        /\ req'[c].pool = req[c].pool /\ req'[c].sess = req[c].sess /\ req'[c].to = req[c].to
    BY <1>1, <1>3 DEF BInv, GInv, IInv, Typed, Requests
  <2>3. RequestIsBound(req'[c], pools'[req'[c].pool], conn')
    BY <1>1, <1>3, <2>2 DEF RequestIsBound
  <2> QED BY <1>1, <1>3, <2>1, <2>2, <2>3, MovesKeep DEF BInv, GInv, IInv, Typed
<1> QED BY <1>2, <1>3 DEF GuardedInvoke

LEMMA AbortedKeeps ==
  ASSUME BInv, NEW c \in Calls, RequestAborted(c)
  PROVE  Bound'
<1>1. /\ req[c] \in Requests /\ req[c].srv \notin {"none", "replied", "gone"}
      /\ RequestIsBound(req[c], pools[req[c].pool], conn)
      /\ req' = [req EXCEPT ![c].srv = "gone", ![c].sess = 0, ![c].pool = Root]
      /\ pools' = Released(c) /\ conn' = conn /\ UNCHANGED <<target, call, ran>>
  BY DEF BInv, Bound, GInv, IInv, Typed, RequestAborted, InProgress, hostVars, nodeVars
<1>2. Shrink
  BY <1>1, ReleasedShrinks DEF Shrink, BInv, GInv, IInv
<1>3. RequestIsBound(req'[c], pools'[req'[c].pool], conn')
  BY <1>1 DEF BInv, GInv, IInv, Typed, Requests, RequestIsBound
<1> QED BY <1>1, <1>2, <1>3, ShrinkKeeps, MovesKeep DEF BInv, GInv, IInv, Typed, Requests

LEMMA InvalidateShrinksPool ==
  ASSUME BInv, NEW p \in Pools, InvalidateAsync(p)
  PROVE  Shrink
<1>1. \A i \in Ids : conn'[i].open => conn'[i] = conn[i]
  BY CloseShrinks DEF InvalidateAsync, BInv, GInv, IInv
<1>2. pools' = [pools EXCEPT ![p].session = 0] /\ pools \in [Pools -> PoolStates]
  BY DEF InvalidateAsync, BInv, GInv, IInv, Typed
<1> QED BY <1>1, <1>2 DEF Shrink, PoolStates

LEMMA ListKeeps ==
  ASSUME BInv, NEW c \in Calls, ActionListAsync(c)
  PROVE  Bound'
<1>1. /\ req[c] \in Requests /\ req[c].srv = "calling" /\ req[c].pool \in Pools
      /\ RequestIsBound(req[c], pools[req[c].pool], conn) /\ c \notin Writes
      /\ req' = [req EXCEPT ![c].srv = "waiting", ![c].sess = 0, ![c].rpc = "none", ![c].relisted = TRUE]
      /\ InvalidateAsync(req[c].pool) /\ UNCHANGED <<target, call, ran>>
  BY DEF BInv, Bound, GInv, IInv, Typed, Requests, ActionListAsync, hostVars, nodeVars
<1>2. Shrink
  BY <1>1, InvalidateShrinksPool
<1>3. RequestIsBound(req'[c], pools'[req'[c].pool], conn')
  BY <1>1, <1>2 DEF Shrink, BInv, GInv, IInv, Typed, Requests, RequestIsBound
<1> QED BY <1>1, <1>2, <1>3, ShrinkKeeps, MovesKeep DEF BInv, GInv, IInv, Typed, Requests

\* Steps that move no request.
LEMMA StillKeeps ==
  ASSUME BInv, UNCHANGED <<target, call, req, ran>>, Keep(NoCall)
  PROVE  Bound'
<1>1. ASSUME NEW d \in Calls PROVE RequestIsBound(req'[d], pools'[req'[d].pool], conn')
  <2>1. d \in Calls \ {NoCall}
    BY CallsAssumption DEF NoCall
  <2> QED BY <2>1, OthersKeep
<1> QED BY <1>1 DEF Keep, BInv, Bound

\* A health request binds a pool only while it is bound to nobody.
LEMMA HealthConnectsKeeps ==
  ASSUME BInv, HealthConnects
  PROVE  Bound'
<1>1. UNCHANGED <<target, call, req, ran>>
  BY DEF HealthConnects, hostVars, nodeVars
<1>2. Keep(NoCall)
  BY ConnectKeeps DEF HealthConnects
<1> QED BY <1>1, <1>2, StillKeeps

LEMMA StillStepsKeep ==
  ASSUME BInv, HealthFails \/ HandleHealthAsync \/ \E h \in Hosts : HostStarts(h) \/ StopAsync(h) \/ HostEnds(h)
  PROVE  Bound'
<1>1. UNCHANGED <<target, call, req, ran>>
  BY DEF HealthFails, HandleHealthAsync, HostStarts, StopAsync, HostEnds, hostVars, nodeVars, serveVars
<1>2. Shrink
  <2>1. CASE HandleHealthAsync
    BY <2>1, InvalidateShrinksPool DEF HandleHealthAsync, Pools
  <2>2. CASE \E h \in Hosts : HostEnds(h)
    BY <2>2, CloseShrinks DEF HostEnds, Shrink, BInv, GInv, IInv
  <2>3. CASE HealthFails \/ \E h \in Hosts : HostStarts(h) \/ StopAsync(h)
    BY <2>3 DEF HealthFails, HostStarts, StopAsync, serveVars, Shrink
  <2> QED BY <2>1, <2>2, <2>3
<1> QED BY <1>1, <1>2, ShrinkKeeps, StillKeeps

\* A write is executed by the host it was written to.
LEMMA HostCallKeeps ==
  ASSUME BInv, NEW c \in Calls, HostRuns(c) \/ HostRejects(c)
  PROVE  Bound'
<1>1. PICK to \in {"ran", "rejected"} : req' = [req EXCEPT ![c].rpc = to]
  BY DEF HostRuns, HostRejects
<1>2. UNCHANGED <<target, call, pools, conn>> /\ req[c].rpc = "sent"
  BY DEF HostRuns, HostRejects, hostVars, nodeVars
<1>3. /\ \A d \in Calls \ {c} : req'[d] = req[d]
      /\ req'[c].rpc = to /\ req'[c].srv = req[c].srv /\ req'[c].to = req[c].to /\ req'[c].pool = req[c].pool
      /\ req'[c].sess = req[c].sess /\ req'[c].at = req[c].at /\ req'[c].reply = req[c].reply
      /\ req'[c].from = req[c].from
  BY <1>1 DEF BInv, GInv, IInv, Typed, Requests
<1>4. \A p \in {Root} \cup Identified : PoolIsBound(pools', conn', p)
  BY <1>2 DEF BInv, Bound, PoolIsBound
<1>5. \A d \in Calls : /\ RequestIsBound(req'[d], pools'[req'[d].pool], conn')
                       /\ CallIsBound(req'[d], call'[d], target'[TurnOf[d]])
  BY <1>2, <1>3 DEF BInv, Bound, RequestIsBound, CallIsBound
<1>6. ASSUME NEW d \in Writes, NEW i \in 1 .. Len(ran'[d]) PROVE ran'[d][i] = req'[d].at
  <2>1. CASE ran' = [ran EXCEPT ![c] = Append(@, req[c].at)] /\ d = c
    <3>1. ran[d] = <<>>
      BY <1>2, <2>1 DEF BInv, GInv, IInv, WriteProgress, Progress
    <3>2. ran'[d] = Append(<<>>, req[c].at)
      BY <2>1, <3>1 DEF BInv, GInv, IInv, Typed
    <3>3. ran'[d] = <<req[c].at>>
      BY <3>2
    <3> QED BY <1>3, <1>6, <2>1, <3>3
  <2>2. CASE ran'[d] = ran[d]
    BY <1>3, <1>6, <2>2, CallsAssumption DEF BInv, Bound
  <2>3. ran'[d] = ran[d] \/ (ran' = [ran EXCEPT ![c] = Append(@, req[c].at)] /\ d = c)
    BY DEF HostRuns, HostRejects, hostVars, BInv, GInv, IInv, Typed
  <2> QED BY <2>1, <2>2, <2>3
<1> QED BY <1>4, <1>5, <1>6 DEF Bound

\* When serve dies, all requests are gone and the pools new.
LEMMA DeathKeeps ==
  ASSUME BInv, ServeDies
  PROVE  Bound'
<1>1. /\ UNCHANGED <<target, call, ran>> /\ pools' = [p \in Pools |-> NewPool(p)]
      /\ req' = [c \in Calls |-> IF req[c].srv \in {"none", "gone"} THEN req[c]
                                 ELSE [req[c] EXCEPT !.srv = "gone", !.sess = 0, !.pool = Root]]
  BY DEF ServeDies, hostVars, nodeVars
<1>2. ASSUME NEW p \in {Root} \cup Identified PROVE PoolIsBound(pools', conn', p)
  BY <1>1, CallsAssumption DEF PoolIsBound, NewPool, Pools
<1>3. ASSUME NEW d \in Calls
      PROVE  /\ req'[d].srv = (IF req[d].srv = "none" THEN "none" ELSE "gone")
             /\ req'[d].rpc = req[d].rpc /\ req'[d].to = req[d].to /\ req'[d].at = req[d].at /\ req'[d].from = req[d].from
  BY <1>1 DEF BInv, GInv, IInv, Typed, Requests
<1>4. ASSUME NEW d \in Calls
      PROVE  /\ RequestIsBound(req'[d], pools'[req'[d].pool], conn')
             /\ CallIsBound(req'[d], call'[d], target'[TurnOf[d]])
  <2>1. RequestIsBound(req[d], pools[req[d].pool], conn) /\ CallIsBound(req[d], call[d], target[TurnOf[d]])
    BY DEF BInv, Bound
  <2>2. RequestIsBound(req'[d], pools'[req'[d].pool], conn')
    BY <1>3, <2>1 DEF RequestIsBound
  <2>3. CallIsBound(req'[d], call'[d], target'[TurnOf[d]])
    BY <1>1, <1>3, <2>1 DEF CallIsBound
  <2> QED BY <2>2, <2>3
<1>5. \A d \in Writes : \A i \in 1 .. Len(ran'[d]) : ran'[d][i] = req'[d].at
  BY <1>1, <1>3, CallsAssumption DEF BInv, Bound
<1> QED BY <1>2, <1>4, <1>5 DEF Bound

\* Node moves a call; a turn that is bound stays with its host.
LEMMA ClientKeeps ==
  ASSUME BInv, NEW c \in Calls, UNCHANGED <<pools, conn, ran>>,
         \A d \in Calls \ {c} : req'[d] = req[d] /\ call'[d] = call[d],
         \A t \in Turns : target'[t] = target[t] \/ target[t] = NoHost,
         RequestIsBound(req'[c], pools[req'[c].pool], conn),
         CallIsBound(req'[c], call'[c], target'[TurnOf[c]]),
         c \in Writes => req'[c].at = req[c].at \/ ran[c] = <<>>
  PROVE  Bound'
<1>1. \A p \in {Root} \cup Identified : PoolIsBound(pools', conn', p)
  BY DEF BInv, Bound, PoolIsBound
<1>2. \A d \in Calls : RequestIsBound(req'[d], pools'[req'[d].pool], conn')
  BY DEF BInv, Bound
<1>3. ASSUME NEW d \in Calls \ {c} PROVE CallIsBound(req'[d], call'[d], target'[TurnOf[d]])
  <2>1. CallIsBound(req[d], call[d], target[TurnOf[d]]) /\ TurnOf[d] \in Turns
    BY CallsAssumption DEF BInv, Bound
  <2>2. req[d].rpc # "none" => req[d].at # NoHost
    BY CallsAssumption DEF BInv, GInv, IInv, HostsAreKnown, RequestIsKnown
  <2> QED BY <2>1, <2>2 DEF CallIsBound
<1>4. ASSUME NEW d \in Writes, NEW i \in 1 .. Len(ran'[d]) PROVE ran'[d][i] = req'[d].at
  <2>1. ran[d][i] = req[d].at /\ d \in Calls
    BY <1>4, CallsAssumption DEF BInv, Bound
  <2>2. CASE ran[d] # <<>>
    BY <1>4, <2>1, <2>2
  <2>3. CASE ran[d] = <<>>
    BY <1>4, <2>3
  <2> QED BY <2>2, <2>3
<1> QED BY <1>1, <1>2, <1>3, <1>4 DEF Bound

LEMMA DispatchKeeps ==
  ASSUME BInv, NEW c \in Calls, NEW h \in Bindable, Dispatch(c, h), call[c].pc \in {"idle", "resolving"},
         UNCHANGED <<hostVars, pools, conn>>,
         \A t \in Turns : target'[t] = target[t] \/ target[t] = NoHost,
         h # NoHost => target'[TurnOf[c]] = h
  PROVE  Bound'
<1>1. /\ req'[c] = [NoRequest EXCEPT !.srv = "posted", !.to = h]
      /\ call'[c].res = call[c].res
      /\ \A d \in Calls \ {c} : req'[d] = req[d] /\ call'[d] = call[d]
  BY DEF Dispatch, BInv, GInv, IInv, Typed, CallStates
<1>2. call[c].res # "ok"
  BY DEF BInv, Bound, CallIsBound
<1>3. RequestIsBound(req'[c], pools[req'[c].pool], conn) /\ CallIsBound(req'[c], call'[c], target'[TurnOf[c]])
  BY <1>1, <1>2 DEF RequestIsBound, CallIsBound, NoRequest
<1>4. c \in Writes => ran[c] = <<>>
  BY DEF BInv, GInv, IInv, WriteProgress, Progress
<1> QED BY <1>1, <1>3, <1>4, ClientKeeps DEF hostVars

LEMMA BindKeeps ==
  ASSUME BInv, NEW t \in Turns, NEW h \in Bindable, bindQkrpcTarget(t, h)
  PROVE  /\ \A u \in Turns : target'[u] = target[u] \/ target[u] = NoHost
         /\ MayBind(t, h) => target'[t] = h
BY DEF bindQkrpcTarget, MayBind, BInv, GInv, IInv, Typed

LEMMA AnswerFacts ==
  ASSUME BInv, NEW c \in Calls, NEW r \in Replies \cup {"aborted"}
  PROVE  Answer(c, r) \in CallStates /\ Answer(c, r).pc = "done" /\ Answer(c, r).res = r
BY AnswerKeepsTypes DEF BInv, GInv

\* An answer that is not "ok" binds nobody.
LEMMA AnswerKeeps ==
  ASSUME BInv, NEW c \in Calls, UNCHANGED <<target, req, pools, conn, hostVars>>,
         NEW k \in CallStates, call' = [call EXCEPT ![c] = k], k.res # "ok"
  PROVE  Bound'
<1>1. call'[c] = k /\ \A d \in Calls \ {c} : call'[d] = call[d]
  BY DEF BInv, GInv, IInv, Typed
<1>2. RequestIsBound(req'[c], pools[req'[c].pool], conn) /\ CallIsBound(req'[c], call'[c], target'[TurnOf[c]])
  BY <1>1 DEF BInv, Bound, CallIsBound
<1> QED BY <1>1, <1>2, ClientKeeps DEF hostVars

LEMMA InvokeHttpKeeps ==
  ASSUME BInv, NEW c \in Calls, invokeQkrpcHttp(c)
  PROVE  Bound'
<1> DEFINE t == TurnOf[c]
<1>1. /\ call[c].pc = "idle" /\ t \in Turns /\ target[t] \in Bindable /\ call[c] \in CallStates
      /\ UNCHANGED <<hostVars, target, unverified, pools, conn, countVars>>
  BY CallsAssumption DEF invokeQkrpcHttp, BInv, GInv, IInv, Typed
<1>2. CASE target[t] # NoHost /\ Dispatch(c, target[t])
  BY <1>1, <1>2, DispatchKeeps
<1>3. CASE target[t] = NoHost
  <2>1. PICK k \in {Answer(c, "refused"), [call[c] EXCEPT !.pc = "resolving"]} :
          call' = [call EXCEPT ![c] = k] /\ req' = req
    BY <1>1, <1>3 DEF invokeQkrpcHttp
  <2>2. call[c].res # "ok"
    BY <1>1 DEF BInv, Bound, CallIsBound
  <2>3. k \in CallStates /\ k.res # "ok"
    BY <1>1, <2>1, <2>2, AnswerKeepsTypes DEF CallStates, Replies, BInv, GInv
  <2> QED BY <1>1, <2>1, <2>3, AnswerKeeps
<1> QED BY <1>2, <1>3 DEF invokeQkrpcHttp

LEMMA ResolveKeeps ==
  ASSUME BInv, NEW c \in Calls, resolveQkrpcHttpBinding(c) \/ DiscoveryFails(c)
  PROVE  Bound'
<1> DEFINE t == TurnOf[c]
<1>1. /\ call[c].pc = "resolving" /\ t \in Turns /\ call[c].pin \in Bindable
      /\ UNCHANGED <<hostVars, pools, conn>>
  BY CallsAssumption DEF resolveQkrpcHttpBinding, DiscoveryFails, BInv, GInv, IInv, Typed, CallStates
<1>2. \/ \E h \in Bindable \ {NoHost} : MayBind(t, h) /\ bindQkrpcTarget(t, h) /\ Dispatch(c, h)
      \/ Dispatch(c, NoHost) /\ UNCHANGED target
      \/ \E r \in {"refused", "failed"} : call' = [call EXCEPT ![c] = Answer(c, r)] /\ UNCHANGED <<req, target>>
  BY <1>1, CallsAssumption DEF resolveQkrpcHttpBinding, DiscoveryFails, Discovered, Bindable
<1>3. CASE \E h \in Bindable \ {NoHost} : MayBind(t, h) /\ bindQkrpcTarget(t, h) /\ Dispatch(c, h)
  <2>1. PICK h \in Bindable \ {NoHost} : MayBind(t, h) /\ bindQkrpcTarget(t, h) /\ Dispatch(c, h)
    BY <1>3
  <2> QED BY <1>1, <2>1, BindKeeps, DispatchKeeps
<1>4. CASE Dispatch(c, NoHost) /\ UNCHANGED target
  BY <1>1, <1>4, DispatchKeeps DEF Bindable
<1>5. CASE \E r \in {"refused", "failed"} : call' = [call EXCEPT ![c] = Answer(c, r)] /\ UNCHANGED <<req, target>>
  <2>1. PICK r \in {"refused", "failed"} :
          call' = [call EXCEPT ![c] = Answer(c, r)] /\ UNCHANGED <<req, target>>
    BY <1>5
  <2>2. Answer(c, r) \in CallStates /\ Answer(c, r).res # "ok"
    BY AnswerFacts DEF Replies
  <2> QED BY <1>1, <2>1, <2>2, AnswerKeeps
<1> QED BY <1>2, <1>3, <1>4, <1>5

\* An unbound reply binds the turn to the host that ran the call.
LEMMA ReceiveKeeps ==
  ASSUME BInv, NEW c \in Calls, Receive(c)
  PROVE  Bound'
<1> DEFINE t == TurnOf[c]
           h == req[c].from
           r == req[c].reply
           unbound == req[c].to = NoHost
<1>1. /\ call[c].pc = "sent" /\ req[c].srv = "replied" /\ t \in Turns
      /\ r \in Replies /\ h \in Bindable /\ call[c] \in CallStates /\ call[c].res # "ok"
      /\ UNCHANGED <<hostVars, req, pools, conn, countVars>>
      /\ RequestIsBound(req[c], pools[req[c].pool], conn) /\ CallIsBound(req[c], call[c], target[t])
  BY CallsAssumption DEF Receive, BInv, Bound, GInv, IInv, Typed, Requests, CallIsBound
<1>2. CASE unbound /\ h # NoHost /\ ~MayBind(t, h)
  <2>1. call' = [call EXCEPT ![c] = Answer(c, "refused")] /\ UNCHANGED <<target, unverified>>
    BY <1>2 DEF Receive
  <2>2. Answer(c, "refused") \in CallStates /\ Answer(c, "refused").res # "ok"
    BY AnswerFacts DEF Replies
  <2> QED BY <1>1, <2>1, <2>2, AnswerKeeps
<1>3. CASE ~(unbound /\ h # NoHost /\ ~MayBind(t, h))
  <2>1. /\ Settle(c, r)
        /\ IF unbound /\ h # NoHost THEN bindQkrpcTarget(t, h) ELSE UNCHANGED target
    BY <1>3 DEF Receive
  <2>2. /\ \A u \in Turns : target'[u] = target[u] \/ target[u] = NoHost
        /\ IF unbound /\ h # NoHost THEN target'[t] = h ELSE target' = target
    BY <1>1, <1>3, <2>1, BindKeeps
  <2>3. PICK k \in {Answer(c, Meaning(c, r)), [call[c] EXCEPT !.pc = "idle", !.tries = call[c].tries + 1]} :
          call' = [call EXCEPT ![c] = k]
    BY <2>1 DEF Settle
  <2>4. k.res = "ok" => r = "ok" /\ k.pc = "done"
    <3>1. Meaning(c, r) \in Replies /\ (Meaning(c, r) = "ok" => r = "ok")
      BY <1>1 DEF Meaning, Replies
    <3>2. CASE k = Answer(c, Meaning(c, r))
      BY <3>1, <3>2, AnswerFacts
    <3>3. CASE k = [call[c] EXCEPT !.pc = "idle", !.tries = call[c].tries + 1]
      BY <1>1, <3>3 DEF CallStates
    <3> QED BY <2>3, <3>2, <3>3
  <2>5. CallIsBound(req[c], k, target'[t])
    BY <1>1, <2>2, <2>4 DEF CallIsBound, RequestIsBound
  <2>6. call'[c] = k /\ \A d \in Calls \ {c} : call'[d] = call[d]
    BY <2>3 DEF BInv, GInv, IInv, Typed
  <2> QED BY <1>1, <2>2, <2>5, <2>6, ClientKeeps DEF hostVars
<1> QED BY <1>2, <1>3

LEMMA LostKeeps ==
  ASSUME BInv, NEW c \in Calls, HttpFails(c) \/ Abort(c)
  PROVE  Bound'
<1>1. /\ UNCHANGED <<target, req, pools, conn, hostVars>> /\ call[c] \in CallStates
      /\ call[c].pc \in {"resolving", "sent"}
  BY DEF HttpFails, Abort, BInv, GInv, IInv, Typed
<1>2. call[c].res # "ok"
  BY <1>1 DEF BInv, Bound, CallIsBound
<1>3. PICK k \in {Answer(c, "aborted"), Answer(c, "unknown"), Answer(c, "failed"),
                  [call[c] EXCEPT !.pc = "idle", !.tries = call[c].tries + 1]} :
        call' = [call EXCEPT ![c] = k]
  BY DEF HttpFails, Abort, Settle, Meaning
<1>4. k \in CallStates
  <2>1. call' \in [Calls -> CallStates]
    BY LostSteps DEF BInv, GInv, IInv, Typed
  <2>2. call'[c] = k
    BY <1>3 DEF BInv, GInv, IInv, Typed
  <2> QED BY <2>1, <2>2
<1>5. k.res # "ok"
  <2>1. CASE k = [call[c] EXCEPT !.pc = "idle", !.tries = call[c].tries + 1]
    BY <1>1, <1>2, <2>1 DEF CallStates
  <2>2. CASE k \in {Answer(c, "aborted"), Answer(c, "unknown"), Answer(c, "failed")}
    BY <2>2, AnswerFacts DEF Replies
  <2> QED BY <1>3, <2>1, <2>2
<1> QED BY <1>1, <1>3, <1>4, <1>5, AnswerKeeps

-----------------------------------------------------------------------------
(* The theorems.                                                           *)

LEMMA InitBInv == Init => BInv
BY InitIInv, InitGate, InitBound DEF BInv, GInv

LEMMA NextBInv == BInv /\ [Next]_vars => BInv'
<1> SUFFICES ASSUME BInv, [Next]_vars PROVE BInv'
  OBVIOUS
<1>1. IInv'
  BY NextIInv DEF BInv, GInv
<1>2. GateHasItsOwner' /\ ConnectionsAreKept' /\ Bound'
  <2>1. CASE UNCHANGED vars
    BY <2>1 DEF vars, BInv, GInv, GateHasItsOwner, ConnectionsAreKept, Bound, PoolIsBound, RequestIsBound, CallIsBound
  <2>2. ASSUME NEW c \in Calls, Client(c) PROVE GateHasItsOwner' /\ ConnectionsAreKept' /\ Bound'
    BY <2>2, ClientIsQuiet, InvokeHttpKeeps, ResolveKeeps, ReceiveKeeps, LostKeeps DEF Client, BInv
  <2>3. ASSUME NEW c \in Calls, Serve(c) PROVE GateHasItsOwner' /\ ConnectionsAreKept'
    BY <2>3, ServeIsQuiet, SessionIsQuiet, ConnectedIsQuiet DEF Serve, BInv
  <2>4. ASSUME NEW c \in Calls, Serve(c) PROVE Bound'
    BY <2>4, InvokeKeeps, SessionKeeps, ConnectedKeeps, ServeFailsKeeps, GuardedKeeps, AbortedKeeps, ListKeeps DEF Serve
  <2>5. ASSUME NEW c \in Calls, HostRuns(c) \/ HostRejects(c)
        PROVE GateHasItsOwner' /\ ConnectionsAreKept' /\ Bound'
    BY <2>5, HostIsQuiet, HostCallKeeps DEF BInv
  <2>6. CASE HealthFails \/ HandleHealthAsync \/ \E h \in Hosts : HostStarts(h) \/ StopAsync(h) \/ HostEnds(h)
    BY <2>6, HostIsQuiet, StillStepsKeep DEF BInv
  <2>7. CASE HealthConnects
    BY <2>7, HealthIsQuiet, HealthConnectsKeeps DEF BInv
  <2>8. CASE ServeDies
    BY <2>8, DeathIsQuiet, DeathKeeps DEF BInv
  <2> QED BY <2>1, <2>2, <2>3, <2>4, <2>5, <2>6, <2>7, <2>8 DEF Next
<1> QED BY <1>1, <1>2 DEF BInv, GInv

\* The inductive invariant of the bindings: every place that names a host for a
\* call names the same one, every gate has one owner, every connection a pool.
THEOREM BindingsAgree == Spec => []BInv
BY InitBInv, NextBInv, PTL DEF Spec

\* All verified calls of a turn reach one run of one host, whatever hosts start,
\* stop and take over while the turn runs.
THEOREM TurnsStayWithTheirHost == Spec => []TurnTalksToOneHost
<1>1. BInv => TurnTalksToOneHost
  <2> SUFFICES ASSUME BInv, NEW c \in Calls
               PROVE  /\ c \in Writes => \A i \in 1 .. Len(ran[c]) : ran[c][i] = target[TurnOf[c]]
                      /\ req[c].to # NoHost /\ req[c].rpc = "ran" => req[c].at = target[TurnOf[c]]
                      /\ call[c].res = "ok" /\ req[c].from # NoHost => req[c].at = target[TurnOf[c]]
    BY DEF TurnTalksToOneHost
  <2>1. RequestIsBound(req[c], pools[req[c].pool], conn) /\ CallIsBound(req[c], call[c], target[TurnOf[c]])
    BY DEF BInv, Bound
  <2>2. req[c].to # NoHost /\ req[c].rpc = "ran" => req[c].at = target[TurnOf[c]]
    BY <2>1 DEF RequestIsBound, CallIsBound
  <2>3. call[c].res = "ok" /\ req[c].from # NoHost => req[c].at = target[TurnOf[c]]
    BY <2>1 DEF CallIsBound
  <2>4. ASSUME c \in Writes, NEW i \in 1 .. Len(ran[c]) PROVE ran[c][i] = target[TurnOf[c]]
    <3>1. ran[c][i] = req[c].at
      BY <2>4 DEF BInv, Bound
    <3>2. ran[c] # <<>>
      BY <2>4
    <3>3. req[c].rpc = "ran" /\ req[c].to # NoHost
      BY <2>4, <3>2 DEF BInv, GInv, IInv, WriteProgress, Progress
    <3> QED BY <2>2, <3>1, <3>3
  <2> QED BY <2>2, <2>3, <2>4
<1> QED BY <1>1, BindingsAgree, PTL

\* Disposing, reconnecting and cancelling leave no open connection that no pool
\* knows any more.
THEOREM ConnectionsHaveAPool == Spec => []NoConnectionIsLost
<1>1. BInv => NoConnectionIsLost
  BY TypeOKStates DEF BInv, GInv, IInv, ConnectionsAreKept, NoConnectionIsLost
<1> QED BY <1>1, BindingsAgree, PTL

\* A gate that is taken has an owner whose connection attempt ends by itself or
\* at its deadline, whoever was cancelled, timed out or died (the semaphore of
\* QkrpcRpcSessionPool): no pool is blocked for good.
GatesAreGivenBack ==
  \A p \in Pools : pools[p].gate # NoCall =>
    \E c \in Calls : pools[p].gate = c /\ req[c].pool = p /\ InProgress(c)

\* Every gate that is taken will be given back (GetSessionAsync, Released).
THEOREM NoGateIsLost == Spec => []GatesAreGivenBack
<1>1. BInv => GatesAreGivenBack
  <2> SUFFICES ASSUME BInv, NEW p \in Pools, pools[p].gate # NoCall
               PROVE  \E c \in Calls : pools[p].gate = c /\ req[c].pool = p /\ InProgress(c)
    BY DEF GatesAreGivenBack
  <2>1. pools[p].gate \in Calls
    BY DEF BInv, GInv, IInv, Typed, PoolStates
  <2> QED BY <2>1 DEF BInv, GInv, GateHasItsOwner, InProgress
<1> QED BY <1>1, BindingsAgree, PTL
-----------------------------------------------------------------------------
(***************************************************************************)
(* The calls keep the contract of writes.  Where a write's request is says  *)
(* what the contract's step was: one that a host runs was written to the    *)
(* pipe and never answered for certain; what the caller is told agrees with *)
(* the place of the request before and after the step.                      *)
(***************************************************************************)

\* An answered call is never touched again, and only a write that was written to
\* a pipe, and that no host has run or rejected, is run.
LEMMA AnsweredCallsStay ==
  ASSUME IInv, [Next]_vars, NEW w \in Writes
  PROVE  /\ call[w].pc = "done" => call'[w] = call[w]
         /\ ran'[w] = ran[w] \/ req[w].rpc = "sent"
<1> USE CallsAssumption
<1>1. w \in Calls /\ call \in [Calls -> CallStates] /\ ran \in [Writes -> Seq(Hosts)]
  BY DEF IInv, Typed
<1>2. ASSUME NEW c \in Calls, Client(c)
      PROVE  ran' = ran /\ call[c].pc # "done" /\ \A d \in Calls \ {c} : call'[d] = call[d]
  <2>1. ran' = ran /\ call[c].pc # "done"
    BY <1>2 DEF Client, invokeQkrpcHttp, resolveQkrpcHttpBinding, DiscoveryFails, Receive, HttpFails, Abort, hostVars
  <2>2. \E k : call' = [call EXCEPT ![c] = k]
    <3>1. CASE invokeQkrpcHttp(c)
      BY <3>1, <1>1 DEF invokeQkrpcHttp, Dispatch
    <3>2. CASE resolveQkrpcHttpBinding(c) \/ DiscoveryFails(c)
      <4>1. (\E h : Dispatch(c, h)) \/ (\E r : call' = [call EXCEPT ![c] = Answer(c, r)])
        BY <3>2 DEF resolveQkrpcHttpBinding, DiscoveryFails
      <4> QED BY <4>1 DEF Dispatch
    <3>3. CASE Receive(c) \/ HttpFails(c) \/ Abort(c)
      BY <3>3, <1>1 DEF Receive, HttpFails, Abort, Settle
    <3> QED BY <1>2, <3>1, <3>2, <3>3 DEF Client
  <2> QED BY <2>1, <2>2, <1>1
<1>3. ASSUME NEW c \in Calls, Serve(c) PROVE UNCHANGED <<call, ran>>
  <2>1. CASE InvokeAsync(c) \/ GetSessionAsync(c) \/ Connected(c) \/ ConnectFails(c)
    BY <2>1 DEF InvokeAsync, GetSessionAsync, Connected, ConnectFails, hostVars, nodeVars
  <2>2. CASE GuardedInvoke(c) \/ RpcReturns(c) \/ RpcLost(c)
    BY <2>2 DEF GuardedInvoke, RpcReturns, RpcLost, hostVars, nodeVars
  <2>3. CASE Deadline(c) \/ RequestAborted(c) \/ ActionListAsync(c)
    BY <2>3 DEF Deadline, RequestAborted, ActionListAsync, hostVars, nodeVars
  <2> QED BY <1>3, <2>1, <2>2, <2>3 DEF Serve
<1>4. ASSUME NEW c \in Calls, HostRuns(c) \/ HostRejects(c)
      PROVE  call' = call /\ (ran'[w] = ran[w] \/ req[w].rpc = "sent")
  BY <1>1, <1>4 DEF HostRuns, HostRejects, hostVars, nodeVars
<1>5. CASE \/ UNCHANGED vars \/ HealthConnects \/ HealthFails \/ HandleHealthAsync \/ ServeDies
           \/ \E h \in Hosts : HostStarts(h) \/ StopAsync(h) \/ HostEnds(h)
  <2>1. CASE UNCHANGED vars
    BY <2>1 DEF vars
  <2>2. CASE HealthConnects \/ HealthFails \/ HandleHealthAsync \/ ServeDies
    BY <2>2 DEF HealthConnects, HealthFails, HandleHealthAsync, ServeDies, hostVars, nodeVars
  <2>3. CASE \E h \in Hosts : HostStarts(h) \/ StopAsync(h) \/ HostEnds(h)
    BY <2>3 DEF HostStarts, StopAsync, HostEnds, nodeVars
  <2> QED BY <1>5, <2>1, <2>2, <2>3
<1> QED BY <1>1, <1>2, <1>3, <1>4, <1>5 DEF Next

\* What was carried out and reported of a write at a moment: at most one run, and a
\* definite report only of a write that no pipe holds any more.
ReportAgrees(w) ==
  /\ Len(ran[w]) = IF req[w].rpc = "ran" THEN 1 ELSE 0
  /\ Reported(w) = "applied" => req[w].rpc = "ran"
  /\ Reported(w) = "not_applied" => req[w].rpc \in {"none", "rejected"}
  /\ Reported(w) \in {"none", "applied", "not_applied", "unknown"}

ReportsAgree == \A w \in Writes : ReportAgrees(w)

LEMMA ReportsAreTrue == IInv => ReportsAgree
<1> SUFFICES ASSUME IInv, NEW w \in Writes PROVE ReportAgrees(w)
  BY DEF ReportsAgree
<1> DEFINE r == req[w]
<1>1. Progress(r, call[w], ran[w])
  BY DEF IInv, WriteProgress
<1>2. Len(ran[w]) = IF r.rpc = "ran" THEN 1 ELSE 0
  BY <1>1 DEF Progress
<1>3. Reported(w) = "applied" => r.rpc = "ran"
  BY <1>1 DEF Progress, Reported
<1>4. Reported(w) = "not_applied" => r.rpc \in {"none", "rejected"}
  BY <1>1 DEF Progress, NeverRuns, Reported
<1> QED BY <1>2, <1>3, <1>4 DEF ReportAgrees, Reported

\* An agent tool keeps the contract of writes over hosts that stop, sessions that
\* are disposed, requests that are repeated or given up and a serve process that
\* dies: each step is a step of the contract, or none.
THEOREM CallsKeepTheContract == Spec => ImplementsWriteResults
<1>1. Init => WriteContract!ContractInit
  BY CallsAssumption DEF Init, WriteContract!ContractInit, Reported
<1>2. IInv /\ ReportsAgree /\ ReportsAgree' /\ [Next]_vars
        => [WriteContract!ContractNext]_(WriteContract!resultVars)
  <2> SUFFICES ASSUME IInv, ReportsAgree, ReportsAgree', [Next]_vars PROVE WriteContract!ContractNext
    OBVIOUS
  <2>1. ASSUME NEW w \in Writes
        PROVE  /\ Len(ran'[w]) \in {0, 1} /\ Reported(w)' \in WriteContract!Results
               /\ \/ Len(ran[w]) = 0 /\ Reported(w) \in {"none", "unknown"} /\ Len(ran'[w]) = 1
                  \/ Len(ran'[w]) = Len(ran[w])
               /\ \/ /\ Reported(w) = "none"
                     /\ Reported(w)' = IF Len(ran'[w]) = 1 THEN "applied" ELSE "not_applied"
                  \/ Reported(w) = "none" /\ Reported(w)' = "unknown"
                  \/ Reported(w)' = Reported(w)
    <3>1. ReportAgrees(w)
      BY DEF ReportsAgree
    <3>2. ReportAgrees(w)'
      BY DEF ReportsAgree
    <3>3. /\ ran'[w] = ran[w] \/ req[w].rpc = "sent"
          /\ Reported(w) # "none" => Reported(w)' = Reported(w)
      BY AnsweredCallsStay DEF Reported
    <3> QED BY <3>1, <3>2, <3>3 DEF ReportAgrees, WriteContract!Results
  <2> QED BY <2>1 DEF WriteContract!ContractNext, WriteContract!CarriedOut, WriteContract!Told, WriteContract!GivenUp, WriteContract!Forgotten
<1> QED BY <1>1, <1>2, Invariant, ReportsAreTrue, PTL DEF Spec, ImplementsWriteResults, WriteContract!ContractSpec
================================================================================
