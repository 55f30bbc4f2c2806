----------------------------- MODULE HostCalls -----------------------------
(***************************************************************************)
(* A call of an agent tool on its way to Quicker: the Node client chooses   *)
(* the host of the turn and posts the call to the serve process             *)
(* (lib/qkrpc-http.ts, lib/qkrpc-host-binding.ts, lib/qkrpc.ts); the serve  *)
(* dispatcher takes a pooled session (ServeInvokeDispatcher.cs,             *)
(* QkrpcRpcSessionPool.cs, QuickerRpcClient.cs); the plugin host runs it    *)
(* (QuickerRpcServerHost.cs, QuickerRpcGuardedService.cs).  Everybody may   *)
(* fail on the way: hosts stop and come back under another identity,        *)
(* sessions are disposed under their users, deadlines pass, the serve       *)
(* process dies, the user cancels.                                          *)
(***************************************************************************)
EXTENDS Integers, FiniteSets, Sequences

CONSTANTS
  Calls,        \* tool calls
  Writes,       \* the calls that are not safe to repeat
  Turns,        \* agent turns
  TurnOf,       \* the turn of a call
  Hosts,        \* runs of a plugin host, each with a session id of its own
  Identified,   \* the hosts that answer the handshake with an identity
  NoHost, Root, \* no host; the pool of the serve process itself
  MaxTries,     \* bound on the attempts of a read (3 in the code)
  MaxConns,     \* bound on the pipe connections that exist at a time
  MaxFaults     \* bound on what goes wrong: hosts that stop or end, deaths of serve,
                \* failed health requests, clients that leave

ASSUME CallsAssumption ==
  /\ Writes \subseteq Calls /\ Identified \subseteq Hosts
  /\ TurnOf \in [Calls -> Turns]
  /\ NoHost \notin Hosts /\ Root \notin Hosts /\ Root # NoHost
  /\ "none" \notin Calls

ASSUME BoundsAssumption ==
  MaxTries \in Nat \ {0} /\ MaxConns \in Nat \ {0} /\ MaxFaults \in Nat

VARIABLES
  host,         \* where each host is in its life
  target,       \* the host a turn is bound to
  unverified,   \* the turns that read from a host without identity
  call,         \* the call as Node sees it, with the host that the bundle names for its action.save
  req,          \* its request as the serve process sees it
  pools,        \* the session pools
  conn,         \* pipe connections between serve and hosts
  ran,          \* the hosts that executed a write, in order
  faults,       \* what went wrong so far
  health        \* a failed health request is about to invalidate the pool

vars == <<host, target, unverified, call, req, pools, conn, ran, faults, health>>
nodeVars == <<target, unverified, call>>
hostVars == <<host, ran>>
countVars == <<faults, health>>

Ids == 1 .. MaxConns
Pools == {Root} \cup Hosts
NoCall == "none"
\* What a caller learns of a write: only "ok" and "refused" (not sent) are definite.
\* An exception of the host (INVOKE_FAILED) tells no more about the effect of a write
\* than WRITE_RESULT_UNKNOWN does; both are "unknown", and only reads are "failed".
Replies == {"ok", "failed", "refused", "unknown", "timeout", "none"}

NoRequest == [srv |-> "none", to |-> NoHost, pool |-> Root, sess |-> 0, rpc |-> "none", at |-> NoHost,
              reply |-> "none", from |-> NoHost, relisted |-> FALSE]
Closed == [host |-> NoHost, open |-> FALSE, bound |-> FALSE]

TypeOK ==
  /\ host \in [Hosts -> {"absent", "up", "stopping", "down"}]
  /\ target \in [Turns -> Identified \cup {NoHost}]
  /\ unverified \in [Turns -> BOOLEAN]
  /\ call \in [Calls -> [pc : {"idle", "resolving", "sent", "done"},
                         res : Replies \cup {"aborted"}, tries : 1 .. MaxTries,
                         pin : Identified \cup {NoHost}]]
  /\ req \in [Calls -> [srv : {"none", "posted", "waiting", "connecting", "calling", "replied", "gone"},
                        to : Identified \cup {NoHost}, pool : Pools, sess : Ids \cup {0}, at : Hosts \cup {NoHost},
                        rpc : {"none", "sent", "ran", "rejected"},
                        reply : Replies, from : Identified \cup {NoHost}, relisted : BOOLEAN]]
  /\ pools \in [Pools -> [gate : Calls \cup {NoCall}, session : Ids \cup {0}, goal : Hosts \cup {NoHost},
                          binding : Hosts \cup {NoHost}, legacy : BOOLEAN]]
  /\ conn \in [Ids -> [host : Hosts \cup {NoHost}, open : BOOLEAN, bound : BOOLEAN]]
  /\ ran \in [Writes -> Seq(Hosts)]
  /\ faults \in 0 .. MaxFaults /\ health \in BOOLEAN

Close(I) == [i \in Ids |-> IF i \in I THEN [conn[i] EXCEPT !.open = FALSE, !.host = NoHost] ELSE conn[i]]

Fault == faults < MaxFaults /\ faults' = faults + 1

NewPool(p) == [gate |-> NoCall, session |-> 0, goal |-> NoHost, legacy |-> FALSE,
               binding |-> IF p = Root THEN NoHost ELSE p]

Init ==
  /\ host \in [Hosts -> {"absent", "up"}]
  /\ target = [t \in Turns |-> NoHost]
  /\ unverified = [t \in Turns |-> FALSE]
  /\ \E pin \in [Writes -> Identified \cup {NoHost}] :
       call = [c \in Calls |-> [pc |-> "idle", res |-> "none", tries |-> 1,
                                pin |-> IF c \in Writes THEN pin[c] ELSE NoHost]]
  /\ req = [c \in Calls |-> NoRequest]
  /\ pools = [p \in Pools |-> NewPool(p)]
  /\ conn = [i \in Ids |-> Closed]
  /\ ran = [c \in Writes |-> <<>>]
  /\ faults = 0 /\ health = FALSE

---------------------------------------------------------------------------
(* Hosts. *)

Accepting(h) == host[h] = "up"
Running(h) == host[h] \in {"up", "stopping"}

HostStarts(h) ==
  /\ host[h] = "absent"
  /\ host' = [host EXCEPT ![h] = "up"]
  /\ UNCHANGED <<nodeVars, req, pools, conn, ran, countVars>>

\* The accept loops end; the sessions go on until their clients leave or the
\* process ends, which Stop does not wait for longer than five seconds.
StopAsync(h) ==
  /\ host[h] = "up" /\ Fault
  /\ host' = [host EXCEPT ![h] = "stopping"]
  /\ UNCHANGED <<nodeVars, req, pools, conn, ran, health>>

HostEnds(h) ==
  /\ Running(h) /\ Fault
  /\ host' = [host EXCEPT ![h] = "down"]
  /\ conn' = Close({i \in Ids : conn[i].host = h})
  /\ UNCHANGED <<nodeVars, req, pools, ran, health>>

\* A request that was written to the pipe is read and takes effect, also when its
\* client has given it up in the meantime.
HostRuns(c) ==
  /\ req[c].rpc = "sent" /\ Running(req[c].at)
  /\ ran' = IF c \in Writes THEN [ran EXCEPT ![c] = Append(@, req[c].at)] ELSE ran
  /\ req' = [req EXCEPT ![c].rpc = "ran"]
  /\ UNCHANGED <<host, nodeVars, pools, conn, countVars>>

\* The guard of the host refuses it, or its method throws before any effect.
HostRejects(c) ==
  /\ req[c].rpc = "sent" /\ Running(req[c].at)
  /\ req' = [req EXCEPT ![c].rpc = "rejected"]
  /\ UNCHANGED <<hostVars, nodeVars, pools, conn, countVars>>

---------------------------------------------------------------------------
(* The Node client. *)

RepeatsEverything(c) == c \in Calls
isQkrpcInvokeReplaySafe(c) == c \notin Writes

Answer(c, r) == [call[c] EXCEPT !.pc = "done", !.res = r]

Dispatch(c, h) ==
  /\ call' = [call EXCEPT ![c].pc = "sent"]
  /\ req' = [req EXCEPT ![c] = [NoRequest EXCEPT !.srv = "posted", !.to = h]]

\* A retry waits more than a second: the request it repeats has ended by then.
invokeQkrpcHttp(c) ==
  LET t == TurnOf[c] IN
  /\ call[c].pc = "idle" /\ req[c].srv \in {"none", "replied", "gone"}
  /\ \/ target[t] # NoHost /\ Dispatch(c, target[t])
     \/ /\ target[t] = NoHost
        /\ call' = [call EXCEPT ![c] =
             IF unverified[t] /\ c \in Writes /\ call[c].pin = NoHost THEN Answer(c, "refused")
             ELSE [@ EXCEPT !.pc = "resolving"]]
        /\ UNCHANGED req
  /\ UNCHANGED <<hostVars, target, unverified, pools, conn, countVars>>

\* A discovery hears the hosts that answer in time, any part of those that are up.
Discovered == SUBSET {h \in Identified : Accepting(h)}

MayBind(t, h) == target[t] \in {NoHost, h}
bindQkrpcTarget(t, h) == target' = [target EXCEPT ![t] = IF @ = NoHost THEN h ELSE @]

resolveQkrpcHttpBinding(c) ==
  /\ call[c].pc = "resolving"
  /\ \E D \in IF call[c].pin # NoHost THEN {{call[c].pin}} ELSE Discovered :
       \/ \E h \in Hosts : /\ D = {h} /\ MayBind(TurnOf[c], h)
                           /\ bindQkrpcTarget(TurnOf[c], h) /\ Dispatch(c, h)
       \/ D = {} /\ c \notin Writes /\ Dispatch(c, NoHost) /\ UNCHANGED target
       \/ /\ \/ Cardinality(D) > 1
             \/ D = {} /\ c \in Writes
             \/ \E h \in Hosts : D = {h} /\ ~MayBind(TurnOf[c], h)
          /\ call' = [call EXCEPT ![c] = Answer(c, "refused")]
          /\ UNCHANGED <<req, target>>
  /\ UNCHANGED <<hostVars, unverified, pools, conn, countVars>>

\* What an answer of serve, a broken connection or the timer of the client
\* means to the caller: of a write that was dispatched, only an answer is proof.
Meaning(c, r) == IF r \notin {"timeout", "none"} THEN r ELSE IF c \in Writes THEN "unknown" ELSE "failed"

MayRetry(c, r) == isQkrpcInvokeReplaySafe(c) /\ r = "timeout" /\ call[c].tries < MaxTries

Settle(c, r) ==
  call' = [call EXCEPT ![c] =
    IF MayRetry(c, r) THEN [call[c] EXCEPT !.pc = "idle", !.tries = call[c].tries + 1]
    ELSE Answer(c, Meaning(c, r))]

\* The reply is read: an unbound read binds the turn to the host that served
\* it, or leaves the mark that nobody knows which host that was.
Receive(c) ==
  LET t == TurnOf[c]  r == req[c].reply  h == req[c].from  unbound == req[c].to = NoHost IN
  /\ call[c].pc = "sent" /\ req[c].srv = "replied"
  /\ IF unbound /\ h # NoHost /\ ~MayBind(t, h)
       THEN /\ call' = [call EXCEPT ![c] = Answer(c, "refused")]
            /\ UNCHANGED <<target, unverified>>
       ELSE /\ Settle(c, r)
            /\ IF unbound /\ h # NoHost THEN bindQkrpcTarget(t, h) ELSE UNCHANGED target
            /\ unverified' = [unverified EXCEPT ![t] =
                 @ \/ (r = "ok" /\ unbound /\ h = NoHost /\ target[t] = NoHost)]
  /\ UNCHANGED <<hostVars, req, pools, conn, countVars>>

\* The client stops waiting: its timer, or a connection that serve has lost.
HttpFails(c) ==
  /\ call[c].pc = "sent"
  /\ \/ req[c].srv # "gone" /\ Settle(c, "timeout") /\ Fault
     \/ req[c].srv = "gone" /\ Settle(c, "none") /\ UNCHANGED faults
  /\ UNCHANGED <<hostVars, target, unverified, req, pools, conn, health>>

DiscoveryFails(c) ==
  /\ call[c].pc = "resolving"
  /\ call' = [call EXCEPT ![c] = Answer(c, IF c \in Writes THEN "refused" ELSE "failed")]
  /\ UNCHANGED <<hostVars, target, unverified, req, pools, conn, countVars>>

Abort(c) ==
  /\ call[c].pc \in {"resolving", "sent"} /\ Fault
  /\ call' = [call EXCEPT ![c] = Answer(c, "aborted")]
  /\ UNCHANGED <<hostVars, target, unverified, req, pools, conn, health>>

---------------------------------------------------------------------------
(* The serve process: one request through the dispatcher and a pool. *)

serveVars == <<req, pools, conn>>

\* The connection of a pool is there but its host has closed it.
Completed(p) == pools[p].session # 0 /\ ~conn[pools[p].session].open

\* The pool after the dispatcher's clean-up of a failure, which never waits for
\* the gate of a connection attempt that another request owns.
InvalidateDisconnected(P, p) ==
  IF P[p].gate = NoCall /\ Completed(p) THEN [P EXCEPT ![p].session = 0] ELSE P

\* c gives back the gate if it is its owner.
Released(c) == [p \in Pools |-> IF pools[p].gate = c THEN [pools[p] EXCEPT !.gate = NoCall] ELSE pools[p]]

Reply(c, r) == [req[c] EXCEPT !.srv = "replied", !.reply = r, !.sess = 0, !.relisted = FALSE,
                              !.pool = Root, !.from = pools[req[c].pool].binding]

\* FailureAsync: the reply of a failure, after its clean-up of the pool.
FailureAsync(c, r) ==
  /\ req' = [req EXCEPT ![c] = Reply(c, r)]
  /\ pools' = InvalidateDisconnected(Released(c), req[c].pool)
  /\ UNCHANGED conn

InvokeAsync(c) ==
  LET h == req[c].to IN
  /\ req[c].srv = "posted"
  /\ IF h # NoHost /\ call[c].pin \notin {NoHost, h}
       THEN req' = [req EXCEPT ![c].srv = "replied", ![c].reply = "refused", ![c].from = h]
       ELSE req' = [req EXCEPT ![c].srv = "waiting",
                               ![c].pool = IF h = NoHost \/ pools[Root].binding = h THEN Root ELSE h]
  /\ UNCHANGED <<hostVars, nodeVars, pools, conn, countVars>>

\* Connections of a pool are made and disposed by one request at a time.
WithoutGate(p) == p \in Pools
GateIsFree(p) == pools[p].gate = NoCall

\* GetSessionAsync behind the gate: the session that is there, also one that has
\* died since; else the host to connect to, the bound one or the only candidate.
GetSessionAsync(c) ==
  LET p == req[c].pool  P == pools[p]
      Connect(h) == /\ pools' = [pools EXCEPT ![p].gate = c, ![p].goal = h]
                    /\ req' = [req EXCEPT ![c].srv = "connecting"] /\ UNCHANGED conn
      Refuse == FailureAsync(c, "refused")
  IN
  /\ req[c].srv = "waiting" /\ GateIsFree(p)
  /\ \/ /\ P.session # 0
        /\ req' = [req EXCEPT ![c].srv = "calling", ![c].sess = P.session]
        /\ UNCHANGED <<pools, conn>>
     \/ P.session = 0 /\ P.legacy /\ Refuse
     \/ P.session = 0 /\ ~P.legacy /\ P.binding # NoHost /\ Connect(P.binding)
     \/ /\ P.session = 0 /\ ~P.legacy /\ P.binding = NoHost
        /\ \E D \in Discovered :
             \/ \E h \in Hosts : D = {h} /\ Connect(h)
             \/ D = {} /\ (\E h \in Hosts : Accepting(h)) /\ Connect(NoHost)
             \/ (Cardinality(D) > 1 \/ (D = {} /\ \A h \in Hosts : ~Accepting(h))) /\ Refuse
  /\ UNCHANGED <<hostVars, nodeVars, countVars>>

FreeIds == {i \in Ids : /\ ~conn[i].open
                        /\ \A p \in Pools : pools[p].session # i
                        /\ \A c \in Calls : req[c].sess # i}

\* A handshake with host h succeeded over connection i.  The shared pipe (goal
\* NoHost) reaches some host and gives no identity: its session is never bound.
ConnectBoundAsync(p, goal, h, i) ==
  LET b == IF pools[p].binding # NoHost THEN pools[p].binding ELSE goal IN
  /\ i \in FreeIds /\ \A k \in FreeIds : i <= k
  /\ Accepting(h) /\ goal \in {NoHost, h}
  /\ conn' = [conn EXCEPT ![i] = [host |-> h, open |-> TRUE, bound |-> goal # NoHost]]
  /\ pools' = [pools EXCEPT ![p] = [gate |-> NoCall, session |-> i, goal |-> NoHost,
                                    binding |-> b, legacy |-> b = NoHost]]

Connected(c) ==
  LET p == req[c].pool IN
  /\ req[c].srv = "connecting"
  /\ \E h \in Hosts, i \in Ids :
       /\ ConnectBoundAsync(p, pools[p].goal, h, i)
       /\ req' = [req EXCEPT ![c].srv = "calling", ![c].sess = i]
  /\ UNCHANGED <<hostVars, nodeVars, countVars>>

ConnectFails(c) ==
  /\ req[c].srv = "connecting"
  /\ FailureAsync(c, "refused")
  /\ UNCHANGED <<hostVars, nodeVars, countVars>>

LostIsFailure(c) == IF c \in Calls THEN "failed" ELSE "none"
LostMeaning(c) == IF c \in Writes THEN "unknown" ELSE "failed"

\* QuickerRpcGuardedService: no write through an unbound session; a session that
\* was disposed since it was taken fails the call at once.
GuardedInvoke(c) ==
  /\ req[c].srv = "calling" /\ req[c].rpc = "none"
  /\ \/ c \in Writes /\ ~conn[req[c].sess].bound /\ FailureAsync(c, "refused")
     \/ /\ c \notin Writes \/ conn[req[c].sess].bound
        /\ IF conn[req[c].sess].open
             THEN /\ req' = [req EXCEPT ![c].rpc = "sent", ![c].at = conn[req[c].sess].host]
                  /\ UNCHANGED <<pools, conn>>
             ELSE FailureAsync(c, LostMeaning(c))
  /\ UNCHANGED <<hostVars, nodeVars, countVars>>

\* The method returns, or its exception does, which may have followed the effect.
RpcReturns(c) ==
  /\ req[c].srv = "calling" /\ req[c].rpc \in {"ran", "rejected"} /\ conn[req[c].sess].open
  /\ \/ req[c].rpc = "ran" /\ req' = [req EXCEPT ![c] = Reply(c, "ok")] /\ UNCHANGED <<pools, conn>>
     \/ FailureAsync(c, LostMeaning(c))
  /\ UNCHANGED <<hostVars, nodeVars, countVars>>

RpcLost(c) ==
  /\ req[c].srv = "calling" /\ req[c].rpc # "none" /\ ~conn[req[c].sess].open
  /\ FailureAsync(c, LostMeaning(c))
  /\ UNCHANGED <<hostVars, nodeVars, countVars>>

InProgressButCalling(c) == req[c].srv \in {"waiting", "connecting"}
InProgress(c) == req[c].srv \in {"waiting", "connecting", "calling"}

\* The deadline of the dispatcher.  The guard turns it into an unknown result for
\* a write that was sent; everything else reports the timeout.
Deadline(c) ==
  /\ InProgress(c)
  /\ IF req[c].rpc # "none" /\ c \in Writes
       THEN FailureAsync(c, "unknown")
       ELSE /\ req' = [req EXCEPT ![c] = Reply(c, "timeout")]
            /\ pools' = Released(c) /\ UNCHANGED conn
  /\ UNCHANGED <<hostVars, nodeVars, countVars>>

\* The client has left: the request is cancelled.
RequestAborted(c) ==
  /\ InProgress(c) \/ req[c].srv = "posted"
  /\ call[c].pc # "sent"
  /\ req' = [req EXCEPT ![c].srv = "gone", ![c].sess = 0, ![c].pool = Root]
  /\ pools' = Released(c)
  /\ UNCHANGED <<hostVars, nodeVars, conn, countVars>>

\* InvalidateAsync: the session of the pool is disposed, whoever uses it; what
\* the pool is bound to stays.
InvalidateForgets(p) ==
  /\ GateIsFree(p)
  /\ pools' = [pools EXCEPT ![p].session = 0, ![p].binding = NoHost]
  /\ conn' = Close({pools[p].session})
InvalidateAsync(p) ==
  /\ GateIsFree(p)
  /\ pools' = [pools EXCEPT ![p].session = 0]
  /\ conn' = Close({pools[p].session})

\* ActionListAsync: an empty answer is asked for again on a new session, once.
ActionListAsync(c) ==
  /\ c \notin Writes /\ req[c].srv = "calling" /\ req[c].rpc = "ran" /\ ~req[c].relisted
  /\ conn[req[c].sess].open
  /\ InvalidateAsync(req[c].pool)
  /\ req' = [req EXCEPT ![c].srv = "waiting", ![c].sess = 0, ![c].rpc = "none", ![c].relisted = TRUE]
  /\ UNCHANGED <<hostVars, nodeVars, countVars>>

\* A health request connects the root pool when it has no session: to the bound
\* host, the only candidate, or over the shared pipe.  It holds the gate until then,
\* and who waits for the gate finds the pool as this step leaves it.
HealthConnects ==
  LET P == pools[Root] IN
  /\ GateIsFree(Root) /\ P.session = 0 /\ ~P.legacy
  /\ \E h \in Hosts, i \in Ids, goal \in Identified \cup {NoHost} :
       /\ P.binding \in {NoHost, goal}
       /\ ConnectBoundAsync(Root, goal, h, i)
  /\ UNCHANGED <<hostVars, nodeVars, req, countVars>>

\* HandleHealthAsync could not get a session; by the time it invalidates the
\* pool another request may have connected it.
HealthFails ==
  /\ ~health /\ Fault /\ GateIsFree(Root) /\ pools[Root].session = 0
  /\ health' = TRUE
  /\ UNCHANGED <<hostVars, nodeVars, serveVars>>

HandleHealthAsync ==
  /\ health /\ health' = FALSE
  /\ InvalidateAsync(Root)
  /\ UNCHANGED <<hostVars, nodeVars, req, faults>>

\* The serve process dies with its pools; what is in a pipe may still be read.
ServeDies ==
  /\ Fault
  /\ req' = [c \in Calls |-> IF req[c].srv \in {"none", "gone"} THEN req[c]
                             ELSE [req[c] EXCEPT !.srv = "gone", !.sess = 0, !.pool = Root]]
  /\ pools' = [p \in Pools |-> NewPool(p)]
  /\ conn' = Close(Ids)
  /\ health' = FALSE
  /\ UNCHANGED <<hostVars, nodeVars>>

---------------------------------------------------------------------------
Serve(c) == InvokeAsync(c) \/ GetSessionAsync(c) \/ Connected(c) \/ ConnectFails(c) \/ GuardedInvoke(c)
            \/ RpcReturns(c) \/ RpcLost(c) \/ Deadline(c) \/ RequestAborted(c) \/ ActionListAsync(c)
Client(c) == invokeQkrpcHttp(c) \/ resolveQkrpcHttpBinding(c) \/ DiscoveryFails(c) \/ Receive(c)
             \/ HttpFails(c) \/ Abort(c)

Next ==
  \/ \E c \in Calls : Client(c) \/ Serve(c) \/ HostRuns(c) \/ HostRejects(c)
  \/ \E h \in Hosts : HostStarts(h) \/ StopAsync(h) \/ HostEnds(h)
  \/ HealthConnects \/ HealthFails \/ HandleHealthAsync \/ ServeDies

\* Deadlines pass, replies are delivered, a broken connection is noticed; hosts
\* owe nothing, and nobody has to call, to cancel or to fail.
Fairness ==
  \A c \in Calls : /\ WF_vars(InvokeAsync(c)) /\ WF_vars(Deadline(c))
                   /\ WF_vars(Receive(c)) /\ WF_vars(resolveQkrpcHttpBinding(c) \/ DiscoveryFails(c))
                   /\ WF_vars(req[c].srv = "gone" /\ HttpFails(c))

Spec == Init /\ [][Next]_vars /\ Fairness

---------------------------------------------------------------------------
(* Properties. *)

\* However sessions are lost, deadlines pass and calls are repeated, a write of
\* an agent tool is executed at most once.
WritesRunOnce == \A c \in Writes : Len(ran[c]) <= 1

\* The calls keep the contract of writes: one that reached the pipe counts as
\* carried out when the host runs it, and the tool reports an answer as what it
\* says, everything else that ended the call as unknown.
Reported(c) ==
  IF call[c].pc # "done" THEN "none"
  ELSE IF call[c].res = "ok" THEN "applied"
  ELSE IF call[c].res \in {"refused", "failed"} THEN "not_applied" ELSE "unknown"

WriteContract == INSTANCE WriteResults WITH
  Writes <- Writes,
  effects <- [c \in Writes |-> Len(ran[c])],
  result <- [c \in Writes |-> Reported(c)]

\* A call is executed at most once, however sessions are lost, deadlines pass and
\* calls are repeated, and no host runs it after the tool was told that it failed.
ImplementsWriteResults == WriteContract!ContractSpec

\* What the tool reports of a write is true, then and for ever: "ok" means that
\* the host ran it, a definite failure that no host ran it or will.
AnswersAreTrue ==
  \A c \in Writes : call[c].pc = "done" =>
    /\ call[c].res = "ok" => ran[c] # <<>>
    /\ call[c].res \in {"refused", "failed"} => ran[c] = <<>>

\* All verified calls of a turn reach one run of one host, also when that host
\* goes away in the middle of the turn and another takes its place.
TurnTalksToOneHost ==
  \A c \in Calls :
    /\ c \in Writes => \A i \in 1 .. Len(ran[c]) : ran[c][i] = target[TurnOf[c]]
    /\ req[c].to # NoHost /\ req[c].rpc = "ran" => req[c].at = target[TurnOf[c]]
    /\ call[c].res = "ok" /\ req[c].from # NoHost => req[c].at = target[TurnOf[c]]

\* Disposing, reconnecting and cancelling leave no open connection behind that
\* no pool knows any more.
NoConnectionIsLost ==
  /\ TypeOK
  /\ \A i \in Ids : conn[i].open => \E p \in Pools : pools[p].session = i

\* A call is answered, whatever the hosts and the serve process do.
CallsAreAnswered ==
  \A c \in Calls : call[c].pc \in {"resolving", "sent"} ~> call[c].pc \in {"idle", "done"}
=============================================================================
