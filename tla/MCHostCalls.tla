---------------------------- MODULE MCHostCalls ----------------------------
\* One turn that reads and writes at the same time; the write may be the save
\* of a bundle that names the host it came from.
EXTENDS HostCalls, TLC
CONSTANTS write, read, turn, h1, h2
MCTurnOf == [c \in Calls |-> turn]
Sym == Permutations({h1, h2})

\* Bounds on health requests that connect the root pool: not once a call has a
\* session, and for the answers not at all: who waits for their gate has a deadline.
HealthHasConnected == req' = req /\ pools'[Root].session > pools[Root].session
NobodyCalls == \A c \in Calls : req[c].srv \notin {"calling", "replied", "gone"}

MCSpec == Init /\ [][Next /\ (HealthHasConnected => NobodyCalls)]_vars
AnswersSpec == Init /\ [][Next /\ ~HealthHasConnected]_vars /\ Fairness
=============================================================================
