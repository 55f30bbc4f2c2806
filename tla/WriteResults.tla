----------------------------- MODULE WriteResults -----------------------------
(***************************************************************************)
(* What the agent tools and the editors promise of a write that goes to    *)
(* another process or another thread (QuickerRpcHostBinding.cs, Quicker-   *)
(* RpcGuardedService.cs, live-program-document.ts): it is carried out at   *)
(* most once, the caller is told that it was applied, that it was not, or  *)
(* that nobody knows (WRITE_RESULT_UNKNOWN), and what it is told is never  *)
(* overtaken: a write reported as not applied is not carried out later,    *)
(* and only one whose result is unknown may still be under way.  A result  *)
(* is forgotten with the conversation it was told to, or when the answer   *)
(* is lost and nothing is under way any more; then the write is over too.  *)
(* Hosts, sessions, retries, ledgers and files are all below this.         *)
(***************************************************************************)
EXTENDS Integers

CONSTANT Writes   \* the writes that callers ask for

VARIABLES
  effects,   \* how often each was carried out
  result     \* what its caller has been told

resultVars == <<effects, result>>

Results == {"none", "applied", "not_applied", "unknown", "forgotten"}

ContractInit ==
  /\ effects = [w \in Writes |-> 0]
  /\ result = [w \in Writes |-> "none"]

\* Nothing is carried out twice, or after the caller was told how it ended.
CarriedOut(w) ==
  /\ effects[w] = 0 /\ result[w] \in {"none", "unknown"}
  /\ effects'[w] = 1

\* The caller is told what has happened, in the step in which it happens or later.
Told(w) ==
  /\ result[w] = "none"
  /\ result'[w] = IF effects'[w] = 1 THEN "applied" ELSE "not_applied"

\* The answer is lost: its caller never learns whether it was carried out.
GivenUp(w) == result[w] = "none" /\ result'[w] = "unknown"

\* No result is left, and none will come: the write is not carried out from then.
Forgotten(w) == result'[w] = "forgotten"

\* One step may carry out, answer and give up several writes at once: the end of
\* a process gives up all that are under way.
ContractNext ==
  /\ effects' \in [Writes -> {0, 1}] /\ result' \in [Writes -> Results]
  /\ \A w \in Writes :
       /\ effects'[w] = effects[w] \/ CarriedOut(w)
       /\ result'[w] = result[w] \/ Told(w) \/ GivenUp(w) \/ Forgotten(w)

ContractSpec == ContractInit /\ [][ContractNext]_resultVars
===============================================================================
