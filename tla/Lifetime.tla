------------------------------- MODULE Lifetime -------------------------------
(***************************************************************************)
(* What the owner of a plugin's startup (Launcher.Lifetime.cs) and the     *)
(* owner of an agent turn (turn-lifecycle.ts) both promise: a resource is  *)
(* acquired once and released once, and whoever is told that the lifetime  *)
(* is over finds everything that was ever acquired released, now and for   *)
(* good.  Attempts, cancellation, cleanup chains and response streams are  *)
(* all below this.                                                         *)
(***************************************************************************)
CONSTANTS
  Resources,   \* what may be acquired in one lifetime
  Exclusive    \* nothing is acquired while something is held

VARIABLES
  held,        \* acquired and not released
  released,    \* acquired and released: not acquired again
  over         \* someone was told that the lifetime is over

lifetimeVars == <<held, released, over>>

\* A lifetime may begin with what its owner is handed.
LifetimeInit ==
  /\ held \in SUBSET Resources
  /\ released = {}
  /\ over = FALSE

Acquire(r) ==
  /\ ~over
  /\ r \notin held \cup released
  /\ Exclusive => held = {}
  /\ held' = held \cup {r}
  /\ UNCHANGED <<released, over>>

Release(r) ==
  /\ r \in held
  /\ held' = held \ {r}
  /\ released' = released \cup {r}
  /\ UNCHANGED over

\* Nothing is left to release, and nothing will be acquired.
End ==
  /\ ~over
  /\ held = {}
  /\ over' = TRUE
  /\ UNCHANGED <<held, released>>

LifetimeNext == End \/ \E r \in Resources : Acquire(r) \/ Release(r)

LifetimeSpec == LifetimeInit /\ [][LifetimeNext]_lifetimeVars
===============================================================================
