---------------------------- MODULE MCAgentTurn ----------------------------
(***************************************************************************)
(* TLC's instance of AgentTurn.  One turn has no parameter: the run is     *)
(* exhaustive.  A turn that has ended stops, so the run does not check for *)
(* deadlock; CancelledTurnEnds says that it does not stop before.          *)
(***************************************************************************)
EXTENDS AgentTurn
=============================================================================
