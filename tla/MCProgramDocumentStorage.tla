----------------------- MODULE MCProgramDocumentStorage -----------------------
(***************************************************************************)
(* Two values are enough to tell old from new; editors are symmetric.      *)
(***************************************************************************)
EXTENDS ProgramDocumentStorage, TLC

Scenario(editors, edits, saves, outside, exports, crashes) ==
  [editors |-> editors, edits |-> edits, saves |-> saves,
   outside |-> outside, exports |-> exports, crashes |-> crashes]

\* All editors save into the project of a server that stays up, or one of them
\* into a project that its server, which may crash, shares with an export.
SharedProject ==
  {Scenario(Editors, 2, 2, 0, 0, 0)} \cup {Scenario({e}, 1, 2, 0, 1, 1) : e \in Editors}

\* A crash of the server and a write from outside.
FailingServer == {Scenario(Editors, 1, 2, 1, 0, 1)}

Symmetry == Permutations(Editors) \cup Permutations(Values)
===============================================================================
