--------------------------- MODULE DocumentContract ---------------------------
(***************************************************************************)
(* What a program document promises to the code that reads and edits it:   *)
(* the editor, the live endpoint of the agent and the storage adapters.    *)
(* They hold a revision, an identity or a whole view across an await and   *)
(* rely on three things only: a new document has a new revision, the       *)
(* project a loaded document belongs to never changes under it, and the    *)
(* end of a save may change the storage version (and nothing else) without *)
(* a new revision.  Undo, redo, conflicts and tickets are all below this.  *)
(***************************************************************************)
EXTENDS Integers

CONSTANTS
  Documents,   \* what a document can contain
  Targets,     \* the projects and hosts an identity can name
  Unloaded,    \* the target of an identity whose project is not read yet
  Versions     \* storage versions

VARIABLES document, revision, identity, saving, closed

contractVars == <<document, revision, identity, saving, closed>>

Identities == [target : Targets \cup {Unloaded}, version : Versions]

ContractTypeOK ==
  /\ document \in Documents
  /\ revision \in Nat
  /\ identity \in Identities
  /\ saving \in BOOLEAN
  /\ closed \in BOOLEAN

ContractInit ==
  /\ document \in Documents
  /\ revision = 0
  /\ identity \in Identities
  /\ saving = FALSE
  /\ closed = FALSE

\* Any change of the document, by a user, the agent, undo or the disk.
Change ==
  /\ ~closed
  /\ document' \in Documents \ {document}
  /\ revision' = revision + 1
  /\ UNCHANGED <<identity, saving, closed>>

\* The identity changes outside a save only together with the revision; a
\* target is attached once and then stays.
Rebind ==
  /\ ~closed /\ ~saving
  /\ identity' \in Identities
  /\ identity.target # Unloaded => identity'.target = identity.target
  /\ revision' = revision + 1
  /\ UNCHANGED <<document, saving, closed>>

\* A save first takes in what the mounted editor still holds.
Save ==
  /\ ~closed /\ ~saving
  /\ saving' = TRUE
  /\ document' \in Documents
  /\ revision' = IF document' = document THEN revision ELSE revision + 1
  /\ UNCHANGED <<identity, closed>>

Saved ==
  /\ saving
  /\ saving' = FALSE
  /\ identity' \in Identities
  /\ identity'.target = identity.target
  /\ UNCHANGED <<document, revision, closed>>

Close ==
  /\ closed' = TRUE
  /\ saving' = FALSE
  /\ UNCHANGED <<document, revision, identity>>

ContractNext == Change \/ Rebind \/ Save \/ Saved \/ Close

ContractSpec == ContractInit /\ [][ContractNext]_contractVars
===============================================================================
