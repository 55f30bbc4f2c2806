----------------------- MODULE MCProgramDocumentSession -----------------------
(***************************************************************************)
(* One session with every call, a caller that may have read the document   *)
(* at any earlier moment, and "lived", which remembers for each metadata   *)
(* field the values it has had since the disk last changed it.             *)
(***************************************************************************)
EXTENDS ProgramDocumentSession, TLC

VARIABLE lived

MCInit ==
  /\ Init
  /\ lived = [f \in Fields |-> IF metadata = Detached THEN {}
                                                    ELSE {metadata.fields[f]}]

DiskChanged(f) ==
  /\ metadata' # metadata /\ metaBase' # metaBase
  /\ metadata = Detached \/ metadata'.fields[f] # metadata.fields[f]

MCNext ==
  /\ Next
  /\ lived' = IF metadata' = Detached THEN lived
              ELSE [f \in Fields |-> IF DiskChanged(f)
                      THEN {metadata'.fields[f]}
                      ELSE lived[f] \cup {metadata'.fields[f]}]

MCSpec == MCInit /\ [][MCNext]_<<vars, lived>>

Symmetry == Permutations(Bodies) \cup Permutations(Extensions)
              \cup Permutations(Targets) \cup Permutations(Versions)

\* A field the disk has changed is not a local operation any more: undo and
\* redo only know values the field has had since then, while the body and the
\* other fields of the same entries keep their own past (Rebased).
UndoRespectsDisk ==
  /\ TypeOK
  /\ \A entries \in {past, future} : \A i \in DOMAIN entries :
       entries[i].fields # Detached =>
         \A f \in Fields : entries[i].fields[f] \in lived[f]
===============================================================================
