------------------------ MODULE MCLiveProgramDocument ------------------------
(***************************************************************************)
(* Small programs for LiveProgramDocument: steps that come and go, and one *)
(* text that stands for everything the notes and inputs of steps say.  The *)
(* calls of an instance name every operation as the read they rely on.     *)
(*                                                                         *)
(* EditSpec has two stories.  In one, the agent's edits are notes, and the *)
(* editor is edited twice and mounted again; in the other they are edits   *)
(* of inputs with the schema reads they need, and the editor, which keeps  *)
(* mounted, is edited once while a schema is on its way.                   *)
(***************************************************************************)
EXTENDS LiveProgramDocument, TLC

VARIABLE story

MCDocuments == [rows : SUBSET Steps, text : Texts]

Read == [kind |-> "read"]
Schema(s) == [kind |-> "schema", step |-> s]
Note(s, o, r) == [kind |-> "note", step |-> s, readOp |-> o, revision |-> r]
SetInputs(s, o, r) ==
  [kind |-> "inputs", step |-> s, readOp |-> o, revision |-> r]

\* Schema reads, which outlive their turn, and the edits that need one.
InputCalls ==
  {Read} \cup {Schema(s) : s \in Steps}
    \cup {SetInputs(s, o, r) : s \in Steps, o \in Ops, r \in Revisions}

AllCalls == InputCalls \cup {Note(s, o, r) : s \in Steps, o \in Ops, r \in Revisions}

StoryCalls == IF story = "notes" THEN (AllCalls \ InputCalls) \cup {Read}
              ELSE {c \in InputCalls : "revision" \in DOMAIN c => c.revision <= MaxRevision}

\* Inputs: one mount, and one revision of the user.
Told ==
  /\ Step(StoryCalls)
  /\ story = "inputs" => session' = 1 /\ (revision' > 1 /\ applied' = applied => revision' = revision)

EditInit == Init /\ story \in {"notes", "inputs"}
EditSpec == EditInit /\ [][Told /\ UNCHANGED story]_<<vars, story>>

\* Every call with every input, and the next turn.
TurnInit == Init /\ story = "turns"
TurnSpec == TurnInit /\ [][Next /\ UNCHANGED story]_<<vars, story>> /\ Fairness

Symmetry == Permutations(Ops)
=============================================================================
