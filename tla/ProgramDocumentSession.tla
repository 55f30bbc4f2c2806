------------------------ MODULE ProgramDocumentSession ------------------------
(***************************************************************************)
(* One program document open in the editor (programDocumentSession.ts with *)
(* programDocumentHistory.ts).  The session owns the working draft of the  *)
(* body and of the sibling metadata (info.json), the baseline each was     *)
(* loaded or saved as, one undo history, and at most one save.  The editor,*)
(* the agent's live endpoint, the file watcher, the identity reader and    *)
(* the storage promise all call it; every call runs to its end without     *)
(* interruption and a refused call changes nothing, so refusals are not    *)
(* steps.  What can go wrong is the order of calls, and calls made with    *)
(* something that was read earlier: "view" is one such reading, of any     *)
(* caller, and may be used at any later time.                              *)
(*                                                                         *)
(* A body is its fingerprint: contents that differ in layout only are one  *)
(* body.  Metadata is its editable fields and everything else ("ext": the  *)
(* host version and the extension fields, which no edit may touch).        *)
(***************************************************************************)
EXTENDS Integers, Sequences

CONSTANTS
  Bodies,       \* fingerprints of document bodies
  Fields,       \* editable metadata fields; "title" is one of them
  Values,       \* values of a field
  Blank,        \* the empty value, which a title cannot be saved with
  Extensions,   \* the rest of the metadata
  Detached,     \* no metadata is attached
  Targets,      \* project bindings, null (a local action) among them
  Unloaded,     \* the undefined project binding
  Versions,     \* storage versions
  NoTicket,     \* no save is pending
  Idle,         \* no save is being prepared
  HistoryMax,   \* PROGRAM_DOCUMENT_HISTORY_MAX
  MaxRevision   \* bound: revisions in one behaviour

Metadata == [fields : [Fields -> Values], ext : Extensions]

ASSUME SessionAssumption ==
  /\ "title" \in Fields
  /\ HistoryMax \in Nat \ {0}
  /\ MaxRevision \in Nat
  /\ Detached \notin Metadata /\ Detached \notin [Fields -> Values]
  /\ Unloaded \notin Targets
  /\ Idle \notin Nat

VARIABLES
  content,    \* the body of the draft
  baseline,   \* the body as it was loaded or last saved
  metadata,   \* the metadata of the draft, or Detached
  metaBase,   \* its baseline
  revision,
  identity,   \* project binding and storage version
  dirty,      \* state.bodyDirty and state.dirty
  past, future,
  shown,      \* state.history: the depths the editor shows
  pending,    \* the ticket of the save in progress
  saving,
  preparing,  \* the revision beginSave is preparing, or Idle
  closed,
  view        \* what some caller has read

draft == <<content, metadata, revision, dirty, past, future, shown>>
store == <<baseline, metaBase, identity, pending, saving>>
vars  == <<draft, store, preparing, closed, view>>

Identities == [target : Targets \cup {Unloaded}, version : Versions]
Entries    == [body : Bodies, fields : [Fields -> Values] \cup {Detached}]
Drafts     == Metadata \cup {Detached}
Tickets    == [content : Bodies, baseline : Bodies, metadata : Drafts,
               metaBase : Drafts, identity : Identities, revision : Nat]
Views      == [revision : Nat, body : Bodies, metadata : Drafts,
               identity : Identities]

\* A ticket is an object, its absence is null.
ASSUME TicketAssumption == NoTicket \notin Tickets

TypeOK ==
  /\ content \in Bodies /\ baseline \in Bodies
  /\ metadata \in Drafts /\ metaBase \in Drafts
  /\ revision \in Nat
  /\ identity \in Identities
  /\ dirty \in [body : BOOLEAN, document : BOOLEAN]
  /\ past \in Seq(Entries) /\ future \in Seq(Entries)
  /\ shown \in [undo : Nat, redo : Nat]
  /\ pending \in Tickets \cup {NoTicket}
  /\ saving \in BOOLEAN
  /\ preparing \in Nat \cup {Idle}
  /\ closed \in BOOLEAN
  /\ view \in Views

Current == [revision |-> revision, body |-> content, metadata |-> metadata,
            identity |-> identity]

Init ==
  /\ content \in Bodies /\ baseline = content
  /\ metadata \in Drafts /\ metaBase = metadata
  /\ revision = 0
  /\ identity \in Identities
  /\ dirty = [body |-> FALSE, document |-> FALSE]
  /\ past = <<>> /\ future = <<>>
  /\ shown = [undo |-> 0, redo |-> 0]
  /\ pending = NoTicket
  /\ saving = FALSE
  /\ preparing = Idle
  /\ closed = FALSE
  /\ view = Current

Read ==
  /\ view' = Current
  /\ UNCHANGED <<draft, store, preparing, closed>>

-----------------------------------------------------------------------------
(* Edits, by the editor with what it reads now or by a caller with what it *)
(* has read before.                                                        *)

\* withDirty: the draft against the baselines, whichever of them has moved.
WithDirty(base, metaBaseline) ==
  dirty' = [body     |-> content' # base,
            document |-> content' # base \/ metadata' # metaBaseline]
ShowHistory == shown' = [undo |-> Len(past'), redo |-> Len(future')]

\* checkEdit without expectedIdentity, which an edit may name as well and undo and
\* redo must: naming it refuses more and allows nothing more.
CheckRevisionOnly(seen) == seen.revision = revision
CheckEdit(seen) == ~closed /\ seen.revision = revision

Present == [body   |-> content,
            fields |-> IF metadata = Detached THEN Detached
                                              ELSE metadata.fields]

Bounded(entries) == IF Len(entries) > HistoryMax THEN Tail(entries) ELSE entries

Record ==
  /\ past' = Bounded(Append(past, Present))
  /\ future' = <<>>

\* An edit that changes nothing is accepted and is not a revision.
Commit(body, meta) ==
  IF body = content /\ meta = metadata
    THEN UNCHANGED draft
    ELSE /\ revision < MaxRevision
         /\ revision' = revision + 1
         /\ content' = body
         /\ metadata' = meta
         /\ Record
         /\ ShowHistory
         /\ WithDirty(baseline, metaBase)

\* patchProgramDocumentMetadata: only the editable fields of a patch change.
Patched(fields) == [metadata EXCEPT !.fields = fields]

\* applySnapshot and transact.
Transact(seen) ==
  /\ CheckEdit(seen)
  /\ \E body \in Bodies : Commit(body, metadata)
  /\ UNCHANGED <<store, preparing, closed, view>>

ApplyMetadata(seen) ==
  /\ CheckEdit(seen)
  /\ metadata # Detached
  /\ \E fields \in [Fields -> Values] : Commit(content, Patched(fields))
  /\ UNCHANGED <<store, preparing, closed, view>>

\* Both at once, as one revision; metadata is neither attached nor removed.
TransactDocument(seen) ==
  /\ CheckEdit(seen)
  /\ metadata # Detached
  /\ \E body \in Bodies, fields \in [Fields -> Values] :
       Commit(body, Patched(fields))
  /\ UNCHANGED <<store, preparing, closed, view>>

\* What the draft's metadata becomes when a history entry is restored.
Restored(entry) ==
  IF metadata # Detached /\ entry.fields # Detached THEN Patched(entry.fields)
                                                    ELSE metadata
Equivalent(entry) == entry.body = content /\ Restored(entry) = metadata

\* The n oldest entries remain when those equal to the draft are skipped.
Skips(entries, n) ==
  /\ n \in 0 .. Len(entries)
  /\ \A i \in n + 1 .. Len(entries) : Equivalent(entries[i])
  /\ n > 0 => ~Equivalent(entries[n])

\* The draft becomes entry n; nothing is recorded as an edit.
Restore(entry) ==
  /\ revision < MaxRevision
  /\ revision' = revision + 1
  /\ content' = entry.body
  /\ metadata' = Restored(entry)
  /\ ShowHistory
  /\ WithDirty(baseline, metaBase)

NothingToRestore ==
  /\ ShowHistory
  /\ UNCHANGED <<content, metadata, revision, dirty>>

Undo(seen) ==
  /\ CheckEdit(seen) /\ seen.identity = identity
  /\ \E n \in 0 .. Len(past) :
       /\ Skips(past, n)
       /\ past' = SubSeq(past, 1, n - 1)
       /\ future' = IF n = 0 THEN future ELSE Bounded(Append(future, Present))
       /\ IF n = 0 THEN NothingToRestore ELSE Restore(past[n])
  /\ UNCHANGED <<store, preparing, closed, view>>

Redo(seen) ==
  /\ CheckEdit(seen) /\ seen.identity = identity
  /\ \E n \in 0 .. Len(future) :
       /\ Skips(future, n)
       /\ future' = SubSeq(future, 1, n - 1)
       /\ past' = IF n = 0 THEN past ELSE Bounded(Append(past, Present))
       /\ IF n = 0 THEN NothingToRestore ELSE Restore(future[n])
  /\ UNCHANGED <<store, preparing, closed, view>>

-----------------------------------------------------------------------------
(* What other readers of the disk and of the host report.                  *)

NewRevision == revision < MaxRevision /\ revision' = revision + 1

NotSaving == pending = NoTicket /\ preparing = Idle

\* A source sync answered: the caller read the identity before it asked.
ReconcileStorageVersion(seen) ==
  /\ ~closed
  /\ seen.identity = identity
  /\ NotSaving
  /\ \E version \in Versions : identity' = [identity EXCEPT !.version = version]
  /\ NewRevision
  /\ UNCHANGED <<content, metadata, dirty, past, future, shown, baseline,
                 metaBase, pending, saving, preparing, closed, view>>

\* The project binding is attached when it is first read, never replaced.
ReconcileProjectBinding ==
  /\ ~closed
  /\ identity.target = Unloaded
  /\ NotSaving
  /\ \E target \in Targets : identity' = [identity EXCEPT !.target = target]
  /\ NewRevision
  /\ UNCHANGED <<content, metadata, dirty, past, future, shown, baseline,
                 metaBase, pending, saving, preparing, closed, view>>

NotRebased(entries, source) == entries
\* Fields the disk changed are no longer local operations: every history
\* entry takes the new value of those fields and keeps the others.
Rebased(entries, source) ==
  LET accepted(fields) ==
        [f \in Fields |-> IF source.fields[f] # metadata.fields[f]
                            THEN source.fields[f] ELSE fields[f]]
  IN  [i \in DOMAIN entries |->
         IF entries[i].fields = Detached THEN entries[i]
         ELSE [entries[i] EXCEPT !.fields = accepted(entries[i].fields)]]

SavingMetadata == pending # NoTicket /\ pending.metadata # Detached

Acknowledges(source) ==
  \/ source = metaBase
  \/ SavingMetadata /\ source = pending.metadata

MayReplaceMetadata == metadata = metaBase /\ ~SavingMetadata

\* info.json was read: the first time it is attached; later it replaces the
\* metadata unless that is our own writing, or there is a draft to protect.
ReconcileMetadata ==
  /\ ~closed
  /\ \E source \in Metadata :
       /\ \/ /\ metadata = Detached
             /\ UNCHANGED <<past, future>>
          \/ /\ metadata # Detached
             /\ ~Acknowledges(source)
             /\ MayReplaceMetadata
             /\ past' = Rebased(past, source)
             /\ future' = Rebased(future, source)
       /\ metadata' = source
       /\ metaBase' = source
  /\ NewRevision
  /\ ShowHistory
  /\ UNCHANGED <<content, baseline>>
  /\ WithDirty(baseline', metaBase')
  /\ UNCHANGED <<identity, pending, saving, preparing, closed, view>>

-----------------------------------------------------------------------------
(* Saving.  beginSave calls back into the mounted editors, which may call  *)
(* the session themselves before they return the live snapshot.            *)

PrepareSave ==
  /\ ~closed
  /\ NotSaving
  /\ preparing' = revision
  /\ UNCHANGED <<draft, store, closed, view>>

\* The editors throw, or the session was closed or changed under them.
SaveRefused ==
  /\ preparing # Idle
  /\ preparing' = Idle
  /\ UNCHANGED <<draft, store, closed, view>>

\* The live snapshot is committed even when the title then forbids the save.
BeginSave ==
  /\ preparing # Idle
  /\ ~closed /\ preparing = revision
  /\ \E body \in Bodies : Commit(body, metadata)
  /\ IF metadata # Detached /\ metadata.fields["title"] = Blank
       THEN UNCHANGED <<pending, saving>>
       ELSE /\ pending' = [content  |-> content',  baseline |-> baseline,
                           metadata |-> metadata, metaBase |-> metaBase,
                           identity |-> identity, revision |-> revision']
            /\ saving' = TRUE
  /\ preparing' = Idle
  /\ UNCHANGED <<baseline, metaBase, identity, closed, view>>

\* Both sides of a receipt name the same project.
SameTarget(receipt) == receipt.target = pending.identity.target

AdvanceToDraft(bodyPersisted, metadataPersisted) ==
  /\ baseline' = IF bodyPersisted THEN content ELSE baseline
  /\ metaBase' = IF metadataPersisted /\ SavingMetadata THEN metadata
                                                       ELSE metaBase
\* The parts the receipt says were persisted become the baseline, as they
\* were in the ticket: the draft may have moved on.
Advance(bodyPersisted, metadataPersisted) ==
  /\ baseline' = IF bodyPersisted THEN pending.content ELSE baseline
  /\ metaBase' = IF metadataPersisted /\ SavingMetadata THEN pending.metadata
                                                       ELSE metaBase

SaveEnded ==
  /\ pending' = NoTicket
  /\ saving' = FALSE
  /\ UNCHANGED <<content, metadata, revision, past, future, shown, preparing,
                 closed, view>>

SaveSucceeds(receipt) ==
  /\ pending # NoTicket
  /\ SameTarget(receipt)
  /\ identity' = receipt
  /\ Advance(TRUE, TRUE)
  /\ SaveEnded
  /\ WithDirty(baseline', metaBase')

\* A receipt for another project proves nothing about this one.
SaveMisdirected(receipt) ==
  /\ pending # NoTicket
  /\ ~SameTarget(receipt)
  /\ SaveEnded
  /\ UNCHANGED <<identity, baseline, metaBase, dirty>>

\* The storage failed, perhaps after the body, or both parts, reached the disk.
SaveFails(bodyPersisted, metadataPersisted) ==
  /\ pending # NoTicket
  /\ Advance(bodyPersisted, metadataPersisted)
  /\ SaveEnded
  /\ WithDirty(baseline', metaBase')
  /\ UNCHANGED identity

Close ==
  /\ closed' = TRUE
  /\ pending' = NoTicket
  /\ saving' = FALSE
  /\ past' = <<>> /\ future' = <<>>
  /\ ShowHistory
  /\ UNCHANGED <<content, metadata, revision, dirty, baseline, metaBase,
                 identity, preparing, view>>

-----------------------------------------------------------------------------
Next ==
  \/ Read
  \/ \E seen \in {Current, view} :
       \/ Transact(seen) \/ ApplyMetadata(seen) \/ TransactDocument(seen)
       \/ Undo(seen) \/ Redo(seen)
       \/ ReconcileStorageVersion(seen)
  \/ ReconcileProjectBinding
  \/ ReconcileMetadata
  \/ PrepareSave \/ SaveRefused \/ BeginSave
  \/ \E receipt \in Identities : SaveSucceeds(receipt) \/ SaveMisdirected(receipt)
  \/ \E body, meta \in BOOLEAN : SaveFails(body, meta)
  \/ Close

Spec == Init /\ [][Next]_vars

-----------------------------------------------------------------------------

\* What was saved is only ever what a ticket carried (never what the draft has
\* become since), or what the disk held while there was no draft to protect.
BaselineMovesByReceipt ==
  [][/\ baseline' # baseline => pending # NoTicket /\ baseline' = pending.content
     /\ metaBase' # metaBase =>
          \/ SavingMetadata /\ metaBase' = pending.metadata /\ metadata' = metadata
          \/ metadata = metaBase /\ metadata' = metaBase' /\ ~SavingMetadata]_vars

\* The session implements what its callers were promised.
Contract == INSTANCE DocumentContract WITH
  Documents <- [body : Bodies, metadata : Drafts],
  document  <- [body |-> content, metadata |-> metadata]

ImplementsContract == Contract!ContractSpec

=============================================================================
