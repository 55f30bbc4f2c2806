--------------------- MODULE ProgramDocumentSessionProofs ---------------------
(***************************************************************************)
(* The document session, for any bodies, fields, values, targets and       *)
(* versions, any length of the history and any order of calls, those made  *)
(* with something read earlier among them.                                 *)
(*                                                                         *)
(* Two invariants carry it.  TicketInv ties the three variables of a save  *)
(* together (saving, pending, preparing) and says that the identity stands *)
(* still under a ticket: with it every call is a step of DocumentContract. *)
(* HistoryInv is what UndoRespectsDisk needs besides: the draft's own      *)
(* fields are among the lived ones, and while no metadata is attached no   *)
(* entry has any.                                                          *)
(***************************************************************************)
EXTENDS MCProgramDocumentSession, TLAPS

TicketInv ==
  /\ saving <=> pending # NoTicket
  /\ preparing # Idle => pending = NoTicket
  /\ pending # NoTicket => pending.identity = identity

SInv == TypeOK /\ TicketInv

\* Metadata is attached to the draft, its baseline and its ticket together.
AttachInv ==
  metadata = Detached =>
    metaBase = Detached /\ (pending # NoTicket => pending.metadata = Detached)

(* What a step other than a report of the disk does to the history.         *)
EntriesOf(entries) == {entries[i] : i \in DOMAIN entries}

Ordinary ==
  /\ EntriesOf(past') \subseteq EntriesOf(past) \cup EntriesOf(future) \cup {Present}
  /\ EntriesOf(future') \subseteq EntriesOf(past) \cup EntriesOf(future) \cup {Present}
  /\ metadata' = Detached <=> metadata = Detached
  /\ metadata' = metadata \/ metaBase' = metaBase

LEMMA PresentIsAnEntry == TypeOK => Present \in Entries
  BY SessionAssumption DEF TypeOK, Present, Entries, Drafts, Metadata

(* The history takes one entry more, and drops its oldest when it is full.  *)
LEMMA BoundedAppend ==
  ASSUME NEW entries \in Seq(Entries), NEW entry \in Entries
  PROVE  /\ Bounded(Append(entries, entry)) \in Seq(Entries)
         /\ EntriesOf(Bounded(Append(entries, entry))) \subseteq EntriesOf(entries) \cup {entry}
<1> DEFINE longer == Append(entries, entry)
<1>1. longer \in Seq(Entries) /\ longer # <<>> /\ EntriesOf(longer) \subseteq EntriesOf(entries) \cup {entry}
  BY DEF EntriesOf
<1>2. Tail(longer) \in Seq(Entries) /\ EntriesOf(Tail(longer)) \subseteq EntriesOf(longer)
  <2> HIDE DEF longer
  <2> QED BY <1>1 DEF EntriesOf
<1>3. /\ Bounded(longer) \in Seq(Entries)
      /\ EntriesOf(Bounded(longer)) \subseteq EntriesOf(entries) \cup {entry}
  <2> HIDE DEF longer
  <2> QED BY <1>1, <1>2 DEF Bounded
<1> QED BY <1>3

LEMMA PrefixOfEntries ==
  ASSUME NEW entries \in Seq(Entries), NEW n \in 0 .. Len(entries)
  PROVE  /\ SubSeq(entries, 1, n - 1) \in Seq(Entries)
         /\ EntriesOf(SubSeq(entries, 1, n - 1)) \subseteq EntriesOf(entries)
  BY DEF EntriesOf

LEMMA InitHolds == Init => SInv
<1> SUFFICES ASSUME Init PROVE SInv
  OBVIOUS
<1> USE DEF Init
<1>1. view \in Views
  BY DEF Current, Views
<1>2. past \in Seq(Entries) /\ future \in Seq(Entries)
  OBVIOUS
<1>3. TypeOK
  BY <1>1, <1>2 DEF TypeOK
<1>4. TicketInv
  BY DEF TicketInv
<1> QED BY <1>3, <1>4 DEF SInv

(* An accepted edit: the same document and nothing new, or a new revision   *)
(* of another document.                                                     *)
LEMMA CommitTypes ==
  ASSUME TypeOK, NEW body \in Bodies, NEW meta \in Drafts, Commit(body, meta),
         meta = Detached <=> metadata = Detached
  PROVE  /\ content' \in Bodies /\ metadata' \in Drafts /\ revision' \in Nat
         /\ dirty' \in [body : BOOLEAN, document : BOOLEAN]
         /\ past' \in Seq(Entries) /\ future' \in Seq(Entries)
         /\ shown' \in [undo : Nat, redo : Nat]
         /\ EntriesOf(past') \subseteq EntriesOf(past) \cup EntriesOf(future) \cup {Present}
         /\ EntriesOf(future') \subseteq EntriesOf(past) \cup EntriesOf(future) \cup {Present}
         /\ metadata' = Detached <=> metadata = Detached
         /\ IF content' = content /\ metadata' = metadata
              THEN revision' = revision ELSE revision' = revision + 1
<1>1. CASE body = content /\ meta = metadata
  BY <1>1 DEF Commit, TypeOK, draft
<1>2. CASE ~(body = content /\ meta = metadata)
  <2>1. /\ revision' = revision + 1 /\ content' = body /\ metadata' = meta
        /\ Record /\ ShowHistory /\ WithDirty(baseline, metaBase)
    BY <1>2 DEF Commit
  <2>2. past' \in Seq(Entries) /\ EntriesOf(past') \subseteq EntriesOf(past) \cup {Present}
    BY <2>1, PresentIsAnEntry, BoundedAppend DEF Record, TypeOK
  <2>3. future' = <<>> /\ EntriesOf(future') = {}
    BY <2>1 DEF Record, EntriesOf
  <2>4. shown' \in [undo : Nat, redo : Nat]
    BY <2>1, <2>2, <2>3 DEF ShowHistory
  <2> QED BY <1>2, <2>1, <2>2, <2>3, <2>4 DEF WithDirty, TypeOK
<1> QED BY <1>1, <1>2

LEMMA PatchedIsMetadata ==
  ASSUME TypeOK, metadata # Detached, NEW fields \in [Fields -> Values]
  PROVE  Patched(fields) \in Metadata /\ Patched(fields) # Detached
  BY SessionAssumption DEF TypeOK, Drafts, Metadata, Patched

-----------------------------------------------------------------------------
(* Every edit, undo and redo.                                              *)

Edited == \E body \in Bodies, meta \in Drafts :
            Commit(body, meta) /\ (meta = Detached <=> metadata = Detached)

LEMMA EditsAreCommits ==
  ASSUME TypeOK, NEW seen,
         Transact(seen) \/ ApplyMetadata(seen) \/ TransactDocument(seen)
  PROVE  Edited /\ UNCHANGED <<store, preparing, closed, view>>
<1>1. CASE Transact(seen)
  BY <1>1 DEF Transact, Edited, TypeOK
<1>2. CASE ApplyMetadata(seen)
  BY <1>2, PatchedIsMetadata DEF ApplyMetadata, Edited, TypeOK, Drafts
<1>3. CASE TransactDocument(seen)
  BY <1>3, PatchedIsMetadata DEF TransactDocument, Edited, TypeOK, Drafts
<1> QED BY <1>1, <1>2, <1>3

LEMMA EditPreserves ==
  ASSUME SInv, Edited, UNCHANGED <<store, preparing, closed, view>>
  PROVE  /\ SInv' /\ Ordinary
         /\ IF content' = content /\ metadata' = metadata
              THEN revision' = revision ELSE revision' = revision + 1
<1> USE DEF SInv, store
<1>1. PICK body \in Bodies, meta \in Drafts :
        Commit(body, meta) /\ (meta = Detached <=> metadata = Detached)
  BY DEF Edited
<1> HIDE DEF Edited
<1>2. TypeOK'
  BY <1>1, CommitTypes DEF TypeOK
<1>3. TicketInv'
  BY DEF TicketInv
<1>4. Ordinary
  BY <1>1, CommitTypes DEF Ordinary
<1> QED BY <1>1, <1>2, <1>3, <1>4, CommitTypes

(* What the three restorations of an entry have in common.                  *)
LEMMA RestoreTypes ==
  ASSUME TypeOK, NEW entry \in Entries, Restore(entry), ~Equivalent(entry),
         past' \in Seq(Entries), future' \in Seq(Entries)
  PROVE  /\ content' \in Bodies /\ metadata' \in Drafts /\ revision' = revision + 1
         /\ dirty' \in [body : BOOLEAN, document : BOOLEAN]
         /\ shown' \in [undo : Nat, redo : Nat]
         /\ metadata' = Detached <=> metadata = Detached
         /\ ~(content' = content /\ metadata' = metadata)
<1>1. Restored(entry) \in Drafts /\ (Restored(entry) = Detached <=> metadata = Detached)
  BY PatchedIsMetadata DEF Restored, TypeOK, Drafts, Entries
<1>2. content' = entry.body /\ metadata' = Restored(entry) /\ revision' = revision + 1
  BY DEF Restore
<1>3. shown' \in [undo : Nat, redo : Nat]
  BY DEF Restore, ShowHistory
<1>4. dirty' \in [body : BOOLEAN, document : BOOLEAN]
  BY DEF Restore, WithDirty
<1> QED BY <1>1, <1>2, <1>3, <1>4 DEF Entries, Equivalent

LEMMA UndoPreserves ==
  ASSUME SInv, NEW seen, Undo(seen)
  PROVE  /\ SInv' /\ Ordinary /\ UNCHANGED <<store, closed>>
         /\ IF content' = content /\ metadata' = metadata
              THEN revision' = revision ELSE revision' = revision + 1
<1> USE DEF SInv, store
<1>1. PICK n \in 0 .. Len(past) :
       /\ Skips(past, n)
       /\ past' = SubSeq(past, 1, n - 1)
       /\ future' = IF n = 0 THEN future ELSE Bounded(Append(future, Present))
       /\ IF n = 0 THEN NothingToRestore ELSE Restore(past[n])
  BY DEF Undo
<1>2. UNCHANGED <<store, preparing, closed, view>>
  BY DEF Undo
<1>3. past' \in Seq(Entries) /\ EntriesOf(past') \subseteq EntriesOf(past)
  BY <1>1, PrefixOfEntries DEF TypeOK
<1>4. future' \in Seq(Entries) /\ EntriesOf(future') \subseteq EntriesOf(future) \cup {Present}
  BY <1>1, PresentIsAnEntry, BoundedAppend DEF TypeOK
<1>5. TicketInv'
  BY <1>2 DEF TicketInv
<1>6. CASE n = 0
  <2>1. NothingToRestore
    BY <1>1, <1>6
  <2>2. shown' \in [undo : Nat, redo : Nat]
    BY <1>3, <1>4, <2>1 DEF NothingToRestore, ShowHistory
  <2>3. TypeOK'
    BY <1>2, <1>3, <1>4, <2>1, <2>2 DEF NothingToRestore, TypeOK
  <2> QED BY <1>2, <1>3, <1>4, <1>5, <2>1, <2>3 DEF NothingToRestore, Ordinary
<1>7. CASE n # 0
  <2>1. past[n] \in Entries /\ ~Equivalent(past[n]) /\ Restore(past[n])
    BY <1>1, <1>7 DEF Skips, TypeOK
  <2>2. TypeOK'
    BY <1>2, <1>3, <1>4, <2>1, RestoreTypes DEF TypeOK
  <2> QED BY <1>2, <1>3, <1>4, <1>5, <2>1, <2>2, RestoreTypes DEF Ordinary
<1> QED BY <1>6, <1>7

LEMMA RedoPreserves ==
  ASSUME SInv, NEW seen, Redo(seen)
  PROVE  /\ SInv' /\ Ordinary /\ UNCHANGED <<store, closed>>
         /\ IF content' = content /\ metadata' = metadata
              THEN revision' = revision ELSE revision' = revision + 1
<1> USE DEF SInv, store
<1>1. PICK n \in 0 .. Len(future) :
       /\ Skips(future, n)
       /\ future' = SubSeq(future, 1, n - 1)
       /\ past' = IF n = 0 THEN past ELSE Bounded(Append(past, Present))
       /\ IF n = 0 THEN NothingToRestore ELSE Restore(future[n])
  BY DEF Redo
<1>2. UNCHANGED <<store, preparing, closed, view>>
  BY DEF Redo
<1>3. future' \in Seq(Entries) /\ EntriesOf(future') \subseteq EntriesOf(future)
  BY <1>1, PrefixOfEntries DEF TypeOK
<1>4. past' \in Seq(Entries) /\ EntriesOf(past') \subseteq EntriesOf(past) \cup {Present}
  BY <1>1, PresentIsAnEntry, BoundedAppend DEF TypeOK
<1>5. TicketInv'
  BY <1>2 DEF TicketInv
<1>6. CASE n = 0
  <2>1. NothingToRestore
    BY <1>1, <1>6
  <2>2. shown' \in [undo : Nat, redo : Nat]
    BY <1>3, <1>4, <2>1 DEF NothingToRestore, ShowHistory
  <2>3. TypeOK'
    BY <1>2, <1>3, <1>4, <2>1, <2>2 DEF NothingToRestore, TypeOK
  <2> QED BY <1>2, <1>3, <1>4, <1>5, <2>1, <2>3 DEF NothingToRestore, Ordinary
<1>7. CASE n # 0
  <2>1. future[n] \in Entries /\ ~Equivalent(future[n]) /\ Restore(future[n])
    BY <1>1, <1>7 DEF Skips, TypeOK
  <2>2. TypeOK'
    BY <1>2, <1>3, <1>4, <2>1, RestoreTypes DEF TypeOK
  <2> QED BY <1>2, <1>3, <1>4, <1>5, <2>1, <2>2, RestoreTypes DEF Ordinary
<1> QED BY <1>6, <1>7

-----------------------------------------------------------------------------
(* Reports of the host and of the disk.                                    *)

LEMMA StorageVersionPreserves ==
  ASSUME SInv, NEW seen, ReconcileStorageVersion(seen)
  PROVE  SInv' /\ Ordinary
<1> USE DEF SInv, ReconcileStorageVersion, NewRevision, NotSaving
<1>1. identity' \in Identities
  BY DEF TypeOK, Identities
<1>2. TypeOK' /\ TicketInv'
  BY <1>1 DEF TypeOK, TicketInv
<1> QED BY <1>2 DEF Ordinary

LEMMA ProjectBindingPreserves ==
  ASSUME SInv, ReconcileProjectBinding
  PROVE  SInv' /\ Ordinary
<1> USE DEF SInv, ReconcileProjectBinding, NewRevision, NotSaving
<1>1. identity' \in Identities
  BY DEF TypeOK, Identities
<1>2. TypeOK' /\ TicketInv'
  BY <1>1 DEF TypeOK, TicketInv
<1> QED BY <1>2 DEF Ordinary

(* A rebased history has its entries, bodies and attachments where they     *)
(* were; a field is the disk's if the disk changed it and else the old one. *)
LEMMA RebasedEntries ==
  ASSUME NEW entries \in Seq(Entries), NEW source \in Metadata
  PROVE  /\ Rebased(entries, source) \in Seq(Entries)
         /\ DOMAIN Rebased(entries, source) = DOMAIN entries
         /\ \A i \in DOMAIN entries :
              IF entries[i].fields = Detached
                THEN Rebased(entries, source)[i] = entries[i]
                ELSE \A f \in Fields : Rebased(entries, source)[i].fields[f] =
                       IF source.fields[f] # metadata.fields[f]
                         THEN source.fields[f] ELSE entries[i].fields[f]
<1> DEFINE accepted(fields) ==
             [f \in Fields |-> IF source.fields[f] # metadata.fields[f]
                                 THEN source.fields[f] ELSE fields[f]]
           rebased(i) == IF entries[i].fields = Detached THEN entries[i]
                         ELSE [entries[i] EXCEPT !.fields = accepted(entries[i].fields)]
<1>1. Rebased(entries, source) = [i \in DOMAIN entries |-> rebased(i)]
  BY DEF Rebased
<1>2. ASSUME NEW i \in DOMAIN entries
      PROVE  /\ rebased(i) \in Entries
             /\ IF entries[i].fields = Detached THEN rebased(i) = entries[i]
                ELSE rebased(i).fields = accepted(entries[i].fields)
  <2>1. entries[i] \in Entries
    OBVIOUS
  <2>2. entries[i].fields # Detached => accepted(entries[i].fields) \in [Fields -> Values]
    BY <2>1 DEF Entries, Metadata
  <2> HIDE DEF accepted
  <2> QED BY <2>1, <2>2 DEF Entries
<1>3. DOMAIN entries = 1 .. Len(entries) /\ Len(entries) \in Nat
  OBVIOUS
<1> HIDE DEF rebased
<1>4. Rebased(entries, source) \in [1 .. Len(entries) -> Entries]
  <2>1. \A i \in DOMAIN entries : rebased(i) \in Entries
    BY <1>2
  <2> QED BY <1>1, <1>3, <2>1
<1>5. Rebased(entries, source) \in Seq(Entries)
  BY <1>3, <1>4
<1>6. ASSUME NEW i \in DOMAIN entries, entries[i].fields # Detached, NEW f \in Fields
      PROVE  Rebased(entries, source)[i].fields[f] =
               IF source.fields[f] # metadata.fields[f]
                 THEN source.fields[f] ELSE entries[i].fields[f]
  <2>1. Rebased(entries, source)[i].fields = accepted(entries[i].fields)
    BY <1>1, <1>2, <1>6
  <2> QED BY <2>1, <1>6
<1>7. \A i \in DOMAIN entries :
        entries[i].fields = Detached => Rebased(entries, source)[i] = entries[i]
  BY <1>1, <1>2
<1>8. DOMAIN Rebased(entries, source) = DOMAIN entries
  BY <1>1
<1> QED BY <1>5, <1>6, <1>7, <1>8

LEMMA MetadataPreserves ==
  ASSUME SInv, ReconcileMetadata
  PROVE  /\ SInv' /\ metadata' # metadata /\ metadata' # Detached /\ metadata' = metaBase'
         /\ metadata # Detached => metaBase' # metaBase /\ metadata = metaBase /\ ~SavingMetadata
<1> USE DEF SInv
<1>1. PICK source \in Metadata :
       /\ \/ /\ metadata = Detached
             /\ UNCHANGED <<past, future>>
          \/ /\ metadata # Detached
             /\ ~Acknowledges(source)
             /\ MayReplaceMetadata
             /\ past' = Rebased(past, source)
             /\ future' = Rebased(future, source)
       /\ metadata' = source
       /\ metaBase' = source
  BY DEF ReconcileMetadata
<1>2. /\ NewRevision /\ ShowHistory /\ UNCHANGED <<content, baseline>>
      /\ WithDirty(baseline', metaBase')
      /\ UNCHANGED <<identity, pending, saving, preparing, closed, view>>
  BY DEF ReconcileMetadata
<1>3. past' \in Seq(Entries) /\ future' \in Seq(Entries)
  BY <1>1, RebasedEntries DEF TypeOK
<1>4. shown' \in [undo : Nat, redo : Nat]
  BY <1>2, <1>3 DEF ShowHistory
<1>5. TypeOK'
  BY <1>1, <1>2, <1>3, <1>4 DEF TypeOK, NewRevision, WithDirty, Drafts
<1>6. TicketInv'
  BY <1>2 DEF TicketInv
<1>7. metadata' # metadata
  BY <1>1, SessionAssumption DEF Acknowledges, MayReplaceMetadata
<1> QED BY <1>1, <1>5, <1>6, <1>7, SessionAssumption DEF MayReplaceMetadata, Acknowledges

-----------------------------------------------------------------------------
(* Saving.                                                                 *)

LEMMA PreparePreserves ==
  ASSUME SInv, Read \/ PrepareSave \/ SaveRefused
  PROVE  SInv' /\ Ordinary /\ UNCHANGED <<draft, store, closed>>
<1> USE DEF SInv, Read, PrepareSave, SaveRefused, NotSaving, draft, store
<1>1. view' \in Views
  BY DEF TypeOK, Current, Views
<1>2. TypeOK' /\ TicketInv'
  BY <1>1 DEF TypeOK, TicketInv
<1> QED BY <1>2 DEF Ordinary

LEMMA BeginSavePreserves ==
  ASSUME SInv, BeginSave
  PROVE  /\ SInv' /\ Ordinary /\ pending = NoTicket
         /\ IF content' = content /\ metadata' = metadata
              THEN revision' = revision ELSE revision' = revision + 1
         /\ UNCHANGED <<baseline, metaBase>>
<1> USE DEF SInv
<1>1. PICK body \in Bodies : Commit(body, metadata)
  BY DEF BeginSave
<1>2. metadata \in Drafts
  BY DEF TypeOK
<1>3. UNCHANGED <<baseline, metaBase, identity, closed, view>> /\ preparing' = Idle
  BY DEF BeginSave
<1>4. /\ content' \in Bodies /\ metadata' \in Drafts /\ revision' \in Nat
      /\ dirty' \in [body : BOOLEAN, document : BOOLEAN]
      /\ past' \in Seq(Entries) /\ future' \in Seq(Entries)
      /\ shown' \in [undo : Nat, redo : Nat]
      /\ IF content' = content /\ metadata' = metadata
           THEN revision' = revision ELSE revision' = revision + 1
  BY <1>1, <1>2, CommitTypes
<1>5. Ordinary
  BY <1>1, <1>2, <1>3, CommitTypes DEF Ordinary
<1>6. pending = NoTicket /\ saving = FALSE
  BY DEF BeginSave, TicketInv, TypeOK
<1> DEFINE ticket == [content  |-> content',  baseline |-> baseline,
                      metadata |-> metadata, metaBase |-> metaBase,
                      identity |-> identity, revision |-> revision']
<1>7. ticket \in Tickets /\ ticket # NoTicket /\ ticket.identity = identity
  BY <1>4, TicketAssumption DEF TypeOK, Tickets
<1>8. UNCHANGED <<pending, saving>> \/ (pending' = ticket /\ saving' = TRUE)
  BY DEF BeginSave
<1> HIDE DEF ticket
<1>9. TypeOK'
  BY <1>3, <1>4, <1>6, <1>7, <1>8 DEF TypeOK
<1>10. TicketInv'
  BY <1>3, <1>6, <1>7, <1>8 DEF TicketInv
<1> QED BY <1>3, <1>4, <1>5, <1>6, <1>9, <1>10

(* However a save ends, only baseline, storage version and flags move.      *)
LEMMA SaveEndPreserves ==
  ASSUME SInv, pending # NoTicket, SaveEnded,
         baseline' \in {baseline, pending.content},
         metaBase' = metaBase \/ (SavingMetadata /\ metaBase' = pending.metadata),
         WithDirty(baseline', metaBase') \/ UNCHANGED dirty,
         identity' \in Identities, identity'.target = identity.target
  PROVE  SInv' /\ Ordinary
<1> USE DEF SInv
<1>1. pending \in Tickets
  BY DEF TypeOK
<1>2. dirty' \in [body : BOOLEAN, document : BOOLEAN]
  <2>1. CASE WithDirty(baseline', metaBase')
    BY <2>1 DEF WithDirty
  <2>2. CASE UNCHANGED dirty
    BY <2>2 DEF TypeOK
  <2> QED BY <2>1, <2>2
<1>3. TypeOK'
  BY <1>1, <1>2 DEF TypeOK, SaveEnded, Tickets
<1>4. TicketInv'
  BY DEF TicketInv, SaveEnded
<1> QED BY <1>3, <1>4 DEF Ordinary, SaveEnded

Ended ==
  \/ \E receipt \in Identities : SaveSucceeds(receipt) \/ SaveMisdirected(receipt)
  \/ \E body, meta \in BOOLEAN : SaveFails(body, meta)

LEMMA EndedSaves ==
  ASSUME SInv, Ended
  PROVE  /\ pending # NoTicket /\ SaveEnded
         /\ baseline' \in {baseline, pending.content}
         /\ metaBase' = metaBase \/ (SavingMetadata /\ metaBase' = pending.metadata)
         /\ WithDirty(baseline', metaBase') \/ UNCHANGED dirty
         /\ identity' \in Identities /\ identity'.target = identity.target
<1> USE DEF SInv
<1>1. CASE \E receipt \in Identities : SaveSucceeds(receipt)
  <2>1. PICK receipt \in Identities : SaveSucceeds(receipt)
    BY <1>1
  <2>2. identity' = receipt /\ receipt.target = identity.target /\ pending # NoTicket
    BY <2>1 DEF SaveSucceeds, SameTarget, TicketInv
  <2>3. baseline' = pending.content
        /\ (metaBase' = metaBase \/ (SavingMetadata /\ metaBase' = pending.metadata))
    BY <2>1 DEF SaveSucceeds, Advance
  <2>4. SaveEnded /\ WithDirty(baseline', metaBase')
    BY <2>1 DEF SaveSucceeds
  <2> QED BY <2>2, <2>3, <2>4
<1>2. CASE \E receipt \in Identities : SaveMisdirected(receipt)
  <2>1. pending # NoTicket /\ SaveEnded /\ UNCHANGED <<identity, baseline, metaBase, dirty>>
    BY <1>2 DEF SaveMisdirected
  <2> QED BY <2>1 DEF TypeOK
<1>3. CASE \E body, meta \in BOOLEAN : SaveFails(body, meta)
  <2>1. PICK body \in BOOLEAN, meta \in BOOLEAN : SaveFails(body, meta)
    BY <1>3
  <2>2. pending # NoTicket /\ SaveEnded /\ WithDirty(baseline', metaBase') /\ UNCHANGED identity
    BY <2>1 DEF SaveFails
  <2>3. baseline' \in {baseline, pending.content}
        /\ (metaBase' = metaBase \/ (SavingMetadata /\ metaBase' = pending.metadata))
    BY <2>1 DEF SaveFails, Advance
  <2> QED BY <2>2, <2>3 DEF TypeOK
<1> QED BY <1>1, <1>2, <1>3 DEF Ended

LEMMA ClosePreserves ==
  ASSUME SInv, Close
  PROVE  SInv' /\ Ordinary
<1> USE DEF SInv, Close
<1>1. shown' \in [undo : Nat, redo : Nat]
  BY DEF ShowHistory
<1>2. past' \in Seq(Entries) /\ future' \in Seq(Entries)
  OBVIOUS
<1>3. TypeOK'
  BY <1>1, <1>2 DEF TypeOK
<1>4. TicketInv'
  BY DEF TicketInv
<1> QED BY <1>3, <1>4 DEF Ordinary, EntriesOf

-----------------------------------------------------------------------------
(* The program.                                                            *)

LEMMA NextPreserves ==
  ASSUME SInv, Next
  PROVE  SInv' /\ (Ordinary \/ ReconcileMetadata)
<1>1. ASSUME NEW seen \in {Current, view},
             \/ Transact(seen) \/ ApplyMetadata(seen) \/ TransactDocument(seen)
             \/ Undo(seen) \/ Redo(seen)
             \/ ReconcileStorageVersion(seen)
      PROVE  SInv' /\ Ordinary
  BY <1>1, EditsAreCommits, EditPreserves, UndoPreserves, RedoPreserves, StorageVersionPreserves
     DEF SInv
<1>2. Ended => SInv' /\ Ordinary
  BY EndedSaves, SaveEndPreserves
<1> QED BY <1>1, <1>2, ProjectBindingPreserves, MetadataPreserves, PreparePreserves,
           BeginSavePreserves, ClosePreserves DEF Next, Ended

LEMMA StutterPreserves == SInv /\ UNCHANGED vars => SInv'
  BY DEF SInv, TypeOK, TicketInv, vars, draft, store

(* Every variable of the session has its type, a ticket is pending exactly  *)
(* while the session shows that it saves, never while another save is being *)
(* prepared, and the identity a ticket took with it stays the document's:   *)
(* beginSave, completeSave, failSave and the guards of the two reconcile    *)
(* functions, in any order.                                                 *)
THEOREM SessionInvariant == Spec => []SInv
<1>1. SInv /\ [Next]_vars => SInv'
  BY NextPreserves, StutterPreserves
<1> QED BY <1>1, InitHolds, PTL DEF Spec

(* A step is the end of a save, the beginning of one, a close, a report of  *)
(* the disk, or it leaves both baselines and the ticket alone.              *)
LEMMA BaselineSteps ==
  ASSUME Next
  PROVE  \/ Ended \/ BeginSave \/ Close \/ ReconcileMetadata
         \/ UNCHANGED <<baseline, metaBase, pending>>
<1>1. ASSUME NEW seen \in {Current, view},
             \/ Transact(seen) \/ ApplyMetadata(seen) \/ TransactDocument(seen)
             \/ Undo(seen) \/ Redo(seen)
             \/ ReconcileStorageVersion(seen)
      PROVE  UNCHANGED <<baseline, metaBase, pending>>
  BY <1>1 DEF Transact, ApplyMetadata, TransactDocument, Undo, Redo, ReconcileStorageVersion, store
<1>2. ReconcileProjectBinding \/ Read \/ PrepareSave \/ SaveRefused
        => UNCHANGED <<baseline, metaBase, pending>>
  BY DEF ReconcileProjectBinding, Read, PrepareSave, SaveRefused, store
<1> QED BY <1>1, <1>2 DEF Next, Ended

LEMMA AttachPreserves ==
  ASSUME SInv, AttachInv, Next
  PROVE  AttachInv'
<1>1. Ended => AttachInv'
  BY EndedSaves, SaveEndPreserves DEF AttachInv, SaveEnded, SavingMetadata
<1>2. ASSUME BeginSave PROVE AttachInv'
  <2>1. /\ metadata' = Detached <=> metadata = Detached
        /\ pending = NoTicket /\ metaBase' = metaBase
    BY <1>2, BeginSavePreserves DEF Ordinary
  <2>2. pending' = pending \/ pending'.metadata = metadata
    BY <1>2 DEF BeginSave
  <2> QED BY <2>1, <2>2 DEF AttachInv
<1>3. Close => AttachInv'
  BY DEF Close, AttachInv
<1>4. ReconcileMetadata => AttachInv'
  BY MetadataPreserves DEF AttachInv
<1>5. Ordinary /\ UNCHANGED <<baseline, metaBase, pending>> => AttachInv'
  BY DEF AttachInv, Ordinary
<1> QED BY <1>1, <1>2, <1>3, <1>4, <1>5, BaselineSteps, NextPreserves

LEMMA AttachInvariant == Spec => []AttachInv
<1>1. Init => AttachInv
  BY DEF Init, AttachInv
<1>2. SInv /\ AttachInv /\ [Next]_vars => AttachInv'
  BY AttachPreserves DEF AttachInv, vars, draft, store
<1> QED BY <1>1, <1>2, SessionInvariant, PTL DEF Spec

(* A baseline moves to what the ticket carried, or, for the metadata, to    *)
(* what the disk held while there was no draft of it to protect: it is      *)
(* never the draft as it has become since the save began.                   *)
THEOREM BaselineAlwaysMovesByReceipt == Spec => BaselineMovesByReceipt
<1> DEFINE Step ==
      /\ baseline' # baseline => pending # NoTicket /\ baseline' = pending.content
      /\ metaBase' # metaBase =>
           \/ SavingMetadata /\ metaBase' = pending.metadata /\ metadata' = metadata
           \/ metadata = metaBase /\ metadata' = metaBase' /\ ~SavingMetadata
<1>1. SInv /\ AttachInv /\ [Next]_vars => [Step]_vars
  <2> SUFFICES ASSUME SInv, AttachInv, Next PROVE Step
    OBVIOUS
  <2>1. Ended => Step
    BY EndedSaves DEF SaveEnded
  <2>2. ReconcileMetadata => Step
    BY MetadataPreserves DEF ReconcileMetadata, AttachInv, SavingMetadata
  <2>3. BeginSave \/ Close => UNCHANGED <<baseline, metaBase>>
    BY DEF BeginSave, Close
  <2> QED BY <2>1, <2>2, <2>3, BaselineSteps
<1> QED BY <1>1, SessionInvariant, AttachInvariant, PTL DEF Spec, BaselineMovesByReceipt

-----------------------------------------------------------------------------
(* The contract.                                                           *)

ContractDocument == [body |-> content, metadata |-> metadata]

(* Every call is a step its callers were promised, or invisible to them.    *)
LEMMA ContractStep ==
  ASSUME SInv, Next
  PROVE  [Contract!ContractNext]_(Contract!contractVars)
<1> USE DEF SInv
<1>1. SInv'
  BY NextPreserves
<1>2. /\ ContractDocument' \in [body : Bodies, metadata : Drafts]
      /\ identity \in Identities /\ identity' \in Identities /\ revision \in Nat
  BY <1>1 DEF TypeOK, ContractDocument
<1>3. ASSUME UNCHANGED <<store, closed>>, ~closed,
             IF content' = content /\ metadata' = metadata
               THEN revision' = revision ELSE revision' = revision + 1
      PROVE  [Contract!ContractNext]_(Contract!contractVars)
  <2>1. CASE content' = content /\ metadata' = metadata
    BY <1>3, <2>1 DEF store, Contract!contractVars
  <2>2. CASE ~(content' = content /\ metadata' = metadata)
    <3>1. ContractDocument' # ContractDocument
      BY <2>2 DEF ContractDocument
    <3>2. Contract!Change
      BY <1>2, <1>3, <2>2, <3>1 DEF store, Contract!Change, ContractDocument
    <3> QED BY <3>2 DEF Contract!ContractNext
  <2> QED BY <2>1, <2>2
<1>4. ASSUME NEW seen \in {Current, view},
             \/ Transact(seen) \/ ApplyMetadata(seen) \/ TransactDocument(seen)
             \/ Undo(seen) \/ Redo(seen)
      PROVE  [Contract!ContractNext]_(Contract!contractVars)
  <2>1. ~closed
    BY <1>4 DEF Transact, ApplyMetadata, TransactDocument, Undo, Redo, CheckEdit
  <2>2. UNCHANGED <<store, closed>>
        /\ IF content' = content /\ metadata' = metadata
             THEN revision' = revision ELSE revision' = revision + 1
    BY <1>4, EditsAreCommits, EditPreserves, UndoPreserves, RedoPreserves
  <2> QED BY <1>3, <2>1, <2>2
<1>5. ASSUME ReconcileProjectBinding \/ \E seen \in {Current, view} : ReconcileStorageVersion(seen)
      PROVE  [Contract!ContractNext]_(Contract!contractVars)
  <2>1. Contract!Rebind
    BY <1>2, <1>5 DEF ReconcileProjectBinding, ReconcileStorageVersion, NewRevision, NotSaving,
       TicketInv, TypeOK, Identities, Contract!Rebind, Contract!Identities
  <2> QED BY <2>1 DEF Contract!ContractNext
<1>6. ASSUME ReconcileMetadata
      PROVE  [Contract!ContractNext]_(Contract!contractVars)
  <2>1. ContractDocument' # ContractDocument
    BY <1>6, MetadataPreserves DEF ContractDocument
  <2>2. Contract!Change
    BY <1>2, <1>6, <2>1 DEF ReconcileMetadata, NewRevision, Contract!Change, ContractDocument
  <2> QED BY <2>2 DEF Contract!ContractNext
<1>7. ASSUME Read \/ PrepareSave \/ SaveRefused
      PROVE  [Contract!ContractNext]_(Contract!contractVars)
  BY <1>7, PreparePreserves DEF draft, store, Contract!contractVars
<1>8. ASSUME BeginSave
      PROVE  [Contract!ContractNext]_(Contract!contractVars)
  <2>1. /\ ~closed /\ UNCHANGED <<identity, baseline, metaBase, closed>>
        /\ UNCHANGED <<pending, saving>> \/ saving' = TRUE
    BY <1>8 DEF BeginSave
  <2>2. /\ pending = NoTicket
        /\ IF content' = content /\ metadata' = metadata
             THEN revision' = revision ELSE revision' = revision + 1
    BY <1>8, BeginSavePreserves
  <2>3. CASE UNCHANGED <<pending, saving>>
    BY <1>3, <2>1, <2>2, <2>3 DEF store
  <2>4. CASE saving' = TRUE
    <3>1. saving = FALSE
      BY <2>2 DEF TicketInv, TypeOK
    <3>2. Contract!Save
      BY <1>2, <2>1, <2>2, <2>4, <3>1 DEF Contract!Save, ContractDocument
    <3> QED BY <3>2 DEF Contract!ContractNext
  <2> QED BY <2>1, <2>3, <2>4
<1>9. ASSUME Ended
      PROVE  [Contract!ContractNext]_(Contract!contractVars)
  <2>1. Contract!Saved
    BY <1>2, <1>9, EndedSaves DEF SaveEnded, TicketInv, TypeOK, Identities,
       Contract!Saved, Contract!Identities
  <2> QED BY <2>1 DEF Contract!ContractNext
<1>10. ASSUME Close
       PROVE  [Contract!ContractNext]_(Contract!contractVars)
  BY <1>10 DEF Close, Contract!Close, Contract!ContractNext
<1> QED BY <1>4, <1>5, <1>6, <1>7, <1>8, <1>9, <1>10 DEF Next, Ended

(* The session implements what the editor, the agent's endpoint and the     *)
(* storage adapters were promised: a new document has a new revision, the   *)
(* project of a loaded document never changes, and the end of a save moves  *)
(* the storage version only.                                                *)
THEOREM SessionImplementsContract == Spec => ImplementsContract
<1>1. Init => Contract!ContractInit
  BY DEF Init, Identities, Contract!ContractInit, Contract!Identities
<1>2. SInv /\ [Next]_vars => [Contract!ContractNext]_(Contract!contractVars)
  <2>1. UNCHANGED vars => UNCHANGED Contract!contractVars
    BY DEF vars, draft, store, Contract!contractVars
  <2> QED BY <2>1, ContractStep
<1> QED BY <1>1, <1>2, SessionInvariant, PTL DEF Spec, ImplementsContract, Contract!ContractSpec

-----------------------------------------------------------------------------
(* Undo and the disk.                                                      *)

\* The fields of an entry are values they have had since the disk last changed them.
Lives(entry, alive) == entry.fields # Detached => \A f \in Fields : entry.fields[f] \in alive[f]

HistoryInv ==
  /\ metadata # Detached => Lives(Present, lived)
  /\ metadata = Detached => \A entry \in EntriesOf(past) \cup EntriesOf(future) :
                              entry.fields = Detached
  /\ \A entry \in EntriesOf(past) \cup EntriesOf(future) : Lives(entry, lived)

Remember ==
  lived' = IF metadata' = Detached THEN lived
           ELSE [f \in Fields |-> IF DiskChanged(f) THEN {metadata'.fields[f]}
                                  ELSE lived[f] \cup {metadata'.fields[f]}]

LEMMA OrdinaryKeepsHistory ==
  ASSUME SInv, HistoryInv, Ordinary, Remember
  PROVE  HistoryInv'
<1>1. \A f \in Fields : ~DiskChanged(f)
  BY DEF DiskChanged, Ordinary
<1>2. CASE metadata = Detached
  <2>1. metadata' = Detached /\ Present.fields = Detached
    BY <1>2 DEF Ordinary, Present
  <2>2. \A entry \in EntriesOf(past') \cup EntriesOf(future') : entry.fields = Detached
    BY <1>2, <2>1 DEF Ordinary, HistoryInv
  <2> QED BY <2>1, <2>2 DEF HistoryInv, Lives, EntriesOf
<1>3. CASE metadata # Detached
  <2>1. /\ metadata' # Detached
        /\ lived' = [f \in Fields |-> lived[f] \cup {metadata'.fields[f]}]
    BY <1>1, <1>3 DEF Ordinary, Remember
  <2>2. Lives(Present', lived')
    BY <2>1 DEF Lives, Present
  <2>3. ASSUME NEW entry \in EntriesOf(past) \cup EntriesOf(future) \cup {Present}
        PROVE  Lives(entry, lived')
    BY <1>3, <2>1 DEF HistoryInv, Lives
  <2>4. \A entry \in EntriesOf(past') \cup EntriesOf(future') : Lives(entry, lived')
    BY <2>3 DEF Ordinary
  <2> QED BY <2>1, <2>2, <2>4 DEF HistoryInv, EntriesOf
<1> QED BY <1>2, <1>3

LEMMA DiskKeepsHistory ==
  ASSUME SInv, HistoryInv, ReconcileMetadata, Remember
  PROVE  HistoryInv'
<1> USE DEF SInv
<1>1. PICK source \in Metadata :
       /\ \/ /\ metadata = Detached
             /\ UNCHANGED <<past, future>>
          \/ /\ metadata # Detached
             /\ past' = Rebased(past, source)
             /\ future' = Rebased(future, source)
       /\ metadata' = source
       /\ metaBase' = source
  BY DEF ReconcileMetadata
<1>2. metadata' # Detached /\ metadata' # metadata
  BY MetadataPreserves
<1>3. Lives(Present', lived')
  BY <1>2 DEF Remember, Lives, Present
<1>4. CASE metadata = Detached
  <2>1. \A entry \in EntriesOf(past') \cup EntriesOf(future') : entry.fields = Detached
    BY <1>1, <1>4 DEF HistoryInv, EntriesOf
  <2> QED BY <1>2, <1>3, <2>1 DEF HistoryInv, Lives, EntriesOf
<1>5. CASE metadata # Detached
  <2>1. metaBase' # metaBase
    BY <1>5, MetadataPreserves
  <2>2. lived' = [f \in Fields |-> IF source.fields[f] # metadata.fields[f]
                                   THEN {source.fields[f]} ELSE lived[f] \cup {source.fields[f]}]
    BY <1>1, <1>2, <1>5, <2>1 DEF Remember, DiskChanged
  <2>3. ASSUME NEW entries \in {past, future}, NEW i \in DOMAIN entries
        PROVE  Lives(Rebased(entries, source)[i], lived')
    <3>1. entries \in Seq(Entries)
      BY DEF TypeOK
    <3>2. Lives(entries[i], lived)
      BY DEF HistoryInv, EntriesOf
    <3>3. IF entries[i].fields = Detached
            THEN Rebased(entries, source)[i] = entries[i]
            ELSE \A f \in Fields : Rebased(entries, source)[i].fields[f] =
                   IF source.fields[f] # metadata.fields[f] THEN source.fields[f] ELSE entries[i].fields[f]
      BY <3>1, RebasedEntries
    <3>4. CASE entries[i].fields = Detached
      BY <3>3, <3>4 DEF Lives
    <3>5. CASE entries[i].fields # Detached
      BY <2>2, <3>2, <3>3, <3>5 DEF Lives
    <3> QED BY <3>4, <3>5
  <2>4. past \in Seq(Entries) /\ future \in Seq(Entries)
    BY DEF TypeOK
  <2>5. past' = Rebased(past, source) /\ future' = Rebased(future, source)
    BY <1>1, <1>5
  <2>6. \A entry \in EntriesOf(past') \cup EntriesOf(future') : Lives(entry, lived')
    BY <2>3, <2>4, <2>5, RebasedEntries DEF EntriesOf
  <2> QED BY <1>2, <1>3, <2>6 DEF HistoryInv, EntriesOf
<1> QED BY <1>4, <1>5

(* Undo and redo never bring back a value of a metadata field that the disk *)
(* has replaced since: Rebased, with everything that records an entry, for  *)
(* any length of the history.                                               *)
THEOREM UndoAlwaysRespectsDisk == MCSpec => []UndoRespectsDisk
<1>1. MCInit => SInv /\ HistoryInv
  <2> SUFFICES ASSUME MCInit PROVE HistoryInv
    BY InitHolds DEF MCInit
  <2>1. EntriesOf(past) = {} /\ EntriesOf(future) = {}
    BY DEF MCInit, Init, EntriesOf
  <2>2. metadata # Detached => Lives(Present, lived)
    BY DEF MCInit, Lives, Present
  <2> QED BY <2>1, <2>2 DEF HistoryInv
<1>2. SInv /\ HistoryInv /\ [MCNext]_<<vars, lived>> => SInv' /\ HistoryInv'
  <2>1. SInv /\ HistoryInv /\ MCNext => SInv' /\ HistoryInv'
    BY NextPreserves, OrdinaryKeepsHistory, DiskKeepsHistory DEF MCNext, Remember
  <2>2. SInv /\ HistoryInv /\ UNCHANGED <<vars, lived>> => SInv' /\ HistoryInv'
    BY StutterPreserves DEF vars, draft, HistoryInv, Present, Lives, EntriesOf
  <2> QED BY <2>1, <2>2
<1>3. SInv /\ HistoryInv => UndoRespectsDisk
  <2> SUFFICES ASSUME SInv, HistoryInv, NEW entries \in {past, future}, NEW i \in DOMAIN entries,
                      entries[i].fields # Detached
               PROVE  \A f \in Fields : entries[i].fields[f] \in lived[f]
    BY DEF UndoRespectsDisk, SInv
  <2>1. entries[i] \in EntriesOf(past) \cup EntriesOf(future)
    BY DEF EntriesOf
  <2> QED BY <2>1 DEF HistoryInv, Lives
<1> QED BY <1>1, <1>2, <1>3, PTL DEF MCSpec
===============================================================================
