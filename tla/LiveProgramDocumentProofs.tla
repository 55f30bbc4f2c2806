----------------------- MODULE LiveProgramDocumentProofs -----------------------
(***************************************************************************)
(* The agent's access to a live document, for any program, any number of   *)
(* turns, mounts and operations, and any calls, also repeated and late     *)
(* ones.                                                                   *)
(*                                                                         *)
(* The registry relies on four facts, each a part of the invariant.        *)
(* LedgerInv: an operation without a receipt has changed nothing, and a    *)
(* turn that has not begun has neither.  ReadsInv: what a scope has read   *)
(* at the current revision of its own mount is what the document is now.   *)
(* RowsInv and GrantsInv: a token names one row from its creation to its   *)
(* end, so a grant whose token is still current is about the same row.     *)
(***************************************************************************)
EXTENDS LiveProgramDocument, TLAPS

ReadReceipts ==
  [input : Calls, ok : {TRUE}, revision : Nat, document : Documents, session : Nat]
PendingReads == [input : Calls, stage : {"queued", "loading", "control"},
                 seen : ReadReceipts \cup {None}, first : BOOLEAN]
Mounts == [session : Nat, identity : Identities]
Grants == UNION {[granted -> Nat] : granted \in SUBSET Steps}
Scopes == [target : Mounts, mode : {"read", "edit"}, closed : BOOLEAN,
           grants : Grants, births : Grants]
Pins == [step : Steps, target : Mounts, token : Nat, birth : Nat]

Typed ==
  /\ ContractTypeOK
  /\ session \in 1 .. MaxSessions /\ sequence \in Nat
  /\ rows \in [Steps -> [token : Nat, removed : BOOLEAN]]
  /\ pins \subseteq Pins
  /\ scopes \in [Turns -> Scopes \cup {None}]
  /\ ledger \in [Turns -> [Ops -> Receipts \cup {None}]]
  /\ reads \in [Turns -> [Ops -> PendingReads \cup {None}]]
  /\ turn \in 0 .. MaxTurns /\ stopped \in BOOLEAN
  /\ results \in [Ops -> [turn : Turns, ok : BOOLEAN] \cup {None}]
  /\ deliveries \subseteq [turn : Turns, op : Ops, receipt : Receipts, first : BOOLEAN]
  /\ birth \in [Steps -> Nat] /\ applied \in [Turns -> [Ops -> Nat]]

\* Receipts stand for what was done: without one, nothing was.
IsTrue(receipt, changes) ==
  /\ changes <= 1
  /\ receipt # None =>
       /\ receipt.ok /\ "changed" \in DOMAIN receipt =>
            changes = IF receipt.changed THEN 1 ELSE 0
       /\ ~receipt.ok /\ receipt.application = "not_applied" => changes = 0

LedgerInv ==
  \A t \in Turns, o \in Ops :
    /\ IsTrue(ledger[t][o], applied[t][o])
    /\ t >= turn /\ ledger[t][o] = None => applied[t][o] = 0
    /\ t > turn => ledger[t][o] = None
    /\ reads[t][o] # None => t = turn /\ ledger[t][o] = None

\* What a scope has read: of its own mount, and still true at the same revision.
OfItsScope(t, receipt) == receipt.session = scopes[t].target.session
StillTrue(receipt) ==
  /\ receipt.session <= session
  /\ receipt.session = session =>
       receipt.revision <= revision /\ (receipt.revision = revision => receipt.document = document)

ReadsInv ==
  \A t \in Turns, o \in Ops :
    /\ IsRead(ledger[t][o]) => OfItsScope(t, ledger[t][o]) /\ StillTrue(ledger[t][o])
    /\ reads[t][o] # None /\ reads[t][o].stage # "queued" =>
         /\ reads[t][o].seen \in ReadReceipts
         /\ OfItsScope(t, reads[t][o].seen)

\* A token that is current belongs to a row that is there.
RowsInv ==
  \A s \in Steps : rows[s].token <= sequence /\ (~Fresh(s) => s \in document.rows)

\* A grant names a row by its token: if it is the row's still, so is its birth.
Names(s, token, born) ==
  token <= sequence /\ (~Fresh(s) /\ rows[s].token = token => birth[s] = born)

GrantsInv ==
  /\ \A pin \in pins : Names(pin.step, pin.token, pin.birth)
  /\ \A t \in Turns : scopes[t] # None =>
       /\ scopes[t].target.session <= session
       /\ DOMAIN scopes[t].births = DOMAIN scopes[t].grants
       /\ scopes[t].target.session = session =>
            \A s \in DOMAIN scopes[t].grants : Names(s, scopes[t].grants[s], scopes[t].births[s])

LInv == Typed /\ LedgerInv /\ ReadsInv /\ RowsInv /\ GrantsInv /\ ResultsAreOfTheTurn

-----------------------------------------------------------------------------
(* Receipts.                                                               *)

LEMMA TheTurn == ASSUME Typed, turn > 0 PROVE turn \in Turns
  BY BoundsAssumption DEF Typed, Turns

Refusals == [input : Calls, ok : {FALSE}, application : {"not_applied", "unknown"}]
EditReceipts == [input : Calls, ok : {TRUE}, changed : BOOLEAN]

LEMMA RefusalsAreNotOk == ASSUME NEW receipt \in Refusals PROVE ~receipt.ok
  BY DEF Refusals

LEMMA ReadsAreOk == ASSUME NEW receipt \in ReadReceipts PROVE receipt.ok
  BY DEF ReadReceipts

LEMMA ReadsDoNotChange ==
  ASSUME NEW receipt \in ReadReceipts PROVE "changed" \notin DOMAIN receipt
  BY DEF ReadReceipts

LEMMA EditsDoNotRead ==
  ASSUME NEW receipt \in EditReceipts PROVE "document" \notin DOMAIN receipt
  BY DEF EditReceipts

LEMMA Kinds == Receipts = Refusals \cup ReadReceipts \cup EditReceipts
  BY DEF Receipts, Refusals, ReadReceipts, EditReceipts

LEMMA ReadsAreReads ==
  ASSUME NEW receipt \in Receipts \cup {None}, IsRead(receipt)
  PROVE  receipt \in ReadReceipts
  BY Kinds, RefusalsAreNotOk, EditsDoNotRead DEF IsRead

LEMMA RefusalIsTrue ==
  ASSUME NEW input \in Calls
  PROVE  /\ Refusal(input) \in Receipts /\ ~IsRead(Refusal(input))
         /\ IsTrue(Refusal(input), 0)
<1>1. Refusal(input) \in Refusals
  BY DEF Refusal, Refusals
<1>2. ~Refusal(input).ok
  BY <1>1, RefusalsAreNotOk
<1> QED BY <1>1, <1>2, Kinds DEF IsRead, IsTrue

LEMMA UnknownIsTrue ==
  ASSUME NEW input \in Calls, NEW changes \in {0, 1}
  PROVE  /\ Unknown(input) \in Receipts /\ ~IsRead(Unknown(input))
         /\ IsTrue(Unknown(input), changes)
<1>1. Unknown(input) \in Refusals
  BY DEF Unknown, Refusals
<1>2. ~Unknown(input).ok
  BY <1>1, RefusalsAreNotOk
<1>3. Unknown(input).application = "unknown"
  BY DEF Unknown
<1> QED BY <1>1, <1>2, <1>3, Kinds DEF IsRead, IsTrue

LEMMA EditIsTrue ==
  ASSUME NEW input \in Calls
  PROVE  /\ \A changed \in BOOLEAN : /\ EditReceipt(input, changed) \in Receipts
                                     /\ ~IsRead(EditReceipt(input, changed))
         /\ IsTrue(EditReceipt(input, TRUE), 1)
         /\ IsTrue(EditReceipt(input, FALSE), 0)
<1>1. ASSUME NEW changed \in BOOLEAN
      PROVE  EditReceipt(input, changed) \in EditReceipts
  BY DEF EditReceipt, EditReceipts
<1>2. /\ EditReceipt(input, TRUE).ok /\ EditReceipt(input, TRUE).changed
      /\ EditReceipt(input, FALSE).ok /\ ~EditReceipt(input, FALSE).changed
  BY DEF EditReceipt
<1>3. \A changed \in BOOLEAN : "document" \notin DOMAIN EditReceipt(input, changed)
  BY <1>1, EditsDoNotRead
<1>4. 0 <= 1 /\ 1 <= 1
  OBVIOUS
<1>5. IsTrue(EditReceipt(input, TRUE), 1) /\ IsTrue(EditReceipt(input, FALSE), 0)
  BY <1>2, <1>4, Zenon DEF IsTrue
<1> QED BY <1>1, <1>3, <1>5, Kinds DEF IsRead

LEMMA ReadIsTrue ==
  ASSUME NEW receipt \in ReadReceipts
  PROVE  receipt \in Receipts /\ IsTrue(receipt, 0)
  BY ReadsAreOk, ReadsDoNotChange, Kinds DEF IsTrue

LEMMA ReadNow ==
  ASSUME Typed, NEW input \in Calls, NEW t \in Turns,
         scopes[t].target = Target
  PROVE  /\ ReadReceipt(input) \in ReadReceipts
         /\ OfItsScope(t, ReadReceipt(input)) /\ StillTrue(ReadReceipt(input))
  BY BoundsAssumption DEF Typed, ContractTypeOK, ReadReceipt, ReadReceipts, OfItsScope, StillTrue, Target

-----------------------------------------------------------------------------
(* What most steps have in common.                                         *)

\* The document goes on, at a new revision when it changes.
Grows == /\ session' = session /\ revision' >= revision
         /\ revision' = revision => document' = document

\* The scopes stay, or close: for the same target and with the same grants.
SameScopes ==
  \A t \in Turns :
    \/ scopes'[t] = scopes[t]
    \/ /\ scopes[t] # None
       /\ scopes'[t].target = scopes[t].target
       /\ scopes'[t].grants = scopes[t].grants
       /\ scopes'[t].births = scopes[t].births

\* A token that is current was before, for the same row, or is a new one.
RowsLast ==
  /\ sequence' \in Nat /\ sequence' >= sequence
  /\ \A s \in Steps :
       \/ Fresh(s)' \/ rows'[s].token > sequence
       \/ ~Fresh(s) /\ rows'[s].token = rows[s].token /\ birth'[s] = birth[s]

LEMMA ReadsStep ==
  ASSUME LInv, Typed', Grows, SameScopes,
         \A t \in Turns, o \in Ops :
           /\ \/ ledger'[t][o] = ledger[t][o]
              \/ ~IsRead(ledger'[t][o])
              \/ OfItsScope(t, ledger[t][o])' /\ StillTrue(ledger[t][o])'
           /\ \/ reads'[t][o] = reads[t][o]
              \/ reads'[t][o] = None \/ reads'[t][o].stage = "queued"
              \/ reads'[t][o].seen \in ReadReceipts /\ OfItsScope(t, reads[t][o].seen)'
  PROVE  ReadsInv'
<1> SUFFICES ASSUME NEW t \in Turns, NEW o \in Ops
             PROVE  /\ IsRead(ledger'[t][o]) => OfItsScope(t, ledger[t][o])' /\ StillTrue(ledger[t][o])'
                    /\ reads'[t][o] # None /\ reads'[t][o].stage # "queued" =>
                         reads'[t][o].seen \in ReadReceipts /\ OfItsScope(t, reads[t][o].seen)'
  BY DEF ReadsInv
<1>1. ASSUME IsRead(ledger'[t][o]), ledger'[t][o] = ledger[t][o]
      PROVE  OfItsScope(t, ledger[t][o])' /\ StillTrue(ledger[t][o])'
  <2>1. ledger[t][o] \in ReadReceipts
    BY <1>1, ReadsAreReads DEF LInv, Typed
  <2>2. OfItsScope(t, ledger[t][o]) /\ StillTrue(ledger[t][o])
    BY <1>1 DEF LInv, ReadsInv
  <2>3. ledger[t][o].revision \in Nat /\ revision \in Nat /\ revision' \in Nat
    BY <2>1 DEF LInv, Typed, ContractTypeOK, ReadReceipts
  <2>4. StillTrue(ledger[t][o])'
    BY <1>1, <2>2, <2>3 DEF StillTrue, Grows
  <2>5. OfItsScope(t, ledger[t][o])'
    BY <1>1, <2>2 DEF OfItsScope, SameScopes
  <2> QED BY <2>4, <2>5
<1>2. ASSUME reads'[t][o] # None, reads'[t][o].stage # "queued", reads'[t][o] = reads[t][o]
      PROVE  reads'[t][o].seen \in ReadReceipts /\ OfItsScope(t, reads[t][o].seen)'
  BY <1>2 DEF OfItsScope, SameScopes, LInv, ReadsInv
<1> QED BY <1>1, <1>2

LEMMA LedgerStep ==
  ASSUME LInv, NEW op \in Ops, NEW receipt \in Receipts, turn > 0, turn' = turn,
         ledger' = [ledger EXCEPT ![turn][op] = receipt],
         \A t \in Turns, o \in Ops : reads'[t][o] # None => reads[t][o] # None /\ ~(t = turn /\ o = op),
         \A t \in Turns, o \in Ops : ~(t = turn /\ o = op) => applied'[t][o] = applied[t][o],
         IsTrue(receipt, applied'[turn][op])
  PROVE  LedgerInv'
<1>1. turn \in Turns
  BY TheTurn DEF LInv
<1>2. ledger \in [Turns -> [Ops -> Receipts \cup {None}]]
  BY DEF LInv, Typed
<1>3. /\ ledger'[turn][op] = receipt
      /\ \A t \in Turns, o \in Ops : ~(t = turn /\ o = op) => ledger'[t][o] = ledger[t][o]
  BY <1>1, <1>2
<1>4. LedgerInv /\ Turns \subseteq Nat
  BY DEF LInv, Turns
<1> QED BY <1>1, <1>3, <1>4, NoneAssumption DEF LedgerInv

LEMMA SameLedger ==
  ASSUME LInv, UNCHANGED <<turn, ledger, applied>>,
         \A t \in Turns, o \in Ops : reads'[t][o] # None => t = turn /\ ledger[t][o] = None
  PROVE  LedgerInv'
  BY DEF LInv, LedgerInv

LEMMA NamesLast ==
  ASSUME Typed, RowsLast, NEW s \in Steps, NEW token \in Nat, NEW born, Names(s, token, born)
  PROVE  Names(s, token, born)'
<1>1. CASE Fresh(s)' \/ rows'[s].token > sequence
  BY <1>1 DEF Names, RowsLast, Typed
<1>2. CASE ~Fresh(s) /\ rows'[s].token = rows[s].token /\ birth'[s] = birth[s]
  BY <1>2 DEF Names, RowsLast, Typed
<1> QED BY <1>1, <1>2 DEF RowsLast

LEMMA GrantsAreTyped ==
  ASSUME Typed, NEW t \in Turns, scopes[t] # None
  PROVE  /\ scopes[t] \in Scopes
         /\ \A s \in DOMAIN scopes[t].grants : s \in Steps /\ scopes[t].grants[s] \in Nat
<1>1. scopes[t] \in Scopes
  BY DEF Typed
<1>2. PICK granted \in SUBSET Steps : scopes[t].grants \in [granted -> Nat]
  BY <1>1 DEF Scopes, Grants
<1> QED BY <1>1, <1>2

LEMMA GrantsStep ==
  ASSUME LInv, Typed', Grows, SameScopes, RowsLast,
         \A pin \in pins' : pin \in pins \/ Names(pin.step, pin.token, pin.birth)'
  PROVE  GrantsInv'
<1>1. ASSUME NEW pin \in pins'
      PROVE  Names(pin.step, pin.token, pin.birth)'
  <2>1. CASE pin \in pins
    <3>1. pin.step \in Steps /\ pin.token \in Nat /\ Names(pin.step, pin.token, pin.birth)
      BY <2>1 DEF LInv, Typed, Pins, GrantsInv
    <3> QED BY <3>1, NamesLast DEF LInv
  <2> QED BY <2>1
<1>2. ASSUME NEW t \in Turns, scopes'[t] # None
      PROVE  /\ scopes'[t].target.session <= session'
             /\ DOMAIN scopes'[t].births = DOMAIN scopes'[t].grants
             /\ scopes'[t].target.session = session' =>
                  \A s \in DOMAIN scopes'[t].grants :
                    Names(s, scopes[t].grants[s], scopes[t].births[s])'
  <2>1. scopes[t] # None
    BY <1>2 DEF SameScopes
  <2>2. /\ scopes[t].target.session <= session
        /\ DOMAIN scopes[t].births = DOMAIN scopes[t].grants
    BY <2>1 DEF LInv, GrantsInv
  <2>3. ASSUME scopes[t].target.session = session, NEW s \in DOMAIN scopes[t].grants
        PROVE  Names(s, scopes[t].grants[s], scopes[t].births[s])'
    <3>1. s \in Steps /\ scopes[t].grants[s] \in Nat
      BY <2>1, GrantsAreTyped DEF LInv
    <3>2. Names(s, scopes[t].grants[s], scopes[t].births[s])
      BY <2>1, <2>3 DEF LInv, GrantsInv
    <3>3. /\ scopes'[t].grants[s] = scopes[t].grants[s]
          /\ scopes'[t].births[s] = scopes[t].births[s]
      BY <2>1 DEF SameScopes
    <3>4. RowsLast /\ Typed
      BY DEF LInv
    <3> HIDE DEF RowsLast
    <3>5. /\ sequence' >= sequence /\ sequence' \in Nat
          /\ \/ Fresh(s)' \/ rows'[s].token > sequence
             \/ ~Fresh(s) /\ rows'[s].token = rows[s].token /\ birth'[s] = birth[s]
      BY <3>1, <3>4 DEF RowsLast
    <3> QED BY <3>1, <3>2, <3>3, <3>5 DEF Names, LInv, Typed
  <2> QED BY <2>1, <2>2, <2>3 DEF SameScopes, Grows
<1> QED BY <1>1, <1>2 DEF GrantsInv

-----------------------------------------------------------------------------
(* The editor.                                                             *)

LEMMA InitHolds == Init => LInv
<1> SUFFICES ASSUME Init PROVE LInv
  OBVIOUS
<1>1. ContractTypeOK
  BY DEF Init, ContractInit, ContractTypeOK
<1>2. Typed
  BY <1>1, BoundsAssumption DEF Init, Typed
<1>3. LedgerInv
  BY DEF Init, LedgerInv, IsTrue
<1>4. ReadsInv
  BY DEF Init, ReadsInv, IsRead
<1>5. RowsInv /\ GrantsInv
  BY DEF Init, RowsInv, GrantsInv, Fresh
<1> QED BY <1>2, <1>3, <1>4, <1>5 DEF LInv, ResultsAreOfTheTurn, Init

\* A step of the document, which the registry and the chat know nothing of.
LEMMA DocumentStep ==
  ASSUME LInv, ContractTypeOK', Grows, RowsLast, RowsInv',
         UNCHANGED <<sequence, registry, chat, applied>>,
         rows' \in [Steps -> [token : Nat, removed : BOOLEAN]], birth' \in [Steps -> Nat]
  PROVE  LInv'
<1>1. Typed'
  BY DEF LInv, Typed, registry, chat, Grows
<1>2. SameScopes /\ UNCHANGED <<pins, ledger, reads, turn>>
  BY DEF SameScopes, registry, chat
<1>3. ReadsInv'
  BY <1>1, <1>2, ReadsStep
<1>4. LedgerInv'
  BY <1>2, SameLedger DEF LInv, LedgerInv
<1>5. GrantsInv'
  BY <1>1, <1>2, GrantsStep
<1> QED BY <1>1, <1>3, <1>4, <1>5 DEF LInv, ResultsAreOfTheTurn, chat

LEMMA UserEditPreserves == ASSUME LInv, UserEdit PROVE LInv'
<1> USE DEF UserEdit, UserChange
<1>0. Typed /\ RowsInv
  BY DEF LInv
<1>1. ContractTypeOK' /\ Grows
  BY <1>0 DEF Typed, ContractTypeOK, Change, Grows
<1>2. /\ rows' \in [Steps -> [token : Nat, removed : BOOLEAN]]
      /\ \A s \in Steps :
           /\ rows'[s].token = rows[s].token
           /\ ~Fresh(s)' => ~Fresh(s) /\ s \in document'.rows
  BY <1>0 DEF Typed, Observe, Fresh
<1>3. /\ birth' \in [Steps -> Nat]
      /\ \A s \in Steps : s \in document.rows => birth'[s] = birth[s]
  BY <1>0 DEF Typed, Born
<1>4. RowsLast /\ RowsInv'
  BY <1>0, <1>2, <1>3 DEF RowsLast, RowsInv, Typed
<1> QED BY <1>1, <1>2, <1>3, <1>4, DocumentStep

LEMMA SameRows ==
  ASSUME LInv, UNCHANGED <<endpoint, birth>>, document'.rows = document.rows
  PROVE  /\ RowsLast /\ RowsInv' /\ rows' \in [Steps -> [token : Nat, removed : BOOLEAN]]
         /\ birth' \in [Steps -> Nat] /\ UNCHANGED <<session, rows, sequence>>
  BY DEF LInv, Typed, RowsLast, RowsInv, Fresh, endpoint

LEMMA UserSavePreserves == ASSUME LInv, UserSave PROVE LInv'
<1>0. ContractTypeOK
  BY DEF LInv, Typed
<1>1. UNCHANGED <<endpoint, registry, chat, birth, applied>>
  BY DEF UserSave
<1>2. document' = document /\ ContractTypeOK' /\ revision' >= revision
  <2>1. CASE document' = document /\ Save
    <3>1. /\ UNCHANGED <<document, revision, identity, closed>>
          /\ revision \in Nat /\ saving' \in BOOLEAN
      BY <1>0, <2>1 DEF Save, ContractTypeOK
    <3>2. revision' >= revision
      BY <3>1
    <3> QED BY <1>0, <3>1, <3>2 DEF ContractTypeOK
  <2>2. CASE Saved
    <3>1. /\ UNCHANGED <<document, revision, closed>> /\ identity' \in Identities
          /\ revision \in Nat /\ saving' \in BOOLEAN
      BY <1>0, <2>2 DEF Saved, ContractTypeOK
    <3>2. revision' >= revision
      BY <3>1
    <3> QED BY <1>0, <3>1, <3>2 DEF ContractTypeOK
  <2>3. CASE Rebind
    BY <1>0, <2>3 DEF Rebind, ContractTypeOK
  <2> QED BY <2>1, <2>2, <2>3 DEF UserSave
<1>3. Grows /\ UNCHANGED <<sequence, registry, chat, applied>>
  BY <1>1, <1>2 DEF Grows, endpoint
<1> QED BY <1>1, <1>2, <1>3, SameRows, DocumentStep

LEMMA CloseDocumentPreserves == ASSUME LInv, CloseDocument PROVE LInv'
<1>0. ContractTypeOK
  BY DEF LInv, Typed
<1>1. UNCHANGED <<endpoint, registry, chat, birth, applied>>
  BY DEF CloseDocument
<1>2. document' = document /\ ContractTypeOK' /\ revision' >= revision
  <2>1. /\ UNCHANGED <<document, revision, identity>> /\ revision \in Nat
        /\ closed' \in BOOLEAN /\ saving' \in BOOLEAN
    BY <1>0 DEF CloseDocument, Close, ContractTypeOK
  <2>2. revision' >= revision
    BY <2>1
  <2> QED BY <1>0, <2>1, <2>2 DEF ContractTypeOK
<1>3. Grows /\ UNCHANGED <<sequence, registry, chat, applied>>
  BY <1>1, <1>2 DEF Grows, endpoint
<1> QED BY <1>1, <1>2, <1>3, SameRows, DocumentStep

-----------------------------------------------------------------------------
(* Closing scopes.                                                         *)

LEMMA AbortedReads ==
  ASSUME LInv, NEW ts \in SUBSET Turns, NEW p \in Aborted(ts)
  PROVE  /\ p[1] \in ts /\ p[2] \in Ops /\ p = <<p[1], p[2]>>
         /\ reads[p[1]][p[2]] \in PendingReads
         /\ RefusalOf(p) \in Receipts /\ ~IsRead(RefusalOf(p)) /\ IsTrue(RefusalOf(p), 0)
         /\ p[1] = turn /\ applied[p[1]][p[2]] = 0
<1>1. p[1] \in ts /\ p[2] \in Ops /\ p = <<p[1], p[2]>> /\ reads[p[1]][p[2]] # None
  BY DEF Aborted
<1>2. reads[p[1]][p[2]] \in PendingReads
  BY <1>1 DEF LInv, Typed
<1>3. reads[p[1]][p[2]].input \in Calls
  BY <1>2 DEF PendingReads
<1>4. p[1] = turn /\ applied[p[1]][p[2]] = 0
  BY <1>1 DEF LInv, LedgerInv, Turns
<1> QED BY <1>1, <1>2, <1>3, <1>4, RefusalIsTrue DEF RefusalOf

LEMMA ClosingIs ==
  ASSUME LInv, NEW ts \in SUBSET Turns, NEW t \in Turns, NEW o \in Ops
  PROVE  /\ Closing(ts)[t][o] \in Receipts \cup {None}
         /\ \/ Closing(ts)[t][o] = ledger[t][o]
            \/ /\ t = turn /\ Closing(ts)[t][o] \in Receipts
               /\ ~IsRead(Closing(ts)[t][o])
               /\ IsTrue(Closing(ts)[t][o], applied[t][o])
<1>1. CASE <<t, o>> \in Aborted(ts)
  <2>1. Closing(ts)[t][o] = RefusalOf(<<t, o>>)
    BY <1>1 DEF Closing
  <2> DEFINE p == <<t, o>>
  <2>2. p \in Aborted(ts) /\ p[1] = t /\ p[2] = o
    BY <1>1
  <2> HIDE DEF p
  <2>3. /\ RefusalOf(p) \in Receipts /\ ~IsRead(RefusalOf(p)) /\ IsTrue(RefusalOf(p), 0)
        /\ t = turn /\ applied[t][o] = 0
    BY <2>2, AbortedReads
  <2> QED BY <2>1, <2>3 DEF p
<1>2. CASE <<t, o>> \notin Aborted(ts)
  <2>1. Closing(ts)[t][o] = ledger[t][o]
    BY <1>2 DEF Closing
  <2> QED BY <2>1 DEF LInv, Typed
<1> QED BY <1>1, <1>2

LEMMA AnswersAreTyped ==
  ASSUME LInv, NEW ts \in SUBSET Turns
  PROVE  Answers(ts) \subseteq [turn : Turns, op : Ops, receipt : Receipts, first : BOOLEAN]
<1> SUFFICES ASSUME NEW p \in Aborted(ts)
             PROVE  [turn |-> p[1], op |-> p[2], receipt |-> RefusalOf(p), first |-> reads[p[1]][p[2]].first]
                      \in [turn : Turns, op : Ops, receipt : Receipts, first : BOOLEAN]
  BY DEF Answers
<1>1. /\ p[1] \in ts /\ p[2] \in Ops /\ reads[p[1]][p[2]] \in PendingReads
      /\ RefusalOf(p) \in Receipts
  BY AbortedReads
<1>2. reads[p[1]][p[2]].first \in BOOLEAN
  BY <1>1 DEF PendingReads
<1> QED BY <1>1, <1>2

LEMMA CloseAllIs ==
  ASSUME LInv, NEW ts \in SUBSET {t \in Turns : scopes[t] # None}, NEW t \in Turns
  PROVE  /\ CloseAll(ts)[t] \in Scopes \cup {None}
         /\ \/ CloseAll(ts)[t] = scopes[t]
            \/ /\ scopes[t] # None
               /\ CloseAll(ts)[t].target = scopes[t].target
               /\ CloseAll(ts)[t].grants = scopes[t].grants
               /\ CloseAll(ts)[t].births = scopes[t].births
<1>1. CASE t \in ts
  <2>1. scopes[t] \in Scopes /\ CloseAll(ts)[t] = [scopes[t] EXCEPT !.closed = TRUE]
    BY <1>1, GrantsAreTyped DEF LInv, CloseAll
  <2> QED BY <1>1, <2>1 DEF Scopes
<1>2. CASE t \notin ts
  BY <1>2 DEF LInv, Typed, CloseAll
<1> QED BY <1>1, <1>2

LEMMA ClosedStep ==
  ASSUME LInv, NEW ts \in SUBSET {t \in Turns : scopes[t] # None}, Closed(ts),
         UNCHANGED <<turn, applied>>
  PROVE  /\ scopes' \in [Turns -> Scopes \cup {None}] /\ SameScopes
         /\ ledger' \in [Turns -> [Ops -> Receipts \cup {None}]]
         /\ reads' \in [Turns -> [Ops -> PendingReads \cup {None}]]
         /\ deliveries' \subseteq [turn : Turns, op : Ops, receipt : Receipts, first : BOOLEAN]
         /\ \A t \in Turns, o \in Ops :
              /\ ledger'[t][o] = ledger[t][o] \/ ~IsRead(ledger'[t][o])
              /\ reads'[t][o] = reads[t][o] \/ reads'[t][o] = None
         /\ LedgerInv'
<1>0. Typed /\ LedgerInv /\ ts \in SUBSET Turns
  BY DEF LInv
<1>1. /\ scopes' = CloseAll(ts) /\ ledger' = Closing(ts)
      /\ deliveries' = deliveries \cup Answers(ts)
      /\ reads' = [t \in Turns |-> [o \in Ops |-> IF t \in ts THEN None ELSE reads[t][o]]]
  BY DEF Closed
<1>2. scopes' \in [Turns -> Scopes \cup {None}]
  <2>1. scopes' = [t \in Turns |-> scopes'[t]]
    BY <1>1 DEF CloseAll
  <2>2. \A t \in Turns : scopes'[t] \in Scopes \cup {None}
    BY <1>1, CloseAllIs
  <2> QED BY <2>1, <2>2
<1>3. SameScopes
  BY <1>1, CloseAllIs DEF SameScopes
<1>4. ledger' \in [Turns -> [Ops -> Receipts \cup {None}]]
  <2>1. ledger' = [t \in Turns |-> [o \in Ops |-> ledger'[t][o]]]
    BY <1>1 DEF Closing
  <2>2. \A t \in Turns, o \in Ops : ledger'[t][o] \in Receipts \cup {None}
    BY <1>0, <1>1, ClosingIs
  <2> QED BY <2>1, <2>2
<1>5. /\ reads' \in [Turns -> [Ops -> PendingReads \cup {None}]]
      /\ \A t \in Turns, o \in Ops : reads'[t][o] = IF t \in ts THEN None ELSE reads[t][o]
  BY <1>0, <1>1 DEF Typed
<1>6. deliveries' \subseteq [turn : Turns, op : Ops, receipt : Receipts, first : BOOLEAN]
  BY <1>0, <1>1, AnswersAreTyped DEF Typed
<1>7. \A t \in Turns, o \in Ops :
        \/ ledger'[t][o] = ledger[t][o]
        \/ t = turn /\ ledger'[t][o] \in Receipts
             /\ ~IsRead(ledger'[t][o]) /\ IsTrue(ledger'[t][o], applied[t][o])
  BY <1>0, <1>1, ClosingIs
<1>8. ASSUME NEW t \in Turns, NEW o \in Ops, reads'[t][o] # None
      PROVE  ledger'[t][o] = ledger[t][o]
  <2>1. t \notin ts
    BY <1>5, <1>8
  <2>2. <<t, o>> \notin Aborted(ts)
    BY <2>1 DEF Aborted
  <2> QED BY <1>1, <2>2 DEF Closing
<1>9. LedgerInv'
  <2> SUFFICES ASSUME NEW t \in Turns, NEW o \in Ops
               PROVE  /\ IsTrue(ledger'[t][o], applied[t][o])
                      /\ t >= turn /\ ledger'[t][o] = None => applied[t][o] = 0
                      /\ t > turn => ledger'[t][o] = None
                      /\ reads'[t][o] # None => t = turn /\ ledger'[t][o] = None
    BY DEF LedgerInv
  <2>1. turn \in Nat /\ t \in Nat
    BY <1>0, BoundsAssumption DEF Typed, Turns
  <2> QED BY <1>0, <1>5, <1>7, <1>8, <2>1, NoneAssumption DEF LedgerInv
<1> QED BY <1>2, <1>3, <1>4, <1>5, <1>6, <1>7, <1>9

LEMMA RemountPreserves == ASSUME LInv, Remount PROVE LInv'
<1> DEFINE ts == {t \in Turns : scopes[t] # None}
<1>0. /\ session' = session + 1 /\ session < MaxSessions
      /\ document' \in Documents /\ identity' \in Identities
      /\ revision' = 0 /\ saving' = FALSE /\ closed' = FALSE
      /\ rows' = [s \in Steps |-> [token |-> 0, removed |-> FALSE]]
      /\ sequence' = 0 /\ pins' = {} /\ Closed(ts)
      /\ birth' = [s \in Steps |-> IF s \in document'.rows THEN birth[s] + 1 ELSE birth[s]]
      /\ UNCHANGED <<turn, stopped, results, applied>>
  BY DEF Remount
<1>1. Typed
  BY DEF LInv
<1>2. /\ scopes' \in [Turns -> Scopes \cup {None}] /\ SameScopes
      /\ ledger' \in [Turns -> [Ops -> Receipts \cup {None}]]
      /\ reads' \in [Turns -> [Ops -> PendingReads \cup {None}]]
      /\ deliveries' \subseteq [turn : Turns, op : Ops, receipt : Receipts, first : BOOLEAN]
      /\ \A t \in Turns, o \in Ops :
           /\ ledger'[t][o] = ledger[t][o] \/ ~IsRead(ledger'[t][o])
           /\ reads'[t][o] = reads[t][o] \/ reads'[t][o] = None
      /\ LedgerInv'
  BY <1>0, ClosedStep
<1> HIDE DEF ts
<1>3. session \in Nat /\ MaxSessions \in Nat /\ session' \in 1 .. MaxSessions
  BY <1>0, <1>1, BoundsAssumption DEF Typed
<1>4. ContractTypeOK'
  BY <1>0 DEF ContractTypeOK
<1>5. Typed'
  BY <1>0, <1>1, <1>2, <1>3, <1>4 DEF Typed
<1>6. ASSUME NEW t \in Turns, scopes'[t] # None
      PROVE  scopes'[t].target.session < session'
  <2>1. scopes[t] # None /\ scopes'[t].target = scopes[t].target
    BY <1>2, <1>6 DEF SameScopes
  <2>2. scopes[t].target.session <= session
    BY <2>1 DEF LInv, GrantsInv
  <2>3. scopes[t].target.session \in Nat
    BY <1>1, <2>1, GrantsAreTyped DEF Scopes, Mounts
  <2> QED BY <1>0, <1>3, <2>1, <2>2, <2>3
<1>7. ReadsInv'
  <2> SUFFICES ASSUME NEW t \in Turns, NEW o \in Ops
               PROVE  /\ IsRead(ledger'[t][o]) => OfItsScope(t, ledger[t][o])' /\ StillTrue(ledger[t][o])'
                      /\ reads'[t][o] # None /\ reads'[t][o].stage # "queued" =>
                           reads'[t][o].seen \in ReadReceipts /\ OfItsScope(t, reads[t][o].seen)'
    BY DEF ReadsInv
  <2>1. ASSUME IsRead(ledger'[t][o])
        PROVE  OfItsScope(t, ledger[t][o])' /\ StillTrue(ledger[t][o])'
    <3>1. ledger'[t][o] = ledger[t][o] /\ IsRead(ledger[t][o])
      BY <1>2, <2>1
    <3>2. OfItsScope(t, ledger[t][o]) /\ ledger[t][o].session <= session
      BY <3>1 DEF LInv, ReadsInv, StillTrue
    <3>3. ledger[t][o] \in ReadReceipts /\ ledger[t][o].session \in Nat
      <4>1. ledger[t][o] \in Receipts \cup {None}
        BY <1>1 DEF Typed
      <4>2. ledger[t][o] \in ReadReceipts
        BY <3>1, <4>1, ReadsAreReads
      <4> QED BY <4>2 DEF ReadReceipts
    <3>4. ledger'[t][o].session <= session' /\ ledger'[t][o].session # session'
      BY <1>0, <1>3, <3>1, <3>2, <3>3
    <3>5. OfItsScope(t, ledger[t][o])'
      BY <1>2, <3>1, <3>2 DEF OfItsScope, SameScopes
    <3> QED BY <3>4, <3>5 DEF StillTrue
  <2>2. ASSUME reads'[t][o] # None, reads'[t][o].stage # "queued"
        PROVE  reads'[t][o].seen \in ReadReceipts /\ OfItsScope(t, reads[t][o].seen)'
    <3>1. reads'[t][o] = reads[t][o]
      BY <1>2, <2>2
    <3>2. reads[t][o].seen \in ReadReceipts /\ OfItsScope(t, reads[t][o].seen)
      BY <2>2, <3>1 DEF LInv, ReadsInv
    <3>3. scopes'[t].target = scopes[t].target
      BY <1>2 DEF SameScopes
    <3> QED BY <3>1, <3>2, <3>3 DEF OfItsScope
  <2> QED BY <2>1, <2>2
<1>8. RowsInv'
  BY <1>0 DEF RowsInv, Fresh
<1>9. GrantsInv'
  <2>1. ASSUME NEW t \in Turns, scopes'[t] # None
        PROVE  /\ scopes'[t].target.session <= session' /\ scopes'[t].target.session # session'
               /\ DOMAIN scopes'[t].births = DOMAIN scopes'[t].grants
    <3>1. scopes[t] # None /\ scopes'[t].births = scopes[t].births /\ scopes'[t].grants = scopes[t].grants
          /\ scopes'[t].target = scopes[t].target
      BY <1>2, <2>1 DEF SameScopes
    <3>2. scopes'[t].target.session < session' /\ scopes'[t].target.session \in Nat
      BY <1>1, <1>6, <2>1, <3>1, GrantsAreTyped DEF Scopes, Mounts
    <3>3. DOMAIN scopes[t].births = DOMAIN scopes[t].grants
      BY <3>1 DEF LInv, GrantsInv
    <3> QED BY <1>0, <1>3, <3>1, <3>2, <3>3
  <2> QED BY <1>0, <2>1 DEF GrantsInv
<1> QED BY <1>0, <1>2, <1>5, <1>7, <1>8, <1>9 DEF LInv, ResultsAreOfTheTurn

LEMMA StopPreserves == ASSUME LInv, Stop PROVE LInv'
<1> DEFINE ts == {turn} \cap {t \in Turns : scopes[t] # None}
<1>0. /\ stopped' = TRUE /\ Closed(ts) /\ ts \in SUBSET {t \in Turns : scopes[t] # None}
      /\ UNCHANGED <<doc, endpoint, pins, turn, results, birth, applied>>
  BY DEF Stop
<1> HIDE DEF ts
<1>1. Typed
  BY DEF LInv
<1>2. /\ scopes' \in [Turns -> Scopes \cup {None}] /\ SameScopes
      /\ ledger' \in [Turns -> [Ops -> Receipts \cup {None}]]
      /\ reads' \in [Turns -> [Ops -> PendingReads \cup {None}]]
      /\ deliveries' \subseteq [turn : Turns, op : Ops, receipt : Receipts, first : BOOLEAN]
      /\ \A t \in Turns, o \in Ops :
           /\ ledger'[t][o] = ledger[t][o] \/ ~IsRead(ledger'[t][o])
           /\ reads'[t][o] = reads[t][o] \/ reads'[t][o] = None
      /\ LedgerInv'
  BY <1>0, ClosedStep
<1>3. Typed'
  BY <1>0, <1>1, <1>2 DEF Typed, ContractTypeOK, doc, contractVars, endpoint
<1>4. Grows
  BY <1>0, <1>1 DEF Grows, Typed, ContractTypeOK, doc, contractVars, endpoint
<1>5. RowsLast /\ RowsInv'
  BY <1>0, SameRows DEF doc, contractVars
<1>6. ReadsInv'
  BY <1>2, <1>3, <1>4, ReadsStep
<1>7. GrantsInv'
  BY <1>0, <1>2, <1>3, <1>4, <1>5, GrantsStep
<1> QED BY <1>0, <1>2, <1>3, <1>5, <1>6, <1>7 DEF LInv, ResultsAreOfTheTurn

-----------------------------------------------------------------------------
(* Pins and turns.                                                         *)

LEMMA ReadStepKeeps ==
  ASSUME LInv, NEW s \in Steps, ReadStep(s), UNCHANGED <<document, birth>>
  PROVE  /\ rows' \in [Steps -> [token : Nat, removed : BOOLEAN]]
         /\ sequence' \in Nat /\ RowsLast /\ RowsInv'
<1>0. Typed /\ RowsInv
  BY DEF LInv
<1>1. CASE CanReadStep(s) /\ Fresh(s)
  <2>1. /\ rows' = [rows EXCEPT ![s] = [token |-> sequence + 1, removed |-> FALSE]]
        /\ sequence' = sequence + 1 /\ s \in document.rows
    BY <1>1 DEF ReadStep, CanReadStep
  <2>2. /\ rows' \in [Steps -> [token : Nat, removed : BOOLEAN]]
        /\ rows'[s].token = sequence + 1
        /\ \A r \in Steps \ {s} : rows'[r] = rows[r]
    BY <1>0, <2>1 DEF Typed
  <2>3. RowsLast
    BY <1>0, <2>1, <2>2 DEF RowsLast, Typed, Fresh
  <2>4. RowsInv'
    BY <1>0, <2>1, <2>2 DEF RowsInv, Typed, Fresh
  <2> QED BY <1>0, <2>1, <2>2, <2>3, <2>4 DEF Typed
<1>2. CASE ~(CanReadStep(s) /\ Fresh(s))
  BY <1>0, <1>2 DEF ReadStep, RowsLast, RowsInv, Typed, Fresh
<1> QED BY <1>1, <1>2

LEMMA PinPreserves == ASSUME LInv, NEW s \in Steps, Pin(s) PROVE LInv'
<1>0. /\ ~Unavailable /\ s \in document.rows /\ ReadStep(s)
      /\ UNCHANGED <<doc, session, scopes, ledger, reads, chat, birth, applied>>
  BY DEF Pin
<1>1. Typed
  BY DEF LInv
<1>2. /\ rows' \in [Steps -> [token : Nat, removed : BOOLEAN]]
      /\ sequence' \in Nat /\ RowsLast /\ RowsInv'
  BY <1>0, ReadStepKeeps DEF doc, contractVars
<1>3. PICK new \in Pins : /\ pins' = pins \cup {new}
                          /\ new.step = s /\ new.token = TokenOf(s) /\ new.birth = birth[s]
  <2> DEFINE pin == [step |-> s, target |-> Target, token |-> TokenOf(s), birth |-> birth[s]]
  <2>1. pin \in Pins /\ pin.step = s /\ pin.token = TokenOf(s) /\ pin.birth = birth[s]
    BY <1>1 DEF Typed, ContractTypeOK, Pins, Mounts, Target, TokenOf
  <2>2. pins' = pins \cup {pin}
    BY DEF Pin
  <2> QED BY <2>1, <2>2
<1>4. Typed'
  BY <1>0, <1>1, <1>2, <1>3 DEF Typed, ContractTypeOK, doc, contractVars, chat
<1>5. Grows /\ SameScopes
  BY <1>0, <1>1 DEF Grows, SameScopes, Typed, ContractTypeOK, doc, contractVars
<1>6. Names(new.step, new.token, new.birth)'
  <2>1. TokenOf(s) <= sequence'
    <3>1. CASE Fresh(s)
      BY <1>0, <1>1, <3>1 DEF ReadStep, CanReadStep, TokenOf, Typed
    <3>2. CASE ~Fresh(s)
      BY <1>0, <1>1, <3>2 DEF ReadStep, TokenOf, LInv, RowsInv
    <3> QED BY <3>1, <3>2
  <2>2. birth'[s] = birth[s]
    BY <1>0
  <2> QED BY <1>3, <2>1, <2>2 DEF Names
<1>7. ReadsInv'
  BY <1>0, <1>4, <1>5, ReadsStep
<1>8. GrantsInv'
  <2>1. \A pin \in pins' : pin \in pins \/ Names(pin.step, pin.token, pin.birth)'
    BY <1>3, <1>6
  <2> QED BY <1>2, <1>4, <1>5, <2>1, GrantsStep
<1>9. LedgerInv'
  BY <1>0, SameLedger DEF LInv, LedgerInv, chat
<1> QED BY <1>0, <1>2, <1>4, <1>7, <1>8, <1>9 DEF LInv, ResultsAreOfTheTurn, chat

LEMMA GrantedIs ==
  ASSUME LInv, NEW chosen \in SUBSET pins, NEW mode \in {"read", "edit"}
  PROVE  /\ Granted(chosen, mode) \in Scopes
         /\ Granted(chosen, mode).target = Target
         /\ DOMAIN Granted(chosen, mode).births = DOMAIN Granted(chosen, mode).grants
         /\ \A s \in DOMAIN Granted(chosen, mode).grants :
              Names(s, Granted(chosen, mode).grants[s], Granted(chosen, mode).births[s])
<1> DEFINE steps == {pin.step : pin \in chosen}
           pinOf == [s \in steps |-> CHOOSE pin \in chosen : pin.step = s]
           grants == [s \in steps |-> pinOf[s].token]
           births == [s \in steps |-> pinOf[s].birth]
<1>0. Typed /\ chosen \subseteq Pins
  BY DEF LInv, Typed
<1>1. ASSUME NEW s \in steps
      PROVE  pinOf[s] \in chosen /\ pinOf[s].step = s
  OBVIOUS
<1>2. Granted(chosen, mode) = [target |-> Target, mode |-> mode, closed |-> FALSE,
                               grants |-> grants, births |-> births]
  BY DEF Granted
<1>3. steps \in SUBSET Steps
  BY <1>0 DEF Pins
<1>4. \A s \in steps : /\ pinOf[s].token \in Nat /\ pinOf[s].birth \in Nat
                       /\ Names(s, pinOf[s].token, pinOf[s].birth)
  BY <1>0, <1>1 DEF Pins, LInv, GrantsInv
<1> HIDE DEF pinOf, steps
<1>5. grants \in [steps -> Nat] /\ births \in [steps -> Nat]
  BY <1>4
<1>6. grants \in Grants /\ births \in Grants
  BY <1>3, <1>5 DEF Grants
<1>7. Target \in Mounts
  BY <1>0, BoundsAssumption DEF Target, Mounts, Typed, ContractTypeOK
<1> HIDE DEF grants, births
<1>8. /\ Granted(chosen, mode) \in Scopes
      /\ Granted(chosen, mode).target = Target
      /\ Granted(chosen, mode).grants = grants /\ Granted(chosen, mode).births = births
  BY <1>2, <1>6, <1>7 DEF Scopes
<1>9. DOMAIN grants = steps /\ DOMAIN births = steps
  BY <1>5
<1>10. \A s \in steps : Names(s, grants[s], births[s])
  BY <1>4 DEF grants, births
<1> QED BY <1>8, <1>9, <1>10

LEMMA BeginPreserves ==
  ASSUME LInv, NEW chosen \in SUBSET pins, NEW mode \in {"read", "edit"}, Begin(chosen, mode)
  PROVE  LInv'
<1> DEFINE previous == {u \in 1 .. turn : scopes[u] # None}
           kept == Retained(turn + 1)
<1>0. Typed /\ LedgerInv
  BY DEF LInv
<1>1. /\ turn < MaxTurns /\ turn' = turn + 1 /\ stopped' = FALSE
      /\ results' = [o \in Ops |-> None]
      /\ reads' = [u \in Turns |-> [o \in Ops |-> None]]
      /\ deliveries' = deliveries \cup Answers(previous)
      /\ UNCHANGED <<doc, endpoint, birth, applied>>
  BY DEF Begin
<1>2. turn \in Nat /\ turn + 1 \in Turns /\ 1 .. turn \subseteq Turns /\ Turns \subseteq Nat
      /\ turn' \in 0 .. MaxTurns
  BY <1>0, <1>1, BoundsAssumption DEF Typed, Turns
<1>3. previous \in SUBSET {t \in Turns : scopes[t] # None}
  BY <1>2
<1>4. kept \in SUBSET {t \in Turns : scopes[t] # None}
  BY <1>2 DEF Retained
<1>5. \/ /\ pins' = pins \ chosen
         /\ scopes' = [u \in Turns |->
              IF u = turn + 1 THEN Granted(chosen, mode)
              ELSE IF u \in kept THEN CloseAll(kept)[u] ELSE None]
         /\ ledger' = [u \in Turns |-> IF u \in kept THEN Closing(kept)[u] ELSE [o \in Ops |-> None]]
      \/ scopes' = CloseAll(previous) /\ ledger' = Closing(previous) /\ pins' = pins
  BY <1>4 DEF Begin, CloseAll
<1> HIDE DEF previous, kept
<1>6. /\ pins' \subseteq pins
      /\ scopes' = [u \in Turns |-> scopes'[u]]
      /\ ledger' = [u \in Turns |-> [o \in Ops |-> ledger'[u][o]]]
  <2>1. /\ scopes' = [u \in Turns |-> scopes'[u]]
        /\ ledger' = [u \in Turns |-> ledger'[u]]
    BY <1>5 DEF CloseAll, Closing
  <2>2. ASSUME NEW u \in Turns PROVE ledger'[u] = [o \in Ops |-> ledger'[u][o]]
    BY <1>5 DEF Closing
  <2> QED BY <1>5, <2>1, <2>2
\* A scope is the new one, forgotten, or what it was.
<1>7. ASSUME NEW u \in Turns
      PROVE  /\ scopes'[u] \in Scopes \cup {None}
             /\ \/ u = turn + 1 /\ scopes'[u] = Granted(chosen, mode)
                                /\ \A o \in Ops : ledger'[u][o] = None
                \/ scopes'[u] = None /\ \A o \in Ops : ledger'[u][o] = None
                \/ /\ scopes'[u] = scopes[u]
                      \/ /\ scopes[u] # None
                         /\ scopes'[u].target = scopes[u].target
                         /\ scopes'[u].grants = scopes[u].grants
                         /\ scopes'[u].births = scopes[u].births
                   /\ \A o \in Ops :
                        \/ ledger'[u][o] = ledger[u][o]
                        \/ u = turn /\ ledger'[u][o] \in Receipts
                             /\ ~IsRead(ledger'[u][o]) /\ IsTrue(ledger'[u][o], applied[u][o])
  <2>1. CASE scopes' = CloseAll(previous) /\ ledger' = Closing(previous)
    BY <1>3, <2>1, CloseAllIs, ClosingIs
  <2>2. CASE /\ scopes' = [x \in Turns |->
                  IF x = turn + 1 THEN Granted(chosen, mode)
                  ELSE IF x \in kept THEN CloseAll(kept)[x] ELSE None]
             /\ ledger' = [x \in Turns |-> IF x \in kept THEN Closing(kept)[x] ELSE [o \in Ops |-> None]]
    <3>1. turn + 1 \notin kept
      BY <1>2 DEF kept, Retained
    <3>2. CASE u \in kept
      <4>1. scopes'[u] = CloseAll(kept)[u] /\ ledger'[u] = Closing(kept)[u]
        BY <2>2, <3>1, <3>2
      <4> QED BY <1>4, <4>1, CloseAllIs, ClosingIs
    <3>3. CASE u \notin kept /\ u = turn + 1
      BY <2>2, <3>3, GrantedIs
    <3>4. CASE u \notin kept /\ u # turn + 1
      BY <2>2, <3>4
    <3> QED BY <3>2, <3>3, <3>4
  <2> QED BY <1>5, <2>1, <2>2
<1>8. ASSUME NEW u \in Turns, NEW o \in Ops
      PROVE  ledger'[u][o] \in Receipts \cup {None}
  BY <1>0, <1>7 DEF Typed
<1>9. Typed'
  <2>1. scopes' \in [Turns -> Scopes \cup {None}] /\ ledger' \in [Turns -> [Ops -> Receipts \cup {None}]]
    BY <1>6, <1>7, <1>8
  <2>2. deliveries' \subseteq [turn : Turns, op : Ops, receipt : Receipts, first : BOOLEAN]
    BY <1>0, <1>1, <1>3, AnswersAreTyped DEF Typed
  <2>3. reads' \in [Turns -> [Ops -> PendingReads \cup {None}]] /\ stopped' \in BOOLEAN
        /\ results' \in [Ops -> [turn : Turns, ok : BOOLEAN] \cup {None}]
    BY <1>1
  <2> QED BY <1>0, <1>1, <1>2, <1>6, <2>1, <2>2, <2>3 DEF Typed, ContractTypeOK, doc, contractVars, endpoint
<1>10. LedgerInv'
  <2> SUFFICES ASSUME NEW t \in Turns, NEW o \in Ops
               PROVE  /\ IsTrue(ledger'[t][o], applied'[t][o])
                      /\ t >= turn' /\ ledger'[t][o] = None => applied'[t][o] = 0
                      /\ t > turn' => ledger'[t][o] = None
                      /\ reads'[t][o] # None => t = turn' /\ ledger'[t][o] = None
    BY DEF LedgerInv
  <2>1. /\ IsTrue(ledger[t][o], applied[t][o])
        /\ t > turn => ledger[t][o] = None /\ applied[t][o] = 0
    BY <1>0, <1>2 DEF LedgerInv
  <2>2. IsTrue(None, applied[t][o])
    BY <2>1 DEF IsTrue
  <2>3. IsTrue(ledger'[t][o], applied'[t][o])
    BY <1>1, <1>7, <2>1, <2>2
  <2>4. t >= turn' => t > turn
    BY <1>1, <1>2
  <2>5. t > turn => ledger'[t][o] = None
    BY <1>2, <1>7, <2>1
  <2>6. t > turn' => t > turn
    BY <1>1, <1>2
  <2>7. reads'[t][o] = None
    BY <1>1
  <2> QED BY <1>1, <2>1, <2>3, <2>4, <2>5, <2>6, <2>7
<1>11. ReadsInv'
  <2> SUFFICES ASSUME NEW t \in Turns, NEW o \in Ops, IsRead(ledger'[t][o])
               PROVE  OfItsScope(t, ledger[t][o])' /\ StillTrue(ledger[t][o])'
    BY <1>1 DEF ReadsInv
  <2>1. ledger'[t][o] = ledger[t][o] /\ scopes'[t].target = scopes[t].target
    BY <1>7 DEF IsRead
  <2>2. OfItsScope(t, ledger[t][o]) /\ StillTrue(ledger[t][o])
    BY <2>1 DEF LInv, ReadsInv
  <2> QED BY <1>1, <2>1, <2>2 DEF OfItsScope, StillTrue, doc, contractVars, endpoint
<1>12. RowsInv'
  BY <1>1, SameRows DEF doc, contractVars
<1>13. ASSUME NEW s, NEW token, NEW born, Names(s, token, born)
       PROVE  Names(s, token, born)'
  BY <1>1, <1>13 DEF Names, Fresh, endpoint
<1>14. GrantsInv'
  <2>1. ASSUME NEW pin \in pins' PROVE Names(pin.step, pin.token, pin.birth)'
    BY <1>6, <1>13 DEF LInv, GrantsInv
  <2>2. ASSUME NEW t \in Turns, scopes'[t] # None
        PROVE  /\ scopes'[t].target.session <= session'
               /\ DOMAIN scopes'[t].births = DOMAIN scopes'[t].grants
               /\ scopes'[t].target.session = session' =>
                    \A s \in DOMAIN scopes'[t].grants : Names(s, scopes[t].grants[s], scopes[t].births[s])'
    <3>1. CASE scopes'[t] = Granted(chosen, mode)
      <4>1. scopes'[t].target.session = session /\ session \in Nat /\ session' = session
        BY <1>0, <1>1, <3>1, GrantedIs DEF Target, Typed, endpoint
      <4>2. \A s \in DOMAIN scopes'[t].grants : Names(s, scopes'[t].grants[s], scopes'[t].births[s])
        BY <3>1, GrantedIs
      <4>3. \A s \in DOMAIN scopes'[t].grants : Names(s, scopes[t].grants[s], scopes[t].births[s])'
        BY <1>1, <4>2 DEF Names, Fresh, endpoint
      <4>4. DOMAIN scopes'[t].births = DOMAIN scopes'[t].grants
        BY <3>1, GrantedIs
      <4> QED BY <4>1, <4>3, <4>4
    <3>2. CASE scopes'[t] # Granted(chosen, mode)
      <4>1. /\ scopes[t] # None
            /\ scopes'[t].target = scopes[t].target
            /\ scopes'[t].grants = scopes[t].grants
            /\ scopes'[t].births = scopes[t].births
        BY <1>7, <2>2, <3>2
      <4>2. /\ scopes[t].target.session <= session
            /\ DOMAIN scopes[t].births = DOMAIN scopes[t].grants
            /\ scopes[t].target.session = session =>
                 \A s \in DOMAIN scopes[t].grants : Names(s, scopes[t].grants[s], scopes[t].births[s])
        BY <4>1 DEF LInv, GrantsInv
      <4> QED BY <1>1, <4>1, <4>2 DEF Names, Fresh, endpoint
    <3> QED BY <3>1, <3>2
  <2> QED BY <2>1, <2>2 DEF GrantsInv
<1>15. ResultsAreOfTheTurn'
  BY <1>1 DEF ResultsAreOfTheTurn
<1> QED BY <1>9, <1>10, <1>11, <1>12, <1>14, <1>15 DEF LInv

-----------------------------------------------------------------------------
(* Calls.                                                                  *)

LEMMA ReceiptsAreOk == ASSUME NEW receipt \in Receipts PROVE receipt.ok \in BOOLEAN
  BY DEF Receipts

LEMMA KeepStep ==
  ASSUME LInv, turn > 0, NEW op \in Ops, NEW receipt \in Receipts, Keep(op, receipt), turn' = turn
  PROVE  /\ results' \in [Ops -> [turn : Turns, ok : BOOLEAN] \cup {None}]
         /\ ResultsAreOfTheTurn'
<1>1. turn \in Turns /\ receipt.ok \in BOOLEAN
  BY TheTurn, ReceiptsAreOk DEF LInv
<1>2. /\ results \in [Ops -> [turn : Turns, ok : BOOLEAN] \cup {None}]
      /\ ResultsAreOfTheTurn
  BY DEF LInv, Typed
<1>3. /\ Result(turn, receipt.ok) \in [turn : Turns, ok : BOOLEAN]
      /\ Result(turn, receipt.ok).turn = turn
  BY <1>1 DEF Result
<1> QED BY <1>2, <1>3 DEF Keep, ResultsAreOfTheTurn

LEMMA StoreStep ==
  ASSUME LInv, turn > 0, NEW op \in Ops, NEW receipt \in Receipts, Store(op, receipt), turn' = turn
  PROVE  /\ results' \in [Ops -> [turn : Turns, ok : BOOLEAN] \cup {None}]
         /\ ResultsAreOfTheTurn'
         /\ ledger' = [ledger EXCEPT ![turn][op] = receipt]
         /\ ledger' \in [Turns -> [Ops -> Receipts \cup {None}]]
         /\ turn \in Turns /\ ledger'[turn][op] = receipt
         /\ \A t \in Turns, o \in Ops : ~(t = turn /\ o = op) => ledger'[t][o] = ledger[t][o]
<1>1. turn \in Turns /\ ledger \in [Turns -> [Ops -> Receipts \cup {None}]]
  BY TheTurn DEF LInv, Typed
<1>2. ledger' = [ledger EXCEPT ![turn][op] = receipt] /\ Keep(op, receipt)
  BY DEF Store
<1> QED BY <1>1, <1>2, KeepStep

LEMMA ReplayPreserves ==
  ASSUME LInv, NEW op \in Ops, NEW input \in Calls, Replay(op, input)
  PROVE  LInv'
<1>0. /\ turn > 0
      /\ UNCHANGED <<doc, endpoint, registry, turn, stopped, deliveries, birth, applied>>
  BY DEF Replay, Reaches
<1>1. PICK receipt \in Receipts : Keep(op, receipt)
  <2>1. turn \in Turns
    BY <1>0, TheTurn DEF LInv
  <2>2. ledger[turn][op] # None => ledger[turn][op] \in Receipts
    BY <2>1 DEF LInv, Typed
  <2> QED BY <2>2, RefusalIsTrue DEF Replay
<1>2. /\ results' \in [Ops -> [turn : Turns, ok : BOOLEAN] \cup {None}]
      /\ ResultsAreOfTheTurn'
  BY <1>0, <1>1, KeepStep
<1>3. Typed'
  BY <1>0, <1>2 DEF LInv, Typed, ContractTypeOK, doc, contractVars, endpoint, registry
<1>4. Grows /\ SameScopes /\ UNCHANGED <<endpoint, birth, document, pins, ledger, reads, turn, applied>>
  BY <1>0 DEF LInv, Typed, ContractTypeOK, Grows, SameScopes, doc, contractVars, endpoint, registry
<1>5. RowsLast /\ RowsInv'
  BY <1>4, SameRows
<1>6. LedgerInv'
  BY <1>4, SameLedger DEF LInv, LedgerInv
<1>7. ReadsInv'
  BY <1>3, <1>4, ReadsStep
<1>8. GrantsInv'
  BY <1>3, <1>4, <1>5, GrantsStep
<1> QED BY <1>2, <1>3, <1>5, <1>6, <1>7, <1>8 DEF LInv

\* A new operation gets its receipt.
LEMMA ReceiptStep ==
  ASSUME LInv, turn > 0, NEW op \in Ops, NEW receipt \in Receipts, New(op), Store(op, receipt),
         ContractTypeOK', Grows, RowsLast, RowsInv',
         rows' \in [Steps -> [token : Nat, removed : BOOLEAN]],
         UNCHANGED <<pins, scopes, reads, turn, stopped, deliveries, birth>>,
         applied' \in [Turns -> [Ops -> Nat]],
         \A t \in Turns, o \in Ops : ~(t = turn /\ o = op) => applied'[t][o] = applied[t][o],
         IsTrue(receipt, applied'[turn][op]),
         IsRead(receipt) => OfItsScope(turn, receipt) /\ StillTrue(receipt)'
  PROVE  LInv'
<1>1. /\ results' \in [Ops -> [turn : Turns, ok : BOOLEAN] \cup {None}]
      /\ ResultsAreOfTheTurn'
      /\ ledger' = [ledger EXCEPT ![turn][op] = receipt]
      /\ ledger' \in [Turns -> [Ops -> Receipts \cup {None}]]
      /\ turn \in Turns /\ ledger'[turn][op] = receipt
      /\ \A t \in Turns, o \in Ops : ~(t = turn /\ o = op) => ledger'[t][o] = ledger[t][o]
  BY StoreStep
<1>2. sequence' \in Nat /\ session' = session
  BY DEF RowsLast, Grows
<1>3. Typed'
  BY <1>1, <1>2 DEF LInv, Typed
<1>4. SameScopes
  BY DEF SameScopes
<1>5. LedgerInv'
  <2>1. \A t \in Turns, o \in Ops : reads'[t][o] # None => reads[t][o] # None /\ ~(t = turn /\ o = op)
    BY DEF New
  <2> QED BY <1>1, <2>1, LedgerStep
<1>6. ReadsInv'
  <2>1. ASSUME NEW t \in Turns, NEW o \in Ops
        PROVE  \/ ledger'[t][o] = ledger[t][o]
               \/ ~IsRead(ledger'[t][o])
               \/ OfItsScope(t, ledger[t][o])' /\ StillTrue(ledger[t][o])'
    BY <1>1 DEF OfItsScope, StillTrue
  <2> QED BY <1>3, <1>4, <2>1, ReadsStep
<1>7. GrantsInv'
  BY <1>3, <1>4, GrantsStep
<1> QED BY <1>1, <1>3, <1>5, <1>6, <1>7 DEF LInv

LEMMA NewHasChangedNothing ==
  ASSUME LInv, turn > 0, NEW op \in Ops, New(op)
  PROVE  turn \in Turns /\ applied[turn][op] = 0 /\ applied \in [Turns -> [Ops -> Nat]]
<1>1. turn \in Turns /\ turn >= turn
  BY TheTurn DEF LInv, Turns
<1> QED BY <1>1 DEF New, LInv, LedgerInv, Typed

LEMMA RefusePreserves ==
  ASSUME LInv, NEW op \in Ops, NEW input \in Calls, Refuse(op, input)
  PROVE  LInv'
<1>0. /\ turn > 0 /\ New(op) /\ Store(op, Refusal(input))
      /\ UNCHANGED <<doc, session, pins, scopes, reads, turn, stopped, deliveries, birth, applied>>
  BY DEF Refuse, Reaches
<1>1. Refusal(input) \in Receipts /\ ~IsRead(Refusal(input)) /\ IsTrue(Refusal(input), 0)
  BY RefusalIsTrue
<1>2. turn \in Turns /\ applied[turn][op] = 0 /\ applied \in [Turns -> [Ops -> Nat]]
  BY <1>0, NewHasChangedNothing
<1>3. ContractTypeOK' /\ Grows
  BY <1>0 DEF LInv, Typed, ContractTypeOK, Grows, doc, contractVars
<1>4. /\ rows' \in [Steps -> [token : Nat, removed : BOOLEAN]]
      /\ RowsLast /\ RowsInv'
  <2>1. CASE UNCHANGED <<rows, sequence>>
    BY <1>0, <2>1, SameRows DEF endpoint, doc, contractVars
  <2>2. CASE input.step \in DOMAIN Scope.grants /\ ReadStep(input.step) /\ Scope # None
    <3>1. input.step \in Steps
      BY <1>2, <2>2, GrantsAreTyped DEF LInv, Scope
    <3> QED BY <1>0, <2>2, <3>1, ReadStepKeeps DEF doc, contractVars
  <2> QED BY <2>1, <2>2 DEF Refuse, Reaches
<1> QED BY <1>0, <1>1, <1>2, <1>3, <1>4, ReceiptStep

LEMMA ReadLivePreserves ==
  ASSUME LInv, NEW op \in Ops, NEW input \in Calls, ReadLive(op, input)
  PROVE  LInv'
<1>0. /\ turn > 0 /\ New(op) /\ Store(op, ReadReceipt(input)) /\ scopes[turn].target = Target
      /\ UNCHANGED <<doc, endpoint, pins, scopes, reads, turn, stopped, deliveries, birth, applied>>
  BY DEF ReadLive, Reaches, Authorized, Scope
<1>1. turn \in Turns /\ applied[turn][op] = 0 /\ applied \in [Turns -> [Ops -> Nat]]
  BY <1>0, NewHasChangedNothing
<1>2. /\ ReadReceipt(input) \in ReadReceipts
      /\ OfItsScope(turn, ReadReceipt(input)) /\ StillTrue(ReadReceipt(input))
  BY <1>0, <1>1, ReadNow DEF LInv
<1>3. PICK receipt \in ReadReceipts : /\ Store(op, receipt)
                                      /\ OfItsScope(turn, receipt) /\ StillTrue(receipt)
  BY <1>0, <1>2
<1>4. receipt \in Receipts /\ IsTrue(receipt, 0)
  BY ReadIsTrue
<1>5. StillTrue(receipt)'
  BY <1>0, <1>3 DEF StillTrue, doc, contractVars, endpoint
<1>6. ContractTypeOK' /\ Grows /\ UNCHANGED <<endpoint, birth, document>>
  BY <1>0 DEF LInv, Typed, ContractTypeOK, Grows, doc, contractVars, endpoint
<1>7. /\ rows' \in [Steps -> [token : Nat, removed : BOOLEAN]]
      /\ RowsLast /\ RowsInv'
  BY <1>6, SameRows
<1> QED BY <1>0, <1>1, <1>3, <1>4, <1>5, <1>6, <1>7, ReceiptStep

LEMMA AgentChangeIs ==
  ASSUME LInv, NEW op \in Ops, turn \in Turns, applied[turn][op] = 0, AgentChange(op)
  PROVE  /\ revision' = revision + 1 /\ document'.rows = document.rows /\ ContractTypeOK'
         /\ applied' \in [Turns -> [Ops -> Nat]] /\ applied'[turn][op] = 1
         /\ \A t \in Turns, o \in Ops : ~(t = turn /\ o = op) => applied'[t][o] = applied[t][o]
<1>0. ContractTypeOK /\ applied \in [Turns -> [Ops -> Nat]]
  BY DEF LInv, Typed
<1>1. /\ document' = [document EXCEPT !.text = AgentText]
      /\ document' \in Documents /\ revision' = revision + 1 /\ UNCHANGED <<identity, saving, closed>>
      /\ applied' = [applied EXCEPT ![turn][op] = @ + 1]
  BY DEF AgentChange, Change
<1>2. document \in [rows : SUBSET Steps, text : Texts]
  BY <1>0, DocumentsAssumption DEF ContractTypeOK
<1>3. document'.rows = document.rows
  BY <1>1, <1>2
<1>4. ContractTypeOK'
  BY <1>0, <1>1 DEF ContractTypeOK
<1>5. /\ applied' \in [Turns -> [Ops -> Nat]] /\ applied'[turn][op] = 1
      /\ \A t \in Turns, o \in Ops : ~(t = turn /\ o = op) => applied'[t][o] = applied[t][o]
  BY <1>0, <1>1
<1> QED BY <1>1, <1>3, <1>4, <1>5

LEMMA EditLivePreserves ==
  ASSUME LInv, NEW op \in Ops, NEW input \in Calls, EditLive(op, input)
  PROVE  LInv'
<1>0. /\ turn > 0 /\ New(op)
      /\ UNCHANGED <<endpoint, pins, scopes, reads, turn, stopped, deliveries, birth>>
  BY DEF EditLive, Reaches
<1>1. turn \in Turns /\ applied[turn][op] = 0 /\ applied \in [Turns -> [Ops -> Nat]]
  BY <1>0, NewHasChangedNothing
<1>2. PICK receipt \in Receipts :
        /\ Store(op, receipt) /\ ~IsRead(receipt)
        /\ \/ AgentChange(op) /\ IsTrue(receipt, 1)
           \/ UNCHANGED <<doc, applied>> /\ IsTrue(receipt, 0)
  <2>1. CASE AgentChange(op) /\ Store(op, EditReceipt(input, TRUE))
    BY <2>1, EditIsTrue
  <2>2. CASE AgentChange(op) /\ Store(op, Unknown(input))
    BY <2>2, UnknownIsTrue
  <2>3. CASE Store(op, EditReceipt(input, FALSE)) /\ UNCHANGED <<doc, applied>>
    BY <2>3, EditIsTrue
  <2>4. CASE Store(op, Unknown(input)) /\ UNCHANGED <<doc, applied>>
    BY <2>4, UnknownIsTrue
  <2> QED BY <2>1, <2>2, <2>3, <2>4 DEF EditLive
<1>3. /\ Grows /\ document'.rows = document.rows /\ ContractTypeOK'
      /\ applied' \in [Turns -> [Ops -> Nat]] /\ IsTrue(receipt, applied'[turn][op])
      /\ \A t \in Turns, o \in Ops : ~(t = turn /\ o = op) => applied'[t][o] = applied[t][o]
  <2>1. CASE AgentChange(op) /\ IsTrue(receipt, 1)
    <3>1. revision \in Nat
      BY DEF LInv, Typed, ContractTypeOK
    <3> QED BY <1>0, <1>1, <2>1, <3>1, AgentChangeIs DEF Grows, endpoint
  <2>2. CASE UNCHANGED <<doc, applied>> /\ IsTrue(receipt, 0)
    BY <1>0, <1>1, <2>2 DEF Grows, LInv, Typed, ContractTypeOK, doc, contractVars, endpoint
  <2> QED BY <1>2, <2>1, <2>2
<1>4. /\ rows' \in [Steps -> [token : Nat, removed : BOOLEAN]]
      /\ RowsLast /\ RowsInv'
  BY <1>0, <1>3, SameRows
<1> QED BY <1>0, <1>2, <1>3, <1>4, ReceiptStep

\* Steps of a schema read: they end it, or take it further.
LEMMA ReadStepIs ==
  ASSUME LInv, Typed', NEW op \in Ops, turn \in Turns,
         UNCHANGED <<doc, endpoint, pins, scopes, turn, birth, applied>>,
         LedgerInv', ResultsAreOfTheTurn',
         \A t \in Turns, o \in Ops : ~(t = turn /\ o = op) =>
           ledger'[t][o] = ledger[t][o] /\ reads'[t][o] = reads[t][o],
         \/ ledger'[turn][op] = ledger[turn][op]
         \/ ~IsRead(ledger'[turn][op])
         \/ OfItsScope(turn, ledger'[turn][op]) /\ StillTrue(ledger'[turn][op]),
         \/ reads'[turn][op] = None \/ reads'[turn][op].stage = "queued"
         \/ reads'[turn][op].seen \in ReadReceipts /\ OfItsScope(turn, reads'[turn][op].seen)
  PROVE  LInv'
<1>1. Grows /\ SameScopes /\ UNCHANGED <<endpoint, birth, document, pins>>
  BY DEF LInv, Typed, ContractTypeOK, Grows, SameScopes, doc, contractVars, endpoint
<1>2. RowsLast /\ RowsInv'
  BY <1>1, SameRows
<1>3. GrantsInv'
  BY <1>1, <1>2, GrantsStep
<1>4. ASSUME NEW t \in Turns, NEW o \in Ops
      PROVE  /\ \/ ledger'[t][o] = ledger[t][o]
                \/ ~IsRead(ledger'[t][o])
                \/ OfItsScope(t, ledger[t][o])' /\ StillTrue(ledger[t][o])'
             /\ \/ reads'[t][o] = reads[t][o]
                \/ reads'[t][o] = None \/ reads'[t][o].stage = "queued"
                \/ reads'[t][o].seen \in ReadReceipts /\ OfItsScope(t, reads[t][o].seen)'
  <2>1. UNCHANGED <<session, revision, document, scopes>>
    BY DEF doc, contractVars, endpoint
  <2> QED BY <2>1 DEF OfItsScope, StillTrue
<1>5. ReadsInv'
  BY <1>1, <1>4, ReadsStep
<1> QED BY <1>2, <1>3, <1>5 DEF LInv

LEMMA StartReadPreserves ==
  ASSUME LInv, NEW op \in Ops, NEW input \in Calls, StartRead(op, input)
  PROVE  LInv'
<1> DEFINE read == [input |-> input, stage |-> "queued", seen |-> None, first |-> results[op] = None]
<1>0. /\ turn > 0 /\ New(op) /\ reads' = [reads EXCEPT ![turn][op] = read]
      /\ UNCHANGED <<doc, endpoint, pins, scopes, ledger, chat, birth, applied>>
  BY DEF StartRead, Reaches
<1>1. turn \in Turns /\ reads \in [Turns -> [Ops -> PendingReads \cup {None}]]
  BY <1>0, TheTurn DEF LInv, Typed
<1>2. read \in PendingReads /\ read.stage = "queued"
  BY DEF PendingReads
<1> HIDE DEF read
<1>3. /\ reads' \in [Turns -> [Ops -> PendingReads \cup {None}]]
      /\ reads'[turn][op].stage = "queued"
      /\ \A t \in Turns, o \in Ops : ~(t = turn /\ o = op) => reads'[t][o] = reads[t][o]
  BY <1>0, <1>1, <1>2
<1>4. UNCHANGED <<turn, ledger, applied>>
  BY <1>0 DEF chat
<1>5. Typed'
  BY <1>0, <1>3 DEF LInv, Typed, ContractTypeOK, doc, contractVars, endpoint, chat
<1>6. LedgerInv'
  <2>1. \A t \in Turns, o \in Ops : reads'[t][o] # None => t = turn /\ ledger[t][o] = None
    BY <1>0, <1>3 DEF New, LInv, LedgerInv
  <2> QED BY <1>4, <2>1, SameLedger
<1>7. ResultsAreOfTheTurn'
  BY <1>0 DEF chat, ResultsAreOfTheTurn, LInv
<1> QED BY <1>0, <1>1, <1>3, <1>4, <1>5, <1>6, <1>7, ReadStepIs DEF chat

LEMMA FinishReadPreserves ==
  ASSUME LInv, NEW op \in Ops, turn > 0, reads[turn][op] # None,
         NEW receipt \in Receipts, FinishRead(op, receipt), IsTrue(receipt, 0),
         IsRead(receipt) => OfItsScope(turn, receipt) /\ StillTrue(receipt),
         UNCHANGED <<doc, endpoint, pins, scopes, turn, stopped, results, birth, applied>>
  PROVE  LInv'
<1> DEFINE delivery == [turn |-> turn, op |-> op, receipt |-> receipt, first |-> reads[turn][op].first]
<1>0. /\ ledger' = [ledger EXCEPT ![turn][op] = receipt]
      /\ deliveries' = deliveries \cup {delivery}
      /\ reads' = [reads EXCEPT ![turn][op] = None]
  BY DEF FinishRead
<1>1. /\ turn \in Turns /\ reads \in [Turns -> [Ops -> PendingReads \cup {None}]]
      /\ ledger \in [Turns -> [Ops -> Receipts \cup {None}]]
      /\ deliveries \subseteq [turn : Turns, op : Ops, receipt : Receipts, first : BOOLEAN]
  BY TheTurn DEF LInv, Typed
<1>2. reads[turn][op] \in PendingReads
  BY <1>1
<1>3. delivery \in [turn : Turns, op : Ops, receipt : Receipts, first : BOOLEAN]
  BY <1>1, <1>2 DEF PendingReads
<1> HIDE DEF delivery
<1>4. /\ ledger' \in [Turns -> [Ops -> Receipts \cup {None}]] /\ ledger'[turn][op] = receipt
      /\ reads' \in [Turns -> [Ops -> PendingReads \cup {None}]] /\ reads'[turn][op] = None
      /\ \A t \in Turns, o \in Ops : ~(t = turn /\ o = op) =>
           ledger'[t][o] = ledger[t][o] /\ reads'[t][o] = reads[t][o]
  BY <1>0, <1>1
<1>5. Typed'
  BY <1>0, <1>1, <1>3, <1>4 DEF LInv, Typed, ContractTypeOK, doc, contractVars, endpoint
<1>6. applied[turn][op] = 0
  <2>1. ledger[turn][op] = None /\ turn >= turn
    BY <1>1 DEF LInv, LedgerInv, Turns
  <2> QED BY <1>1, <2>1 DEF LInv, LedgerInv
<1>7. LedgerInv'
  <2>1. \A t \in Turns, o \in Ops : reads'[t][o] # None => reads[t][o] # None /\ ~(t = turn /\ o = op)
    BY <1>4
  <2>2. /\ turn' = turn /\ IsTrue(receipt, applied'[turn][op])
        /\ \A t \in Turns, o \in Ops : ~(t = turn /\ o = op) => applied'[t][o] = applied[t][o]
    BY <1>6
  <2> QED BY <1>0, <2>1, <2>2, LedgerStep
<1>8. ResultsAreOfTheTurn'
  BY DEF ResultsAreOfTheTurn, LInv
<1> QED BY <1>1, <1>4, <1>5, <1>7, <1>8, ReadStepIs

LEMMA PendingAt ==
  ASSUME LInv, NEW op \in Ops, turn > 0, reads[turn][op] # None
  PROVE  /\ turn \in Turns /\ reads[turn][op] \in PendingReads
         /\ reads \in [Turns -> [Ops -> PendingReads \cup {None}]]
         /\ Refusal(reads[turn][op].input) \in Receipts
         /\ ~IsRead(Refusal(reads[turn][op].input)) /\ IsTrue(Refusal(reads[turn][op].input), 0)
         /\ reads[turn][op].input \in Calls
<1>1. turn \in Turns /\ reads \in [Turns -> [Ops -> PendingReads \cup {None}]]
  BY TheTurn DEF LInv, Typed
<1>2. reads[turn][op] \in PendingReads
  BY <1>1
<1>3. reads[turn][op].input \in Calls
  BY <1>2 DEF PendingReads
<1> QED BY <1>1, <1>2, <1>3, RefusalIsTrue

\* A read goes to its next stage, with what it has seen.
LEMMA StagePreserves ==
  ASSUME LInv, NEW op \in Ops, turn > 0, reads[turn][op] # None, NEW read \in PendingReads,
         reads' = [reads EXCEPT ![turn][op] = read],
         read.seen \in ReadReceipts, OfItsScope(turn, read.seen),
         UNCHANGED <<doc, endpoint, pins, scopes, ledger, deliveries, turn, stopped, results, birth, applied>>
  PROVE  LInv'
<1>1. turn \in Turns /\ reads \in [Turns -> [Ops -> PendingReads \cup {None}]]
  BY PendingAt
<1>2. /\ reads' \in [Turns -> [Ops -> PendingReads \cup {None}]] /\ reads'[turn][op] = read
      /\ \A t \in Turns, o \in Ops : ~(t = turn /\ o = op) => reads'[t][o] = reads[t][o]
  BY <1>1
<1>3. Typed'
  BY <1>2 DEF LInv, Typed, ContractTypeOK, doc, contractVars, endpoint
<1>4. LedgerInv'
  <2>1. \A t \in Turns, o \in Ops : reads'[t][o] # None => t = turn /\ ledger[t][o] = None
    BY <1>1, <1>2 DEF LInv, LedgerInv
  <2> QED BY <2>1, SameLedger
<1>5. ResultsAreOfTheTurn'
  BY DEF ResultsAreOfTheTurn, LInv
<1> QED BY <1>1, <1>2, <1>3, <1>4, <1>5, ReadStepIs

LEMMA RequestSchemaPreserves ==
  ASSUME LInv, NEW op \in Ops, RequestSchema(op)
  PROVE  LInv'
<1> DEFINE read == reads[turn][op]
           next == [read EXCEPT !.stage = "loading", !.seen = ReadReceipt(read.input)]
<1>0. /\ turn > 0 /\ read # None
      /\ UNCHANGED <<doc, endpoint, pins, scopes, turn, stopped, results, birth, applied>>
  BY DEF RequestSchema, Reading
<1>1. /\ turn \in Turns /\ read \in PendingReads /\ read.input \in Calls
      /\ reads \in [Turns -> [Ops -> PendingReads \cup {None}]]
      /\ Refusal(read.input) \in Receipts /\ ~IsRead(Refusal(read.input))
      /\ IsTrue(Refusal(read.input), 0)
  BY <1>0, PendingAt
<1>2. CASE /\ Authorized
           /\ reads' = [reads EXCEPT ![turn][op].stage = "loading",
                                     ![turn][op].seen = ReadReceipt(read.input)]
           /\ UNCHANGED <<ledger, deliveries>>
  <2>1. /\ ReadReceipt(read.input) \in ReadReceipts
        /\ OfItsScope(turn, ReadReceipt(read.input))
    BY <1>1, <1>2, ReadNow DEF LInv, Authorized, Scope
  <2>2. next \in PendingReads /\ next.seen = ReadReceipt(read.input)
    BY <1>1, <2>1 DEF PendingReads
  <2>3. reads' = [reads EXCEPT ![turn][op] = next]
    BY <1>1, <1>2
  <2>4. PICK after \in PendingReads :
          /\ reads' = [reads EXCEPT ![turn][op] = after]
          /\ after.seen \in ReadReceipts /\ OfItsScope(turn, after.seen)
    BY <2>1, <2>2, <2>3
  <2> QED BY <1>0, <1>2, <2>4, StagePreserves
<1>3. CASE FinishRead(op, Refusal(read.input))
  <2>1. PICK receipt \in Receipts : FinishRead(op, receipt) /\ ~IsRead(receipt) /\ IsTrue(receipt, 0)
    BY <1>1, <1>3
  <2> QED BY <1>0, <2>1, FinishReadPreserves
<1> QED BY <1>2, <1>3 DEF RequestSchema

LEMMA SchemaAnsweredPreserves ==
  ASSUME LInv, NEW op \in Ops, SchemaAnswered(op)
  PROVE  LInv'
<1> DEFINE read == reads[turn][op]
           next == [read EXCEPT !.stage = "control"]
<1>0. /\ turn > 0 /\ read # None /\ read.stage # "queued"
      /\ UNCHANGED <<doc, endpoint, pins, scopes, turn, stopped, results, birth, applied>>
  BY DEF SchemaAnswered, Reading
<1>1. /\ turn \in Turns /\ read \in PendingReads /\ read.input \in Calls
      /\ reads \in [Turns -> [Ops -> PendingReads \cup {None}]]
      /\ Refusal(read.input) \in Receipts /\ ~IsRead(Refusal(read.input))
      /\ IsTrue(Refusal(read.input), 0)
  BY <1>0, PendingAt
<1>2. read.seen \in ReadReceipts /\ OfItsScope(turn, read.seen)
  BY <1>0, <1>1 DEF LInv, ReadsInv
<1>3. CASE /\ reads' = [reads EXCEPT ![turn][op].stage = "control"]
           /\ UNCHANGED <<ledger, deliveries>>
  <2>1. next \in PendingReads /\ next.seen = read.seen
    BY <1>1 DEF PendingReads
  <2>2. reads' = [reads EXCEPT ![turn][op] = next]
    BY <1>1, <1>3
  <2>3. PICK after \in PendingReads :
          /\ reads' = [reads EXCEPT ![turn][op] = after]
          /\ after.seen \in ReadReceipts /\ OfItsScope(turn, after.seen)
    BY <1>2, <2>1, <2>2
  <2> QED BY <1>0, <1>3, <2>3, StagePreserves
<1>4. CASE StillSeen(op) /\ FinishRead(op, read.seen)
  <2>1. read.seen.revision = revision /\ read.seen.document = document /\ scopes[turn].target = Target
    BY <1>4 DEF StillSeen, Authorized, Scope
  <2>2. session \in Nat /\ revision \in Nat
    BY BoundsAssumption DEF LInv, Typed, ContractTypeOK
  <2>3. StillTrue(read.seen)
    BY <1>2, <2>1, <2>2 DEF StillTrue, OfItsScope, Target
  <2>4. PICK receipt \in ReadReceipts :
          FinishRead(op, receipt) /\ OfItsScope(turn, receipt) /\ StillTrue(receipt)
    BY <1>2, <1>4, <2>3
  <2>5. receipt \in Receipts /\ IsTrue(receipt, 0)
    BY ReadIsTrue
  <2> QED BY <1>0, <2>4, <2>5, FinishReadPreserves
<1>5. CASE FinishRead(op, Refusal(read.input))
  <2>1. PICK receipt \in Receipts : FinishRead(op, receipt) /\ ~IsRead(receipt) /\ IsTrue(receipt, 0)
    BY <1>1, <1>5
  <2> QED BY <1>0, <2>1, FinishReadPreserves
<1> QED BY <1>3, <1>4, <1>5 DEF SchemaAnswered

\* The registry is as it was: only the chat has moved.
LEMMA ChatStep ==
  ASSUME LInv, Typed', ResultsAreOfTheTurn',
         UNCHANGED <<doc, endpoint, registry, turn, birth, applied>>
  PROVE  LInv'
<1>1. Grows /\ SameScopes /\ UNCHANGED <<endpoint, birth, document, pins, ledger, reads, turn, applied>>
  BY DEF LInv, Typed, ContractTypeOK, Grows, SameScopes, doc, contractVars, endpoint, registry
<1>2. RowsLast /\ RowsInv'
  BY <1>1, SameRows
<1>3. LedgerInv'
  BY <1>1, SameLedger DEF LInv, LedgerInv
<1>4. ReadsInv' /\ GrantsInv'
  BY <1>1, <1>2, ReadsStep, GrantsStep
<1> QED BY <1>2, <1>3, <1>4 DEF LInv

LEMMA TakeDeliveryPreserves == ASSUME LInv, TakeDelivery PROVE LInv'
<1>1. PICK delivery \in deliveries :
        /\ deliveries' = deliveries \ {delivery}
        /\ IF OfThisTurn(delivery) /\ delivery.first
             THEN results' = [results EXCEPT ![delivery.op] =
                    Result(delivery.turn, delivery.receipt.ok /\ ~stopped)]
             ELSE UNCHANGED results
        /\ UNCHANGED <<doc, endpoint, registry, turn, stopped, birth, applied>>
  BY DEF TakeDelivery
<1>2. /\ delivery.turn \in Turns /\ delivery.op \in Ops /\ delivery.receipt \in Receipts
      /\ results \in [Ops -> [turn : Turns, ok : BOOLEAN] \cup {None}]
      /\ deliveries' \subseteq [turn : Turns, op : Ops, receipt : Receipts, first : BOOLEAN]
  BY <1>1 DEF LInv, Typed
<1>3. PICK ok \in BOOLEAN : ok = (delivery.receipt.ok /\ ~stopped)
  OBVIOUS
<1>4. /\ Result(delivery.turn, ok) \in [turn : Turns, ok : BOOLEAN]
      /\ Result(delivery.turn, ok).turn = delivery.turn
  BY <1>2 DEF Result
<1>5. /\ results' \in [Ops -> [turn : Turns, ok : BOOLEAN] \cup {None}]
      /\ \A o \in Ops : \/ results'[o] = results[o]
                        \/ results'[o].turn = turn
  BY <1>1, <1>2, <1>3, <1>4 DEF OfThisTurn
<1>6. Typed'
  BY <1>1, <1>2, <1>5 DEF LInv, Typed, ContractTypeOK, doc, contractVars, endpoint, registry
<1>7. ResultsAreOfTheTurn'
  BY <1>1, <1>5 DEF LInv, ResultsAreOfTheTurn
<1> QED BY <1>1, <1>6, <1>7, ChatStep

LEMMA StutterPreserves == ASSUME LInv, UNCHANGED vars PROVE LInv'
<1>1. UNCHANGED <<doc, endpoint, registry, chat, birth, applied>>
  BY DEF vars
<1>2. Typed'
  BY <1>1 DEF LInv, Typed, ContractTypeOK, doc, contractVars, endpoint, registry, chat
<1>3. ResultsAreOfTheTurn'
  BY <1>1 DEF LInv, ResultsAreOfTheTurn, chat
<1> QED BY <1>1, <1>2, <1>3, ChatStep DEF chat

LEMMA NextPreserves == LInv /\ [Next]_vars => LInv'
<1> SUFFICES ASSUME LInv, [Next]_vars PROVE LInv'
  OBVIOUS
<1>1. CASE UNCHANGED vars
  BY <1>1, StutterPreserves
<1>2. CASE UserEdit \/ UserSave \/ CloseDocument \/ Remount \/ Stop
  BY <1>2, UserEditPreserves, UserSavePreserves, CloseDocumentPreserves, RemountPreserves, StopPreserves
<1>3. CASE \E s \in Steps : Pin(s)
  BY <1>3, PinPreserves
<1>4. CASE \E chosen \in SUBSET pins, mode \in {"read", "edit"} : Begin(chosen, mode)
  BY <1>4, BeginPreserves
<1>5. ASSUME NEW op \in Ops, NEW input \in Calls,
             \/ Replay(op, input) \/ Refuse(op, input) \/ ReadLive(op, input)
             \/ EditLive(op, input) \/ StartRead(op, input)
      PROVE  LInv'
  BY <1>5, ReplayPreserves, RefusePreserves, ReadLivePreserves, EditLivePreserves, StartReadPreserves
<1>6. ASSUME NEW op \in Ops, RequestSchema(op) \/ SchemaAnswered(op)
      PROVE  LInv'
  BY <1>6, RequestSchemaPreserves, SchemaAnsweredPreserves
<1>7. CASE TakeDelivery
  BY <1>7, TakeDeliveryPreserves
<1> QED BY <1>1, <1>2, <1>3, <1>4, <1>5, <1>6, <1>7 DEF Next, Step

-----------------------------------------------------------------------------
(* Theorems.                                                               *)

\* Every behaviour of the registry, the endpoint and the turn keeps the
\* invariant, for any program, calls and limits.
THEOREM LiveInvariant == Spec => []LInv
  BY InitHolds, NextPreserves, PTL DEF Spec

\* An operation id changes the document at most once, and its receipt says
\* whether it has (executeCommand, abortPending).
THEOREM ReceiptsAreAlwaysTrue == Spec => []ReceiptsAreTrue
<1>1. LInv => ReceiptsAreTrue
  <2> SUFFICES ASSUME LInv PROVE ReceiptsAreTrue
    OBVIOUS
  <2>1. ASSUME NEW t \in Turns, NEW o \in Ops, ledger[t][o] # None
        PROVE  ledger[t][o].input \in Calls
    <3>1. ledger[t][o] \in Receipts
      BY <2>1 DEF LInv, Typed
    <3> QED BY <3>1 DEF Receipts
  <2>2. TypeOK
    BY <2>1 DEF LInv, Typed, TypeOK
  <2> QED BY <2>2 DEF LInv, LedgerInv, IsTrue, ReceiptsAreTrue
<1> QED BY <1>1, LiveInvariant, PTL

\* What a turn shows as results are answers to its own calls (begin,
\* TakeDelivery).
THEOREM ResultsAreAlwaysOfTheTurn == Spec => []ResultsAreOfTheTurn
<1>1. LInv => ResultsAreOfTheTurn
  BY DEF LInv
<1> QED BY <1>1, LiveInvariant, PTL

\* Only EditLive changes something on behalf of the agent.
LEMMA OnlyEditsApply ==
  ASSUME LInv, [Next]_vars, NEW t \in Turns, NEW o \in Ops, Applies(t, o)
  PROVE  \E input \in Calls : EditLive(o, input) /\ AgentChange(o) /\ t = turn
<1>1. applied' # applied
  BY DEF Applies
<1>2. PICK op \in Ops, input \in Calls : EditLive(op, input)
  <2>1. ~UNCHANGED vars
    BY <1>1 DEF vars
  <2>2. ~(UserEdit \/ UserSave \/ CloseDocument \/ Remount \/ Stop \/ TakeDelivery)
    BY <1>1 DEF UserEdit, UserSave, CloseDocument, Remount, Stop, TakeDelivery
  <2>3. ~\E s \in Steps : Pin(s)
    BY <1>1 DEF Pin
  <2>4. ~\E chosen \in SUBSET pins, mode \in {"read", "edit"} : Begin(chosen, mode)
    BY <1>1 DEF Begin
  <2>5. \A op \in Ops : ~(RequestSchema(op) \/ SchemaAnswered(op))
    BY <1>1 DEF RequestSchema, SchemaAnswered
  <2>6. \A op \in Ops, input \in Calls :
          ~(Replay(op, input) \/ Refuse(op, input) \/ ReadLive(op, input) \/ StartRead(op, input))
    BY <1>1 DEF Replay, Refuse, ReadLive, StartRead
  <2> QED BY <2>1, <2>2, <2>3, <2>4, <2>5, <2>6 DEF Next, Step
<1>3. turn > 0 /\ New(op)
  BY <1>2 DEF EditLive, Reaches
<1>4. turn \in Turns /\ applied[turn][op] = 0
  BY <1>3, NewHasChangedNothing
<1>5. AgentChange(op)
  BY <1>1, <1>2 DEF EditLive
<1>6. t = turn /\ o = op
  BY <1>4, <1>5, AgentChangeIs DEF Applies
<1> QED BY <1>2, <1>5, <1>6

LEMMA AppliedByEdit ==
  ASSUME LInv, [Next]_vars, NEW t \in Turns, NEW o \in Ops, Applies(t, o)
  PROVE  \E input \in Calls :
           /\ input.kind \in {"note", "inputs"} /\ Reaches(o) /\ MayEdit(input) /\ t = turn
           /\ ledger'[t][o].input = input
<1>1. PICK input \in Calls : EditLive(o, input) /\ t = turn
  BY OnlyEditsApply
<1>2. turn > 0 /\ Reaches(o) /\ MayEdit(input) /\ input.kind \in {"note", "inputs"} /\ turn' = turn
  BY <1>1 DEF EditLive, Reaches
<1>3. PICK receipt \in Receipts : Store(o, receipt) /\ receipt.input = input
  <2>1. Store(o, EditReceipt(input, TRUE)) \/ Store(o, EditReceipt(input, FALSE)) \/ Store(o, Unknown(input))
    BY <1>1 DEF EditLive
  <2>2. /\ EditReceipt(input, TRUE) \in Receipts /\ EditReceipt(input, FALSE) \in Receipts
        /\ Unknown(input) \in Receipts
    BY EditIsTrue, UnknownIsTrue
  <2>3. /\ EditReceipt(input, TRUE).input = input /\ EditReceipt(input, FALSE).input = input
        /\ Unknown(input).input = input
    BY DEF EditReceipt, Unknown
  <2> QED BY <2>1, <2>2, <2>3
<1>4. ledger'[turn][o] = receipt
  BY <1>2, <1>3, StoreStep
<1> QED BY <1>1, <1>2, <1>3, <1>4

\* Whatever the user, a save, the host or a new mount of the editor did since,
\* an edit is applied over the document that the agent has read in this scope
\* (ReadProof, CurrentRevision, StillSeen).
THEOREM EditsAlwaysFollowTheirRead == Spec => EditsWhatWasRead
<1> DEFINE Follows(t, o) ==
      \E p \in Ops :
        /\ IsRead(ledger[t][p])
        /\ ledger[t][p].document = document
        /\ ledger[t][p].session = session
        /\ ledger'[t][o].input.kind = "inputs" =>
             ledger[t][p].input = [kind |-> "schema", step |-> ledger'[t][o].input.step]
<1>1. ASSUME LInv, [Next]_vars, NEW t \in Turns, NEW o \in Ops, Applies(t, o)
      PROVE  Follows(t, o)
  <2>1. PICK input \in Calls :
          /\ input.kind \in {"note", "inputs"} /\ Reaches(o) /\ MayEdit(input) /\ t = turn
          /\ ledger'[t][o].input = input
    BY <1>1, AppliedByEdit
  <2>2. input.readOp \in Ops
    BY <2>1, CallsAssumption DEF Inputs
  <2>3. /\ IsRead(ledger[t][input.readOp]) /\ ledger[t][input.readOp].revision = revision
        /\ input.kind = "inputs" =>
             ledger[t][input.readOp].input = [kind |-> "schema", step |-> input.step]
        /\ scopes[t].target = Target
    BY <2>1 DEF MayEdit, ReadProof, CurrentRevision, Authorized, Scope
  <2>4. OfItsScope(t, ledger[t][input.readOp]) /\ StillTrue(ledger[t][input.readOp])
    BY <1>1, <2>2, <2>3 DEF LInv, ReadsInv
  <2>5. ledger[t][input.readOp].session = session
    BY <2>3, <2>4 DEF OfItsScope, Target
  <2>6. ledger[t][input.readOp].document = document
    BY <2>3, <2>4, <2>5 DEF StillTrue
  <2> QED BY <2>1, <2>2, <2>3, <2>5, <2>6
<1>2. LInv /\ [Next]_vars => [\A t \in Turns, o \in Ops : Applies(t, o) => Follows(t, o)]_vars
  BY <1>1
<1> QED BY <1>2, LiveInvariant, PTL DEF Spec, EditsWhatWasRead

\* The row that is edited is the one that was pinned, by its birth and not
\* only by its id (readStep, sameRow, Observe).
THEOREM RowsAreNeverSubstituted == Spec => RowIsNeverSubstituted
<1> DEFINE Same(t, o) ==
      LET s == ledger'[t][o].input.step
      IN  s \in DOMAIN scopes[t].births /\ scopes[t].births[s] = birth[s]
<1>1. ASSUME LInv, [Next]_vars, NEW t \in Turns, NEW o \in Ops, Applies(t, o)
      PROVE  Same(t, o)
  <2>1. PICK input \in Calls :
          /\ input.kind \in {"note", "inputs"} /\ Reaches(o) /\ MayEdit(input) /\ t = turn
          /\ ledger'[t][o].input = input
    BY <1>1, AppliedByEdit
  <2>2. /\ scopes[t] # None /\ scopes[t].target = Target
        /\ input.step \in DOMAIN scopes[t].grants
        /\ TokenOf(input.step) = scopes[t].grants[input.step]
    BY <2>1 DEF Reaches, MayEdit, Authorized, Scope, GrantedStep, SameRow
  <2>3. /\ DOMAIN scopes[t].births = DOMAIN scopes[t].grants
        /\ Names(input.step, scopes[t].grants[input.step], scopes[t].births[input.step])
    BY <1>1, <2>2 DEF LInv, GrantsInv, Target
  <2>4. sequence \in Nat
    BY <1>1 DEF LInv, Typed
  <2>5. ~Fresh(input.step) /\ rows[input.step].token = scopes[t].grants[input.step]
    BY <2>2, <2>3, <2>4 DEF TokenOf, Names
  <2> QED BY <2>1, <2>2, <2>3, <2>5 DEF Names
<1>2. LInv /\ [Next]_vars => [\A t \in Turns, o \in Ops : Applies(t, o) => Same(t, o)]_vars
  BY <1>1
<1> QED BY <1>2, LiveInvariant, PTL DEF Spec, RowIsNeverSubstituted

-----------------------------------------------------------------------------
(***************************************************************************)
(* The operations keep the contract of writes.  A receipt is written into  *)
(* an empty place of the turn that runs, and leaves the ledger only with   *)
(* the scope of an earlier turn; an operation that changes the document    *)
(* gets its receipt in the same step.                                      *)
(***************************************************************************)

LEMMA ClosingSettles ==
  ASSUME LInv, NEW ts \in SUBSET Turns, NEW t \in Turns, NEW o \in Ops
  PROVE  Closing(ts)[t][o] = ledger[t][o] \/ (ledger[t][o] = None /\ t = turn)
<1>1. CASE <<t, o>> \in Aborted(ts)
  <2>1. reads[t][o] # None
    BY <1>1 DEF Aborted
  <2> QED BY <2>1 DEF LInv, LedgerInv
<1>2. CASE <<t, o>> \notin Aborted(ts)
  BY <1>2 DEF Closing
<1> QED BY <1>1, <1>2

\* No receipt is revised; what is forgotten belongs to an earlier turn.
LEMMA ReceiptsLast ==
  ASSUME LInv, [Next]_vars, NEW t \in Turns, NEW o \in Ops
  PROVE  /\ turn' = turn \/ turn' = turn + 1
         /\ \/ ledger'[t][o] = ledger[t][o]
            \/ ledger[t][o] = None /\ t = turn
            \/ ledger'[t][o] = None /\ t < turn'
<1> DEFINE Lasts == \/ ledger'[t][o] = ledger[t][o]
                    \/ ledger[t][o] = None /\ t = turn
                    \/ ledger'[t][o] = None /\ t < turn'
<1>0. /\ turn \in Nat /\ Turns \subseteq Nat /\ 1 .. turn \subseteq Turns
      /\ ledger \in [Turns -> [Ops -> Receipts \cup {None}]]
      /\ t > turn => ledger[t][o] = None
  BY BoundsAssumption DEF LInv, Typed, LedgerInv, Turns
<1>1. CASE \/ UNCHANGED vars \/ UserEdit \/ UserSave \/ CloseDocument \/ TakeDelivery
           \/ \E s \in Steps : Pin(s)
  BY <1>1 DEF vars, UserEdit, UserSave, CloseDocument, TakeDelivery, Pin, registry, chat
<1>2. CASE Remount \/ Stop
  <2>1. turn' = turn /\ \E ts \in SUBSET Turns : ledger' = Closing(ts)
    BY <1>2 DEF Remount, Stop, Closed
  <2> QED BY <2>1, ClosingSettles
<1>3. ASSUME NEW chosen \in SUBSET pins, NEW mode \in {"read", "edit"}, Begin(chosen, mode)
      PROVE  turn' = turn + 1 /\ Lasts
  <2> DEFINE previous == {u \in 1 .. turn : scopes[u] # None}
             kept == Retained(turn + 1)
  <2>1. /\ turn' = turn + 1
        /\ \/ ledger' = [u \in Turns |-> IF u \in kept THEN Closing(kept)[u] ELSE [p \in Ops |-> None]]
           \/ ledger' = Closing(previous)
    BY <1>3 DEF Begin
  <2>2. previous \in SUBSET Turns /\ kept \in SUBSET Turns
    BY <1>0 DEF Retained
  <2> HIDE DEF previous, kept
  <2>3. CASE ledger' = Closing(previous)
    BY <2>1, <2>2, <2>3, ClosingSettles
  <2>4. CASE ledger' = [u \in Turns |-> IF u \in kept THEN Closing(kept)[u] ELSE [p \in Ops |-> None]]
    <3>1. CASE t \in kept
      <4>1. ledger'[t] = Closing(kept)[t]
        BY <2>4, <3>1
      <4> QED BY <2>1, <2>2, <4>1, ClosingSettles
    <3>2. CASE t \notin kept
      <4>1. ledger'[t][o] = None
        BY <2>4, <3>2
      <4> QED BY <1>0, <2>1, <4>1
    <3> QED BY <3>1, <3>2
  <2> QED BY <2>1, <2>3, <2>4
<1>4. ASSUME NEW op \in Ops, NEW receipt, turn > 0, turn' = turn, ledger[turn][op] = None,
             ledger' = [ledger EXCEPT ![turn][op] = receipt]
      PROVE  Lasts
  <2>1. turn \in Turns
    BY <1>4, TheTurn DEF LInv
  <2> QED BY <1>0, <1>4, <2>1
<1>5. ASSUME NEW op \in Ops, NEW input \in Calls,
             \/ Replay(op, input) \/ Refuse(op, input) \/ ReadLive(op, input)
             \/ EditLive(op, input) \/ StartRead(op, input)
      PROVE  turn' = turn /\ Lasts
  <2>1. turn' = turn /\ turn > 0
    BY <1>5 DEF Replay, Refuse, ReadLive, EditLive, StartRead, Reaches, chat
  <2>2. CASE Replay(op, input) \/ StartRead(op, input)
    BY <2>1, <2>2 DEF Replay, StartRead, registry
  <2>3. CASE Refuse(op, input) \/ ReadLive(op, input) \/ EditLive(op, input)
    <3>1. New(op) /\ \E receipt : Store(op, receipt)
      BY <2>3 DEF Refuse, ReadLive, EditLive
    <3> QED BY <1>4, <2>1, <3>1 DEF New, Store
  <2> QED BY <1>5, <2>1, <2>2, <2>3
<1>6. ASSUME NEW op \in Ops, RequestSchema(op) \/ SchemaAnswered(op)
      PROVE  turn' = turn /\ Lasts
  <2>1. turn' = turn /\ turn > 0 /\ reads[turn][op] # None
    BY <1>6 DEF RequestSchema, SchemaAnswered, Reading
  <2>2. turn \in Turns /\ ledger[turn][op] = None
    BY <2>1, TheTurn DEF LInv, LedgerInv
  <2>3. ledger' = ledger \/ \E receipt : ledger' = [ledger EXCEPT ![turn][op] = receipt]
    BY <1>6 DEF RequestSchema, SchemaAnswered, FinishRead
  <2> QED BY <1>4, <2>1, <2>2, <2>3
<1> QED BY <1>0, <1>1, <1>2, <1>3, <1>5, <1>6 DEF Next, Step

\* A change of the agent is told in the step that makes it, as a change or as an
\* outcome that is unknown.
LEMMA ChangesAreTold ==
  ASSUME LInv, [Next]_vars, NEW t \in Turns, NEW o \in Ops, Applies(t, o)
  PROVE  /\ t = turn /\ ledger[t][o] = None /\ applied[t][o] = 0 /\ applied'[t][o] = 1
         /\ ToldOf(t, o)' \in {"applied", "unknown"}
<1>1. PICK input \in Calls : EditLive(o, input) /\ AgentChange(o) /\ t = turn
  BY OnlyEditsApply
<1>2. turn > 0 /\ New(o) /\ turn' = turn
  BY <1>1 DEF EditLive, Reaches
<1>3. applied[t][o] = 0 /\ applied'[t][o] = 1
  BY <1>1, <1>2, NewHasChangedNothing, AgentChangeIs
<1>4. PICK receipt \in {EditReceipt(input, TRUE), Unknown(input)} : Store(o, receipt)
  <2>1. applied' # applied
    BY DEF Applies
  <2> QED BY <1>1, <2>1 DEF EditLive
<1>5. receipt \in Receipts
  BY EditIsTrue, UnknownIsTrue
<1>6. ledger'[t][o] = receipt /\ receipt # None
  BY <1>1, <1>2, <1>4, <1>5, StoreStep, NoneAssumption
<1>7. ToldOf(t, o)' = IF ~receipt.ok THEN receipt.application
                     ELSE IF "changed" \in DOMAIN receipt /\ receipt.changed THEN "applied"
                     ELSE "not_applied"
  BY <1>6 DEF ToldOf
<1>8. receipt = Unknown(input) => ToldOf(t, o)' = "unknown"
  <2> SUFFICES ASSUME receipt = Unknown(input) PROVE ToldOf(t, o)' = "unknown"
    OBVIOUS
  <2>1. ~receipt.ok /\ receipt.application = "unknown"
    BY DEF Unknown
  <2> QED BY <1>7, <2>1
<1>9. receipt = EditReceipt(input, TRUE) => ToldOf(t, o)' = "applied"
  <2> SUFFICES ASSUME receipt = EditReceipt(input, TRUE) PROVE ToldOf(t, o)' = "applied"
    OBVIOUS
  <2>1. receipt.ok /\ receipt.changed /\ "changed" \in DOMAIN receipt
    BY DEF EditReceipt
  <2> QED BY <1>7, <2>1
<1> QED BY <1>1, <1>2, <1>3, <1>4, <1>8, <1>9 DEF New

\* What a turn has been told agrees with what was changed.
ToldAgrees(t, o) ==
  /\ ToldOf(t, o) \in WriteContract!Results /\ applied[t][o] \in {0, 1}
  /\ ToldOf(t, o) = "applied" => applied[t][o] = 1
  /\ ledger[t][o] = None /\ t = turn => ToldOf(t, o) = "none" /\ applied[t][o] = 0

TurnsAreTold == \A t \in Turns, o \in Ops : ToldAgrees(t, o)

LEMMA TurnsAreToldTruly == LInv => TurnsAreTold
<1> SUFFICES ASSUME LInv, NEW t \in Turns, NEW o \in Ops PROVE ToldAgrees(t, o)
  BY DEF TurnsAreTold
<1> DEFINE receipt == ledger[t][o]
<1>1. IsTrue(receipt, applied[t][o]) /\ (t >= turn /\ receipt = None => applied[t][o] = 0)
  BY DEF LInv, LedgerInv
<1>0. applied[t][o] \in Nat /\ receipt \in Receipts \cup {None} /\ t \in Nat /\ turn \in Nat
  <2>1. Typed
    BY DEF LInv
  <2>2. applied[t][o] \in Nat
    BY <2>1 DEF Typed
  <2>3. receipt \in Receipts \cup {None}
    BY <2>1 DEF Typed
  <2> QED BY <2>1, <2>2, <2>3, BoundsAssumption DEF Typed, Turns
<1>2. applied[t][o] \in {0, 1}
  BY <1>0, <1>1 DEF IsTrue
<1>3. receipt # None /\ ~receipt.ok => receipt.application \in {"not_applied", "unknown"}
  <2>1. ASSUME receipt # None, ~receipt.ok PROVE receipt \in Refusals
    <3>1. receipt \notin EditReceipts
      BY <2>1 DEF EditReceipts
    <3> QED BY <1>0, <2>1, <3>1, Kinds, ReadsAreOk
  <2> QED BY <2>1 DEF Refusals
<1>4. ToldOf(t, o) \in WriteContract!Results
  BY <1>3 DEF ToldOf, WriteContract!Results
<1>5. ToldOf(t, o) = "applied" => applied[t][o] = 1
  BY <1>1, <1>3 DEF ToldOf, IsTrue
<1>6. receipt = None /\ t = turn => ToldOf(t, o) = "none" /\ applied[t][o] = 0
  BY <1>0, <1>1 DEF ToldOf
<1> QED BY <1>2, <1>4, <1>5, <1>6 DEF ToldAgrees

\* The operations of the agent keep the contract of writes, for any calls, also
\* repeated and late ones, and any number of turns and mounts (executeCommand,
\* executeAsync, closeScope, begin).
THEOREM OperationsKeepTheContract == Spec => ImplementsWriteResults
<1>1. Init => WriteContract!ContractInit
  <2> SUFFICES ASSUME Init, NEW w \in Turns \X Ops PROVE applied[w[1]][w[2]] = 0 /\ ToldOf(w[1], w[2]) = "none"
    BY DEF WriteContract!ContractInit
  <2> QED BY DEF Init, ToldOf, Turns
<1>2. LInv /\ TurnsAreTold /\ TurnsAreTold' /\ [Next]_vars
        => [WriteContract!ContractNext]_(WriteContract!resultVars)
  <2> SUFFICES ASSUME LInv, TurnsAreTold, TurnsAreTold', [Next]_vars PROVE WriteContract!ContractNext
    OBVIOUS
  <2>1. ASSUME NEW t \in Turns, NEW o \in Ops
        PROVE  /\ applied'[t][o] \in {0, 1} /\ ToldOf(t, o)' \in WriteContract!Results
               /\ \/ applied[t][o] = 0 /\ ToldOf(t, o) \in {"none", "unknown"} /\ applied'[t][o] = 1
                  \/ applied'[t][o] = applied[t][o]
               /\ \/ ToldOf(t, o) = "none" /\ ToldOf(t, o)' = IF applied'[t][o] = 1 THEN "applied" ELSE "not_applied"
                  \/ ToldOf(t, o) = "none" /\ ToldOf(t, o)' = "unknown"
                  \/ ToldOf(t, o)' = ToldOf(t, o) \/ ToldOf(t, o)' = "forgotten"
    <3>1. ToldAgrees(t, o)
      BY DEF TurnsAreTold
    <3>2. ToldAgrees(t, o)'
      BY DEF TurnsAreTold
    <3>3. /\ turn' = turn \/ turn' = turn + 1
          /\ \/ ledger'[t][o] = ledger[t][o]
             \/ ledger[t][o] = None /\ t = turn
             \/ ledger'[t][o] = None /\ t < turn'
      BY ReceiptsLast
    <3>4. CASE Applies(t, o)
      BY <3>1, <3>2, <3>4, ChangesAreTold DEF ToldAgrees
    <3>5. CASE ~Applies(t, o)
      <4>1. applied'[t][o] = applied[t][o] /\ turn \in Nat /\ t \in Nat
        BY <3>5 DEF Applies, LInv, Typed, Turns
      <4>2. CASE ledger[t][o] = None /\ t = turn
        BY <3>1, <3>2, <4>1, <4>2 DEF ToldAgrees, WriteContract!Results
      <4>3. CASE ledger'[t][o] = None /\ t < turn'
        <5>1. ToldOf(t, o)' = "forgotten"
          BY <4>3 DEF ToldOf
        <5> QED BY <3>2, <4>1, <5>1 DEF ToldAgrees
      <4>4. CASE ledger'[t][o] = ledger[t][o]
        <5>1. ToldOf(t, o)' = "forgotten" \/ ToldOf(t, o)' = ToldOf(t, o)
          BY <3>3, <4>1, <4>4 DEF ToldOf
        <5> QED BY <3>2, <4>1, <5>1 DEF ToldAgrees
      <4> QED BY <3>3, <4>2, <4>3, <4>4
    <3> QED BY <3>4, <3>5
  <2>2. ASSUME NEW w \in Turns \X Ops PROVE w[1] \in Turns /\ w[2] \in Ops
    OBVIOUS
  <2> QED BY <2>1, <2>2 DEF WriteContract!ContractNext, WriteContract!CarriedOut, WriteContract!Told,
             WriteContract!GivenUp, WriteContract!Forgotten
<1> QED BY <1>1, <1>2, LiveInvariant, TurnsAreToldTruly, PTL DEF Spec, ImplementsWriteResults, WriteContract!ContractSpec

-----------------------------------------------------------------------------
(* No receipt is lost on its way to the turn: the safety half of            *)
(* ReadsAreAnswered.  A schema read that ends hands its receipt to a        *)
(* delivery, and the turn takes only the delivery of a first call.          *)

OnItsWay(op) ==
  \/ results[op] # None
  \/ \E d \in deliveries : d.turn = turn /\ d.op = op /\ d.first

ReceiptsReachTheTurn ==
  turn > 0 => \A op \in Ops : ledger[turn][op] # None => OnItsWay(op)

\* A read whose answer the turn will not take is one that it has a result for.
SecondsHaveResults ==
  turn > 0 => \A op \in Ops :
    reads[turn][op] # None /\ ~reads[turn][op].first => results[op] # None

WayInv == ReceiptsReachTheTurn /\ SecondsHaveResults

LEMMA WayStep ==
  ASSUME WayInv, turn' = turn,
         \A o \in Ops : results[o] # None => results'[o] # None,
         \A d \in deliveries : d \in deliveries' \/ (d.turn = turn /\ d.first => results'[d.op] # None),
         turn > 0 => \A o \in Ops :
           /\ ledger'[turn][o] = ledger[turn][o] \/ OnItsWay(o)'
           /\ reads'[turn][o] # None /\ ~reads'[turn][o].first =>
                \/ results'[o] # None
                \/ reads[turn][o] # None /\ ~reads[turn][o].first
  PROVE  WayInv'
<1> SUFFICES ASSUME turn > 0, NEW o \in Ops
             PROVE  /\ ledger'[turn][o] # None => OnItsWay(o)'
                    /\ reads'[turn][o] # None /\ ~reads'[turn][o].first => results'[o] # None
  BY DEF WayInv, ReceiptsReachTheTurn, SecondsHaveResults
<1>1. ASSUME ledger'[turn][o] = ledger[turn][o], ledger[turn][o] # None PROVE OnItsWay(o)'
  BY <1>1 DEF WayInv, ReceiptsReachTheTurn, OnItsWay
<1> QED BY <1>1 DEF WayInv, SecondsHaveResults

\* The answer of a read that ends is taken, or was not needed.
LEMMA AnswerIsOnItsWay ==
  ASSUME LInv, WayInv, turn > 0, turn' = turn, UNCHANGED results, NEW o \in Ops,
         reads[turn][o] # None, NEW d \in deliveries',
         d.turn = turn, d.op = o, d.first = reads[turn][o].first
  PROVE  OnItsWay(o)'
  BY DEF WayInv, SecondsHaveResults, OnItsWay

LEMMA ClosedKeepsWay ==
  ASSUME LInv, WayInv, NEW ts \in SUBSET Turns, Closed(ts), UNCHANGED <<turn, results>>
  PROVE  WayInv'
<1>1. /\ ledger' = Closing(ts) /\ deliveries' = deliveries \cup Answers(ts)
      /\ reads' = [t \in Turns |-> [o \in Ops |-> IF t \in ts THEN None ELSE reads[t][o]]]
  BY DEF Closed
<1> SUFFICES ASSUME turn > 0, NEW o \in Ops
             PROVE  /\ ledger'[turn][o] = ledger[turn][o] \/ OnItsWay(o)'
                    /\ reads'[turn][o] # None => reads'[turn][o] = reads[turn][o]
  BY <1>1, WayStep
<1>2. turn \in Turns
  BY TheTurn DEF LInv
<1>3. ASSUME <<turn, o>> \in Aborted(ts) PROVE OnItsWay(o)'
  <2> DEFINE p == <<turn, o>>
             d == [turn |-> p[1], op |-> p[2], receipt |-> RefusalOf(p), first |-> reads[p[1]][p[2]].first]
  <2>1. d \in Answers(ts)
    BY <1>3 DEF Answers
  <2>2. d.turn = turn /\ d.op = o /\ d.first = reads[turn][o].first
    OBVIOUS
  <2>3. reads[turn][o] # None
    BY <1>3 DEF Aborted
  <2> HIDE DEF d
  <2> QED BY <1>1, <2>1, <2>2, <2>3, AnswerIsOnItsWay
<1>4. <<turn, o>> \notin Aborted(ts) => ledger'[turn][o] = ledger[turn][o]
  BY <1>1, <1>2 DEF Closing
<1> QED BY <1>1, <1>2, <1>3, <1>4

LEMMA BeginKeepsWay ==
  ASSUME LInv, NEW chosen \in SUBSET pins, NEW mode \in {"read", "edit"}, Begin(chosen, mode)
  PROVE  WayInv'
<1> DEFINE previous == {u \in 1 .. turn : scopes[u] # None}
<1>1. /\ turn' = turn + 1 /\ turn \in Nat /\ turn + 1 \in Turns /\ Turns \subseteq Nat
      /\ reads' = [u \in Turns |-> [o \in Ops |-> None]]
  BY BoundsAssumption DEF Begin, LInv, Typed, Turns
<1>2. turn + 1 \notin Retained(turn + 1) /\ turn + 1 \notin previous
  BY <1>1 DEF Retained
<1>3. \A o \in Ops : Closing(previous)[turn + 1][o] = ledger[turn + 1][o]
  BY <1>1, <1>2 DEF Closing, Aborted
<1>4. \A o \in Ops : ledger[turn + 1][o] = None
  BY <1>1 DEF LInv, LedgerInv
<1>5. \A o \in Ops : ledger'[turn + 1][o] = None
  BY <1>1, <1>2, <1>3, <1>4 DEF Begin
<1> QED BY <1>1, <1>5 DEF WayInv, ReceiptsReachTheTurn, SecondsHaveResults

\* The result of an operation stays, whatever is answered to its repetitions.
LEMMA KeptResults ==
  ASSUME LInv, turn > 0, NEW op \in Ops, NEW receipt \in Receipts, Keep(op, receipt)
  PROVE  results'[op] # None /\ \A o \in Ops : results[o] # None => results'[o] # None
<1>1. /\ turn \in Turns /\ receipt.ok \in BOOLEAN
      /\ results \in [Ops -> [turn : Turns, ok : BOOLEAN] \cup {None}]
  BY TheTurn, ReceiptsAreOk DEF LInv, Typed
<1>2. Result(turn, receipt.ok) # None
  BY <1>1, NoneAssumption DEF Result
<1> QED BY <1>1, <1>2 DEF Keep

LEMMA StoreKeepsWay ==
  ASSUME LInv, WayInv, turn > 0, NEW op \in Ops, NEW receipt \in Receipts, Store(op, receipt),
         UNCHANGED <<reads, turn, deliveries>>
  PROVE  WayInv'
<1>1. /\ results'[op] # None /\ \A o \in Ops : results[o] # None => results'[o] # None
      /\ \A o \in Ops : o # op => ledger'[turn][o] = ledger[turn][o]
  <2>1. turn \in Turns
    BY TheTurn DEF LInv
  <2> QED BY <2>1, KeptResults, StoreStep DEF Store
<1>2. OnItsWay(op)'
  BY <1>1 DEF OnItsWay
<1> QED BY <1>1, <1>2, WayStep

LEMMA CallKeepsWay ==
  ASSUME LInv, WayInv, NEW op \in Ops, NEW input \in Calls,
         \/ Replay(op, input) \/ Refuse(op, input) \/ ReadLive(op, input)
         \/ EditLive(op, input) \/ StartRead(op, input)
  PROVE  WayInv'
<1>1. turn > 0 /\ turn \in Turns
  BY TheTurn DEF LInv, Replay, Refuse, ReadLive, EditLive, StartRead, Reaches
<1>2. CASE Replay(op, input)
  <2>1. PICK receipt \in Receipts : Keep(op, receipt)
    <3>1. ledger[turn][op] # None => ledger[turn][op] \in Receipts
      BY <1>1 DEF LInv, Typed
    <3> QED BY <1>2, <3>1, RefusalIsTrue DEF Replay
  <2>2. \A o \in Ops : results[o] # None => results'[o] # None
    BY <1>1, <2>1, KeptResults
  <2> QED BY <1>2, <2>2, WayStep DEF Replay, registry
<1>3. CASE Refuse(op, input)
  <2>1. Refusal(input) \in Receipts
    BY RefusalIsTrue
  <2> QED BY <1>1, <1>3, <2>1, StoreKeepsWay DEF Refuse
<1>4. CASE ReadLive(op, input)
  <2>1. PICK receipt \in ReadReceipts : Store(op, receipt)
    BY <1>1, <1>4, ReadNow DEF ReadLive, Authorized, Scope, LInv
  <2> QED BY <1>1, <1>4, <2>1, ReadIsTrue, StoreKeepsWay DEF ReadLive
<1>5. CASE EditLive(op, input)
  <2>1. PICK receipt \in Receipts : Store(op, receipt)
    BY <1>5, UnknownIsTrue, EditIsTrue DEF EditLive
  <2> QED BY <1>1, <1>5, <2>1, StoreKeepsWay DEF EditLive
<1>6. CASE StartRead(op, input)
  <2>1. /\ UNCHANGED <<turn, results, ledger, deliveries>>
        /\ reads' = [reads EXCEPT ![turn][op] =
             [input |-> input, stage |-> "queued", seen |-> None, first |-> results[op] = None]]
    BY <1>6 DEF StartRead, chat
  <2>2. reads \in [Turns -> [Ops -> PendingReads \cup {None}]]
    BY DEF LInv, Typed
  <2>3. \A o \in Ops : o # op => reads'[turn][o] = reads[turn][o]
    BY <1>1, <2>1, <2>2
  <2>4. reads'[turn][op].first = (results[op] = None)
    BY <1>1, <2>1, <2>2
  <2> QED BY <2>1, <2>3, <2>4, WayStep
<1> QED BY <1>2, <1>3, <1>4, <1>5, <1>6

LEMMA FinishKeepsWay ==
  ASSUME LInv, WayInv, NEW op \in Ops, turn > 0, reads[turn][op] # None,
         NEW receipt, FinishRead(op, receipt), UNCHANGED <<turn, results>>
  PROVE  WayInv'
<1> DEFINE d == [turn |-> turn, op |-> op, receipt |-> receipt, first |-> reads[turn][op].first]
<1>1. /\ ledger' = [ledger EXCEPT ![turn][op] = receipt] /\ deliveries' = deliveries \cup {d}
      /\ reads' = [reads EXCEPT ![turn][op] = None]
  BY DEF FinishRead
<1>2. d.turn = turn /\ d.op = op /\ d.first = reads[turn][op].first
  OBVIOUS
<1> HIDE DEF d
<1>3. OnItsWay(op)'
  BY <1>1, <1>2, AnswerIsOnItsWay
<1>4. /\ turn \in Turns /\ reads \in [Turns -> [Ops -> PendingReads \cup {None}]]
      /\ ledger \in [Turns -> [Ops -> Receipts \cup {None}]]
  BY TheTurn DEF LInv, Typed
<1>5. /\ reads'[turn][op] = None
      /\ \A o \in Ops : o # op => ledger'[turn][o] = ledger[turn][o] /\ reads'[turn][o] = reads[turn][o]
  BY <1>1, <1>4
<1> QED BY <1>1, <1>3, <1>5, WayStep

LEMMA ReadKeepsWay ==
  ASSUME LInv, WayInv, NEW op \in Ops, RequestSchema(op) \/ SchemaAnswered(op)
  PROVE  WayInv'
<1>1. turn > 0 /\ reads[turn][op] # None /\ UNCHANGED <<turn, results>>
  BY DEF RequestSchema, SchemaAnswered, Reading
<1>2. /\ turn \in Turns /\ reads[turn][op] \in PendingReads
      /\ reads \in [Turns -> [Ops -> PendingReads \cup {None}]]
  BY <1>1, PendingAt
<1>3. ASSUME NEW receipt, FinishRead(op, receipt) PROVE WayInv'
  BY <1>1, <1>3, FinishKeepsWay
<1>4. ASSUME NEW read, read.first = reads[turn][op].first,
             reads' = [reads EXCEPT ![turn][op] = read], UNCHANGED <<ledger, deliveries>>
      PROVE  WayInv'
  <2>1. reads'[turn][op] = read /\ \A o \in Ops : o # op => reads'[turn][o] = reads[turn][o]
    BY <1>2, <1>4
  <2> QED BY <1>1, <1>4, <2>1, WayStep
<1>5. CASE RequestSchema(op)
  <2> DEFINE next == [reads[turn][op] EXCEPT !.stage = "loading",
                                             !.seen = ReadReceipt(reads[turn][op].input)]
  <2>1. CASE /\ reads' = [reads EXCEPT ![turn][op].stage = "loading",
                                       ![turn][op].seen = ReadReceipt(reads[turn][op].input)]
             /\ UNCHANGED <<ledger, deliveries>>
    <3>1. reads' = [reads EXCEPT ![turn][op] = next]
      BY <1>2, <2>1
    <3>2. next.first = reads[turn][op].first
      BY <1>2 DEF PendingReads
    <3> HIDE DEF next
    <3> QED BY <1>4, <2>1, <3>1, <3>2
  <2>2. CASE FinishRead(op, Refusal(reads[turn][op].input))
    BY <1>3, <2>2
  <2> QED BY <1>5, <2>1, <2>2 DEF RequestSchema
<1>6. CASE SchemaAnswered(op)
  <2> DEFINE next == [reads[turn][op] EXCEPT !.stage = "control"]
  <2>1. CASE /\ reads' = [reads EXCEPT ![turn][op].stage = "control"]
             /\ UNCHANGED <<ledger, deliveries>>
    <3>1. reads' = [reads EXCEPT ![turn][op] = next]
      BY <1>2, <2>1
    <3>2. next.first = reads[turn][op].first
      BY <1>2 DEF PendingReads
    <3> HIDE DEF next
    <3> QED BY <1>4, <2>1, <3>1, <3>2
  <2>2. CASE \/ FinishRead(op, reads[turn][op].seen)
             \/ FinishRead(op, Refusal(reads[turn][op].input))
    BY <1>3, <2>2
  <2> QED BY <1>6, <2>1, <2>2 DEF SchemaAnswered
<1> QED BY <1>5, <1>6

LEMMA TakeKeepsWay ==
  ASSUME LInv, WayInv, TakeDelivery
  PROVE  WayInv'
<1>1. PICK d \in deliveries :
        /\ deliveries' = deliveries \ {d}
        /\ IF OfThisTurn(d) /\ d.first
             THEN results' = [results EXCEPT ![d.op] = Result(d.turn, d.receipt.ok /\ ~stopped)]
             ELSE UNCHANGED results
        /\ UNCHANGED <<registry, turn>>
  BY DEF TakeDelivery
<1>2. /\ d.turn \in Turns /\ d.op \in Ops
      /\ results \in [Ops -> [turn : Turns, ok : BOOLEAN] \cup {None}]
  BY DEF LInv, Typed
<1>3. PICK ok \in BOOLEAN : ok = (d.receipt.ok /\ ~stopped)
  OBVIOUS
<1>4. Result(d.turn, ok) # None
  BY <1>2, NoneAssumption DEF Result
<1>5. /\ OfThisTurn(d) /\ d.first => results'[d.op] # None
      /\ \A o \in Ops : results[o] # None => results'[o] # None
  BY <1>1, <1>2, <1>3, <1>4
<1> QED BY <1>1, <1>5, WayStep DEF OfThisTurn, registry

LEMMA WayNext == LInv /\ WayInv /\ [Next]_vars => WayInv'
<1> SUFFICES ASSUME LInv, WayInv, [Next]_vars PROVE WayInv'
  OBVIOUS
<1>1. ASSUME UNCHANGED <<ledger, reads, turn, results, deliveries>> PROVE WayInv'
  BY <1>1 DEF WayInv, ReceiptsReachTheTurn, SecondsHaveResults, OnItsWay
<1>2. CASE UserEdit \/ UserSave \/ CloseDocument \/ UNCHANGED vars
  BY <1>1, <1>2 DEF UserEdit, UserSave, CloseDocument, vars, registry, chat
<1>3. CASE \E s \in Steps : Pin(s)
  BY <1>1, <1>3 DEF Pin, chat
<1>4. CASE Remount \/ Stop
  <2>1. {t \in Turns : scopes[t] # None} \in SUBSET Turns
    OBVIOUS
  <2>2. {turn} \cap {t \in Turns : scopes[t] # None} \in SUBSET Turns
    OBVIOUS
  <2> QED BY <1>4, <2>1, <2>2, ClosedKeepsWay DEF Remount, Stop
<1>5. CASE \E chosen \in SUBSET pins, mode \in {"read", "edit"} : Begin(chosen, mode)
  BY <1>5, BeginKeepsWay
<1>6. ASSUME NEW op \in Ops, NEW input \in Calls,
             \/ Replay(op, input) \/ Refuse(op, input) \/ ReadLive(op, input)
             \/ EditLive(op, input) \/ StartRead(op, input)
      PROVE  WayInv'
  BY <1>6, CallKeepsWay
<1>7. ASSUME NEW op \in Ops, RequestSchema(op) \/ SchemaAnswered(op) PROVE WayInv'
  BY <1>7, ReadKeepsWay
<1>8. CASE TakeDelivery
  BY <1>8, TakeKeepsWay
<1> QED BY <1>2, <1>3, <1>4, <1>5, <1>6, <1>7, <1>8 DEF Next, Step

\* A call of this turn that has a receipt has its result, or the delivery that
\* will be it is on its way; no stop, remount or repeated call in between
\* leaves the agent without an answer (finishPending, abortPending, Keep).
THEOREM NoReceiptIsLost == Spec => []ReceiptsReachTheTurn
<1>1. Init => WayInv
  BY DEF Init, WayInv, ReceiptsReachTheTurn, SecondsHaveResults
<1> QED BY <1>1, WayNext, LiveInvariant, PTL DEF Spec, WayInv
=============================================================================
