--------------------- MODULE ProgramDocumentStorageProofs ---------------------
(***************************************************************************)
(* What every save of a program document may rely on, for any number of    *)
(* editors, saves, exports, crashes and writes from outside.  The argument *)
(* follows one request: its id is its own, so that an answer is about the  *)
(* ticket it finds; the lease keeps exports out between the comparison and *)
(* the write; and what the server calls persisted a file really held.      *)
(***************************************************************************)
EXTENDS ProgramDocumentStorage, TLAPS

Works == [step : Steps, seen : Content \cup {None}, parts : SUBSET Parts, code : Codes]
Sent == [id : Ids, editor : Editors, code : Codes, parts : SUBSET Parts]
EditorStates == [base : [Parts -> Content], draft : [Parts -> Content],
                 ticket : Requests \cup {None}, conflicts : SUBSET (Parts \cup {"target"})]
Bounds == [editors : SUBSET Editors, edits : Nat, saves : Nat,
           outside : Nat, exports : Nat, crashes : Nat]

Typed ==
  /\ disk \in [Parts -> Content] /\ stored \in [Parts -> SUBSET Content]
  /\ lease \in {"free", "server", "cli", "stale"}
  /\ export \in {"none", "body", "meta"} /\ raced \subseteq Parts
  /\ sent \subseteq Requests /\ queue \in Seq(Requests)
  /\ work \in Works /\ answers \subseteq Sent
  /\ editor \in [Editors -> EditorStates]
  /\ left \in Bounds /\ \E scenario \in Scenarios : left.saves <= scenario.saves

\* The lease has its holder, and only the head of the queue works.
LeaseInv ==
  /\ lease = "server" <=> work.step # "queued" /\ work.code # "project_busy"
  /\ lease = "cli" <=> export # "none"
  /\ queue = <<>> => work.step = "queued"
  /\ work.step = "queued" => work = Idle
  /\ work.code # "ok" => work.step = "leaving"

\* The ids of requests, and of their answers, are handed out downwards.
IdsAreSpent ==
  /\ \A r \in sent : r.id > left.saves
  /\ \A i \in DOMAIN queue : queue[i].id > left.saves
  /\ \A a \in answers : a.id > left.saves
  /\ \A e \in Editors : editor[e].ticket # None => editor[e].ticket.id > left.saves

\* An editor's ticket is the very request that travels under its id.
TicketsAreRequests ==
  \A e \in Editors : editor[e].ticket # None =>
    /\ \A r \in sent : r.id = editor[e].ticket.id => r = editor[e].ticket
    /\ \A i \in DOMAIN queue : queue[i].id = editor[e].ticket.id => queue[i] = editor[e].ticket

\* What counts as persisted was on disk: on the server, and in its answers.
PersistedWasStored ==
  /\ \A p \in Parts : disk[p] \in stored[p]
  /\ work.step = "compare" => work.seen \in stored["body"]
  /\ work.step = "leaving" /\ work.code = "ok" => work.parts = Parts
  /\ work.step # "queued" => \A p \in work.parts : Request.next[p] \in stored[p]
  /\ \A a \in answers, e \in Editors :
       editor[e].ticket # None /\ editor[e].ticket.id = a.id
         => \A p \in Advanced(a.code, a.parts) : editor[e].ticket.next[p] \in stored[p]

\* Between the comparison and the write nobody but an outsider changes the file,
\* and the metadata's turn comes when the body is persisted.
EstablishedStays ==
  /\ work.step = "compare" /\ "body" \notin raced => disk["body"] = work.seen
  /\ work.step = "body" /\ "body" \notin raced => disk["body"] = Request.expected["body"]
  /\ work.step = "meta" /\ "meta" \notin raced => disk["meta"] = Request.expected["meta"]
  /\ work.step \in {"recheck", "meta", "writing meta"} => work.parts = {"body"}

SInv == /\ Typed /\ LeaseInv /\ IdsAreSpent /\ TicketsAreRequests
        /\ PersistedWasStored /\ BaselineWasStored /\ EstablishedStays

LEMMA InitHolds == Init => SInv
<1> SUFFICES ASSUME Init PROVE SInv
  OBVIOUS
<1> USE DEF Init
<1>1. PICK start \in Files :
        /\ disk = start
        /\ editor = [e \in Editors |-> [base |-> start, draft |-> start,
                                        ticket |-> None, conflicts |-> {}]]
        /\ stored = [p \in Parts |-> {start[p]}]
  OBVIOUS
<1>2. left \in Bounds /\ \E scenario \in Scenarios : left.saves <= scenario.saves
  BY ScenariosAssumption DEF Bounds
<1>3. Typed
  <2>1. disk \in [Parts -> Content] /\ stored \in [Parts -> SUBSET Content]
    BY <1>1 DEF Files, Content
  <2>2. editor \in [Editors -> EditorStates]
    BY <1>1 DEF Files, Content, EditorStates
  <2>3. queue \in Seq(Requests) /\ work \in Works
    BY DEF Idle, Works, Steps, Codes, Content
  <2> QED BY <1>2, <2>1, <2>2, <2>3 DEF Typed
<1>4. LeaseInv /\ IdsAreSpent /\ TicketsAreRequests
  BY <1>1 DEF LeaseInv, IdsAreSpent, TicketsAreRequests, Idle
<1>5. PersistedWasStored /\ BaselineWasStored /\ EstablishedStays
  BY <1>1 DEF PersistedWasStored, BaselineWasStored, EstablishedStays, Idle
<1> QED BY <1>3, <1>4, <1>5 DEF SInv

-----------------------------------------------------------------------------
(* Steps of an editor that keep its ticket or give it up.                  *)

LEMMA EditorStep ==
  ASSUME SInv, NEW e \in Editors, UNCHANGED <<files, lease, server, export>>,
         left' \in Bounds, left'.saves = left.saves,
         NEW state \in EditorStates, editor' = [editor EXCEPT ![e] = state],
         state.ticket \in {None, editor[e].ticket},
         \A p \in Parts : state.base[p] \in stored[p]
  PROVE  SInv'
<1> USE DEF SInv, files, server
<1>1. Typed'
  BY DEF Typed
<1>2. LeaseInv'
  BY DEF LeaseInv
<1>3. IdsAreSpent'
  BY DEF IdsAreSpent, Typed
<1>4. TicketsAreRequests'
  BY DEF TicketsAreRequests, Typed
<1>5. PersistedWasStored'
  BY DEF PersistedWasStored, Typed, Request
<1>6. BaselineWasStored'
  BY DEF BaselineWasStored, Typed
<1>7. EstablishedStays'
  BY DEF EstablishedStays, Request
<1> QED BY <1>1, <1>2, <1>3, <1>4, <1>5, <1>6, <1>7

LEMMA EditPreserves ==
  ASSUME SInv, NEW e \in Editors, NEW p \in Parts, Edit(e, p)
  PROVE  SInv'
<1>1. PICK value \in Values : editor' = [editor EXCEPT ![e].draft[p] = value]
  BY DEF Edit
<1> DEFINE state == [editor[e] EXCEPT !.draft[p] = value]
<1>2. editor' = [editor EXCEPT ![e] = state]
  BY <1>1
<1>3. editor[e] \in EditorStates
  BY DEF SInv, Typed
<1>4. state \in EditorStates
  BY <1>3 DEF EditorStates, Content
<1>5. state.ticket = editor[e].ticket /\ state.base = editor[e].base
  BY <1>3 DEF EditorStates
<1>6. left' \in Bounds /\ left'.saves = left.saves
  BY DEF Edit, Spend, SInv, Typed, Bounds
<1>7. \A q \in Parts : state.base[q] \in stored[q]
  BY <1>5 DEF SInv, BaselineWasStored
<1> HIDE DEF state
<1> QED BY <1>2, <1>4, <1>5, <1>6, <1>7, EditorStep DEF Edit

LEMMA GiveUpPreserves ==
  ASSUME SInv, NEW e \in Editors, GiveUp(e)
  PROVE  SInv'
<1> DEFINE state == [editor[e] EXCEPT
             !.base = [p \in Parts |-> editor[e].base[p]],
             !.ticket = None, !.conflicts = editor[e].conflicts \cup {}]
<1>1. editor[e] \in EditorStates
  BY DEF SInv, Typed
<1>2. editor' = [editor EXCEPT ![e] = state]
  <2>1. Advanced("request_failed", {}) = {} /\ ConflictOf("request_failed") = {}
    BY DEF Advanced, ConflictOf
  <2> QED BY <2>1, <1>1 DEF GiveUp, Complete, EditorStates
<1>3. state \in EditorStates
  BY <1>1 DEF EditorStates
<1>4. state.ticket = None /\ \A p \in Parts : state.base[p] = editor[e].base[p]
  BY <1>1 DEF EditorStates
<1>5. left' \in Bounds /\ left'.saves = left.saves
  BY DEF GiveUp, SInv, Typed
<1>6. \A q \in Parts : state.base[q] \in stored[q]
  BY <1>4 DEF SInv, BaselineWasStored
<1> HIDE DEF state
<1> QED BY <1>2, <1>3, <1>4, <1>5, <1>6, EditorStep DEF GiveUp

LEMMA WatchBodyPreserves ==
  ASSUME SInv, NEW e \in Editors, NEW body \in Content, WatchBody(e, body)
  PROVE  SInv'
<1> DEFINE known  == [editor[e] EXCEPT !.conflicts = editor[e].conflicts \ {"body"}]
           follow == [editor[e] EXCEPT !.base["body"] = body, !.draft["body"] = body,
                                       !.conflicts = {}]
           refuse == [editor[e] EXCEPT !.conflicts = editor[e].conflicts \cup {"body"}]
<1>1. editor[e] \in EditorStates
  BY DEF SInv, Typed
<1>2. PICK state \in {known, follow, refuse} : editor' = [editor EXCEPT ![e] = state]
  BY DEF WatchBody
<1>3. known \in EditorStates /\ follow \in EditorStates /\ refuse \in EditorStates
  BY <1>1 DEF EditorStates, Parts
<1>4. /\ known.ticket = editor[e].ticket /\ known.base = editor[e].base
      /\ follow.ticket = editor[e].ticket
      /\ follow.base = [editor[e].base EXCEPT !["body"] = body]
      /\ refuse.ticket = editor[e].ticket /\ refuse.base = editor[e].base
  BY <1>1 DEF EditorStates
<1>5. \A q \in Parts : editor[e].base[q] \in stored[q]
  BY DEF SInv, BaselineWasStored
<1>6. body \in stored["body"] /\ editor[e].base \in [Parts -> Content]
  BY <1>1 DEF WatchBody, EditorStates
<1>7. \A q \in Parts : known.base[q] \in stored[q] /\ refuse.base[q] \in stored[q]
                       /\ follow.base[q] \in stored[q]
  BY <1>4, <1>5, <1>6
<1>8. left' \in Bounds /\ left'.saves = left.saves
  BY DEF WatchBody, SInv, Typed
<1> HIDE DEF known, follow, refuse
<1> QED BY <1>2, <1>3, <1>4, <1>7, <1>8, EditorStep DEF WatchBody

\* An action of a kind that is bounded takes one from that bound.
LEMMA SpendIs ==
  ASSUME left \in Bounds, NEW kind \in {"edits", "saves", "outside", "exports", "crashes"}, Spend(kind)
  PROVE  /\ left' \in Bounds /\ (kind # "saves" => left'.saves = left.saves)
         /\ kind = "saves" => left'.saves = left.saves - 1 /\ left.saves \in Nat \ {0}
<1>1. left[kind] \in Nat /\ left[kind] - 1 \in Nat /\ left' = [left EXCEPT ![kind] = left[kind] - 1]
  BY DEF Spend, Bounds
<1> QED BY <1>1 DEF Bounds

LEMMA RefreshMetaPreserves ==
  ASSUME SInv, NEW e \in Editors, NEW meta \in Content, RefreshMeta(e, meta)
  PROVE  SInv'
<1> DEFINE known  == [editor[e] EXCEPT !.conflicts = editor[e].conflicts \ {"meta"}]
           follow == [editor[e] EXCEPT !.base["meta"] = meta, !.draft["meta"] = meta,
                                       !.conflicts = editor[e].conflicts \ {"meta"}]
           refuse == [editor[e] EXCEPT !.conflicts = editor[e].conflicts \cup {"meta"}]
<1>1. editor[e] \in EditorStates
  BY DEF SInv, Typed
<1>2. PICK state \in {known, follow, refuse} : editor' = [editor EXCEPT ![e] = state]
  <2>1. \/ editor' = [editor EXCEPT ![e].conflicts = @ \ {"meta"}]
        \/ editor' = [editor EXCEPT ![e].base["meta"] = meta, ![e].draft["meta"] = meta,
                                    ![e].conflicts = @ \ {"meta"}]
        \/ editor' = [editor EXCEPT ![e].conflicts = @ \cup {"meta"}]
    BY DEF RefreshMeta
  <2>2. editor \in [Editors -> EditorStates]
    BY DEF SInv, Typed
  <2>3. CASE editor' = [editor EXCEPT ![e].base["meta"] = meta, ![e].draft["meta"] = meta,
                                      ![e].conflicts = @ \ {"meta"}]
    <3>1. editor'[e] = follow
      BY <1>1, <2>2, <2>3 DEF EditorStates
    <3>2. editor' \in [Editors -> {editor'[d] : d \in Editors}] /\ \A d \in Editors \ {e} : editor'[d] = editor[d]
      BY <2>2, <2>3
    <3> HIDE DEF follow
    <3> QED BY <2>2, <3>1, <3>2
  <2> QED BY <2>1, <2>2, <2>3
<1>3. known \in EditorStates /\ follow \in EditorStates /\ refuse \in EditorStates
  BY <1>1 DEF EditorStates, Parts
<1>4. /\ known.ticket = editor[e].ticket /\ known.base = editor[e].base
      /\ follow.ticket = editor[e].ticket
      /\ follow.base = [editor[e].base EXCEPT !["meta"] = meta]
      /\ refuse.ticket = editor[e].ticket /\ refuse.base = editor[e].base
  BY <1>1 DEF EditorStates
<1>5. \A q \in Parts : editor[e].base[q] \in stored[q]
  BY DEF SInv, BaselineWasStored
<1>6. meta \in stored["meta"] /\ editor[e].base \in [Parts -> Content]
  BY <1>1 DEF RefreshMeta, EditorStates
<1>7. \A q \in Parts : known.base[q] \in stored[q] /\ refuse.base[q] \in stored[q]
                       /\ follow.base[q] \in stored[q]
  BY <1>4, <1>5, <1>6
<1>8. left' \in Bounds /\ left'.saves = left.saves
  BY DEF RefreshMeta, SInv, Typed
<1> HIDE DEF known, follow, refuse
<1> QED BY <1>2, <1>3, <1>4, <1>7, <1>8, EditorStep DEF RefreshMeta

LEMMA ReopenPreserves ==
  ASSUME SInv, NEW e \in Editors, Reopen(e)
  PROVE  SInv'
<1> DEFINE state == [base |-> disk, draft |-> disk, ticket |-> None, conflicts |-> {}]
<1>1. state \in EditorStates
  BY DEF SInv, Typed, EditorStates
<1>2. \A q \in Parts : state.base[q] \in stored[q]
  BY DEF SInv, PersistedWasStored
<1>3. left' \in Bounds /\ left'.saves = left.saves
  BY DEF Reopen, SInv, Typed
<1>4. state.ticket = None /\ editor' = [editor EXCEPT ![e] = state]
  BY DEF Reopen
<1> HIDE DEF state
<1> QED BY <1>1, <1>2, <1>3, <1>4, EditorStep DEF Reopen

-----------------------------------------------------------------------------
(* A request and its answer.                                               *)

LEMMA SavePreserves ==
  ASSUME SInv, NEW e \in Editors, Save(e)
  PROVE  SInv'
<1> DEFINE request == [id |-> left.saves, editor |-> e,
                       next |-> editor[e].draft, expected |-> editor[e].base]
           state == [editor[e] EXCEPT !.ticket = request]
<1> USE DEF SInv
<1>1. editor[e] \in EditorStates
  BY DEF Typed
<1>2. editor' = [editor EXCEPT ![e] = state] /\ sent' = sent \cup {request}
  BY DEF Save
<1>3. left' \in Bounds /\ left'.saves = left.saves - 1 /\ left.saves \in Nat \ {0}
  BY SpendIs DEF Save, Typed
<1>4. request \in Requests
  <2>1. PICK scenario \in Scenarios : left.saves <= scenario.saves
    BY DEF Typed
  <2>2. scenario.saves \in Nat
    BY ScenariosAssumption
  <2>3. left.saves \in 1 .. scenario.saves
    BY <2>1, <2>2, <1>3
  <2>4. left.saves \in Ids
    BY <2>1, <2>3 DEF Ids
  <2> QED BY <2>4 DEF Save, Readable, Requests
<1>5. state \in EditorStates /\ state.base = editor[e].base /\ state.ticket = request
  BY <1>1, <1>4 DEF EditorStates
<1>6. request.id = left.saves
  OBVIOUS
<1> HIDE DEF request, state
<1>7. editor'[e] = state /\ \A d \in Editors : d # e => editor'[d] = editor[d]
  BY <1>2 DEF Typed
<1> USE DEF Save, files
<1>8. Typed'
  <2>1. \E scenario \in Scenarios : left'.saves <= scenario.saves
    BY <1>3, ScenariosAssumption DEF Typed
  <2> QED BY <1>2, <1>3, <1>4, <1>5, <2>1 DEF Typed
<1>9. LeaseInv'
  BY DEF LeaseInv
<1>10. IdsAreSpent'
  <2>1. \A d \in Editors : editor'[d].ticket # None => editor'[d].ticket.id > left'.saves
    <3> SUFFICES ASSUME NEW d \in Editors, editor'[d].ticket # None
                 PROVE  editor'[d].ticket.id > left'.saves
      OBVIOUS
    <3>1. CASE d = e
      BY <3>1, <1>3, <1>5, <1>6, <1>7
    <3>2. CASE d # e
      <4>1. editor[d].ticket \in Requests /\ editor[d].ticket.id > left.saves
        BY <3>2, <1>7 DEF IdsAreSpent, Typed, EditorStates
      <4>2. editor[d].ticket.id \in Int
        BY <4>1, ScenariosAssumption DEF Requests, Ids
      <4> QED BY <4>1, <4>2, <3>2, <1>3, <1>7
    <3> QED BY <3>1, <3>2
  <2>2. \A r \in Requests : r.id \in Int
    BY ScenariosAssumption DEF Requests, Ids
  <2>3. \A a \in Sent : a.id \in Int
    BY ScenariosAssumption DEF Sent, Ids
  <2>4. \A r \in sent' : r.id > left'.saves
    BY <1>2, <1>3, <1>6, <2>2 DEF IdsAreSpent, Typed
  <2>5. \A i \in DOMAIN queue : queue[i] \in Requests
    BY DEF Typed
  <2>6. \A i \in DOMAIN queue' : queue'[i].id > left'.saves
    BY <1>3, <2>2, <2>5 DEF IdsAreSpent
  <2>7. \A a \in answers' : a.id > left'.saves
    BY <1>3, <2>3 DEF IdsAreSpent, Typed
  <2> QED BY <2>1, <2>4, <2>6, <2>7 DEF IdsAreSpent
<1>11. TicketsAreRequests'
  <2> SUFFICES ASSUME NEW d \in Editors, editor'[d].ticket # None
               PROVE  /\ \A r \in sent' : r.id = editor'[d].ticket.id => r = editor'[d].ticket
                      /\ \A i \in DOMAIN queue' : queue'[i].id = editor'[d].ticket.id
                                                   => queue'[i] = editor'[d].ticket
    BY DEF TicketsAreRequests
  <2>1. CASE d = e
    BY <2>1, <1>2, <1>3, <1>5, <1>6, <1>7 DEF IdsAreSpent
  <2>2. CASE d # e
    BY <2>2, <1>2, <1>3, <1>6, <1>7 DEF IdsAreSpent, TicketsAreRequests
  <2> QED BY <2>1, <2>2
<1>12. PersistedWasStored'
  BY <1>3, <1>5, <1>6, <1>7 DEF PersistedWasStored, IdsAreSpent, Request
<1>13. BaselineWasStored'
  BY <1>5, <1>7 DEF BaselineWasStored
<1>14. EstablishedStays'
  BY DEF EstablishedStays, Request
<1> QED BY <1>8, <1>9, <1>10, <1>11, <1>12, <1>13, <1>14

LEMMA ReceivePreserves ==
  ASSUME SInv, NEW a \in answers, Receive(a)
  PROVE  SInv'
<1> USE DEF SInv
<1>1. a \in Sent
  BY DEF Typed
<1> DEFINE e == a.editor
           state == [editor[e] EXCEPT
             !.base = [p \in Parts |-> IF p \in Advanced(a.code, a.parts)
                                         THEN editor[e].ticket.next[p] ELSE editor[e].base[p]],
             !.ticket = None,
             !.conflicts = editor[e].conflicts \cup ConflictOf(a.code)]
<1>2. e \in Editors /\ editor[e] \in EditorStates
  BY <1>1 DEF Sent, Typed
<1>3. CASE editor[e].ticket # None /\ editor[e].ticket.id = a.id
  <2>1. editor' = [editor EXCEPT ![e] = state]
    BY <1>2, <1>3 DEF Receive, Complete, EditorStates
  <2>2. editor[e].ticket \in Requests
    BY <1>2, <1>3 DEF EditorStates
  <2>3. state.base = [p \in Parts |-> IF p \in Advanced(a.code, a.parts)
                                        THEN editor[e].ticket.next[p] ELSE editor[e].base[p]]
    BY <1>2 DEF EditorStates
  <2>4. ConflictOf(a.code) \subseteq Parts \cup {"target"}
    BY DEF ConflictOf, Parts
  <2>5. state \in EditorStates
    BY <1>2, <2>2, <2>4 DEF EditorStates, Requests, Files, Content
  <2>6. \A p \in Parts : state.base[p] \in stored[p]
    BY <1>2, <1>3, <2>3 DEF PersistedWasStored, BaselineWasStored
  <2>7. state.ticket = None
    BY <1>2 DEF EditorStates
  <2> HIDE DEF state
  <2>8. editor'[e] = state /\ \A d \in Editors : d # e => editor'[d] = editor[d]
    BY <1>2, <2>1 DEF Typed
  <2> HIDE DEF e
  <2> USE DEF Receive, files
  <2>9. Typed' /\ LeaseInv'
    BY <1>2, <2>1, <2>5 DEF Typed, LeaseInv
  <2>10. IdsAreSpent' /\ TicketsAreRequests'
    BY <2>7, <2>8 DEF IdsAreSpent, TicketsAreRequests
  <2>11. PersistedWasStored'
    BY <2>7, <2>8 DEF PersistedWasStored, Request
  <2>12. BaselineWasStored' /\ EstablishedStays'
    BY <2>6, <2>8 DEF BaselineWasStored, EstablishedStays, Request
  <2> QED BY <2>9, <2>10, <2>11, <2>12
<1>4. CASE ~(editor[e].ticket # None /\ editor[e].ticket.id = a.id)
  <2> USE DEF Receive, files
  <2>1. UNCHANGED editor
    BY <1>4
  <2>2. Typed' /\ LeaseInv' /\ IdsAreSpent' /\ TicketsAreRequests'
    BY <2>1 DEF Typed, LeaseInv, IdsAreSpent, TicketsAreRequests
  <2>3. PersistedWasStored' /\ BaselineWasStored' /\ EstablishedStays'
    BY <2>1 DEF PersistedWasStored, BaselineWasStored, EstablishedStays, Request
  <2> QED BY <2>2, <2>3
<1> QED BY <1>3, <1>4

LEMMA ArrivePreserves ==
  ASSUME SInv, NEW r \in sent, Arrive(r)
  PROVE  SInv'
<1> USE DEF SInv, Arrive, files
<1>1. r \in Requests /\ queue \in Seq(Requests)
  BY DEF Typed
<1>2. /\ queue' \in Seq(Requests) /\ queue' # <<>>
      /\ \A i \in DOMAIN queue' : queue'[i] \in {r} \cup {queue[j] : j \in DOMAIN queue}
  BY <1>1
<1>3. queue # <<>> => Head(queue') = Head(queue)
  BY <1>1
<1>4. Typed'
  BY <1>2 DEF Typed
<1>5. LeaseInv'
  BY <1>2 DEF LeaseInv
<1>6. IdsAreSpent'
  BY <1>2 DEF IdsAreSpent
<1>7. TicketsAreRequests'
  BY <1>2 DEF TicketsAreRequests
<1>8. work.step # "queued" => Request' = Request
  BY <1>3 DEF LeaseInv, Request
<1>9. PersistedWasStored' /\ BaselineWasStored' /\ EstablishedStays'
  BY <1>8 DEF PersistedWasStored, BaselineWasStored, EstablishedStays
<1> QED BY <1>4, <1>5, <1>6, <1>7, <1>9

-----------------------------------------------------------------------------
(* Steps of the head of the queue.                                         *)

(* A step of the head keeps the requests, the answers and the editors, and *)
(* a file only ever gets something that is then part of its history.       *)
LEMMA ServeStep ==
  ASSUME SInv, queue # <<>>, UNCHANGED <<sent, queue, answers, editor, export, left>>,
         work' \in Works, disk' \in [Parts -> Content],
         stored' \in [Parts -> SUBSET Content], raced' \subseteq Parts,
         lease' \in {"free", "server", "cli", "stale"},
         \A p \in Parts : disk'[p] \in stored'[p] /\ stored[p] \subseteq stored'[p],
         LeaseInv', EstablishedStays',
         work'.step = "compare" => work'.seen \in stored'["body"],
         work'.step = "leaving" /\ work'.code = "ok" => work'.parts = Parts,
         \A p \in work'.parts : Request.next[p] \in stored'[p]
  PROVE  SInv'
<1> USE DEF SInv
<1>1. Typed'
  BY DEF Typed
<1>2. IdsAreSpent' /\ TicketsAreRequests'
  BY DEF IdsAreSpent, TicketsAreRequests
<1>3. PersistedWasStored'
  BY DEF PersistedWasStored, Request, Typed, Sent, Advanced
<1>4. BaselineWasStored'
  BY DEF BaselineWasStored
<1> QED BY <1>1, <1>2, <1>3, <1>4

LEMMA HeadIsARequest == SInv /\ queue # <<>> => Request \in Requests
  BY DEF SInv, Typed, Request

LEMMA VerdictsAreCodes ==
  MetaVerdict \in Codes /\ BodyVerdict \in Codes /\ Verdict \in Codes /\ MetaVerdictNow \in Codes
  BY DEF MetaVerdict, BodyVerdict, Verdict, MetaVerdictNow, ComparedTo, Codes

(* A save that ends early writes nothing and hands over what it persisted.  *)
LEMMA EndPreserves ==
  ASSUME SInv, queue # <<>>, NEW code \in Codes \ {"ok"}, End(code),
         UNCHANGED <<sent, queue, answers, editor, export, left>>, UNCHANGED <<disk, stored>>,
         raced' \subseteq Parts, UNCHANGED lease,
         lease = "server" <=> code # "project_busy"
  PROVE  SInv'
<1> USE DEF SInv
<1>1. work' \in Works /\ work'.step = "leaving" /\ work'.code = code /\ work'.parts = work.parts
  BY DEF End, Typed, Works, Steps
<1>2. LeaseInv'
  BY <1>1 DEF LeaseInv
<1>3. EstablishedStays'
  BY <1>1 DEF EstablishedStays
<1>4. \A p \in work.parts : Request.next[p] \in stored[p]
  BY DEF LeaseInv, PersistedWasStored, Idle
<1> QED BY <1>1, <1>2, <1>3, <1>4, ServeStep DEF Typed, PersistedWasStored

LEMMA ClaimPreserves ==
  ASSUME SInv, Claim
  PROVE  SInv'
<1> USE DEF SInv, Claim, At, files
<1>1. work = Idle /\ queue # <<>>
  BY DEF LeaseInv
<1>2. CASE lease = "free"
  <2>1. work' = [Idle EXCEPT !.step = "claimed"] /\ lease' = "server"
    BY <1>1, <1>2 DEF Claimable, Goto
  <2>2. work' \in Works
    BY <2>1 DEF Idle, Works, Steps, Codes
  <2>3. LeaseInv'
    BY <1>1, <1>2, <2>1 DEF LeaseInv, Idle
  <2>4. EstablishedStays'
    BY <2>1 DEF EstablishedStays, Idle
  <2> QED BY <1>1, <2>1, <2>2, <2>3, <2>4, ServeStep DEF Typed, Idle, PersistedWasStored
<1>3. CASE lease # "free"
  <2>1. End("project_busy") /\ UNCHANGED lease
    BY <1>3 DEF Claimable
  <2>2. lease # "server"
    BY <1>1 DEF LeaseInv, Idle
  <2> QED BY <1>1, <2>1, <2>2, EndPreserves DEF Codes, Typed
<1> QED BY <1>2, <1>3

LEMMA ReadBodyPreserves ==
  ASSUME SInv, ReadBody
  PROVE  SInv'
<1> USE DEF SInv, ReadBody, At
<1>1. work.code = "ok" /\ lease = "server" /\ work \in Works
  BY DEF LeaseInv, Typed
<1>2. CASE /\ work' = [work EXCEPT !.step = "compare", !.seen = disk["body"]]
           /\ raced' = raced \ {"body"}
  <2>1. work' \in Works /\ work'.step = "compare" /\ work'.code = "ok"
        /\ work'.seen = disk["body"] /\ work'.parts = work.parts
    BY <1>1, <1>2 DEF Works, Steps, Typed, Parts
  <2>2. LeaseInv'
    BY <1>1, <2>1 DEF LeaseInv, Idle
  <2>3. EstablishedStays'
    BY <1>2, <2>1 DEF EstablishedStays
  <2>4. disk["body"] \in stored["body"]
    BY DEF PersistedWasStored, Parts
  <2> QED BY <1>2, <2>1, <2>2, <2>3, <2>4, ServeStep DEF Typed, PersistedWasStored
<1>3. CASE End("identity_conflict") /\ UNCHANGED raced
  BY <1>1, <1>3, EndPreserves DEF Codes, Typed
<1> QED BY <1>2, <1>3

LEMMA ComparePreserves ==
  ASSUME SInv, Compare
  PROVE  SInv'
<1> USE DEF SInv, Compare, At, files
<1>1. work.code = "ok" /\ lease = "server" /\ work \in Works
  BY DEF LeaseInv, Typed
<1>2. CASE Verdict # "ok"
  <2>1. Verdict # "project_busy"
    BY DEF Verdict, BodyVerdict, MetaVerdict, ComparedTo
  <2> QED BY <1>1, <1>2, <2>1, VerdictsAreCodes, EndPreserves DEF Typed
<1>3. CASE Verdict = "ok"
  <2>1. work.seen = Request.expected["body"]
    BY <1>3 DEF Verdict, BodyVerdict, ComparedTo
  <2>2. CASE Request.next["body"] = Request.expected["body"]
    <3>1. work' = [Idle EXCEPT !.step = "recheck", !.parts = {"body"}]
      BY <1>3, <2>2
    <3>2. work' \in Works /\ work'.step = "recheck" /\ work'.code = "ok" /\ work'.parts = {"body"}
      BY <3>1 DEF Idle, Works, Steps, Codes, Parts
    <3>3. LeaseInv' /\ EstablishedStays'
      BY <1>1, <3>2 DEF LeaseInv, EstablishedStays, Idle
    <3>4. Request.next["body"] \in stored["body"]
      BY <2>1, <2>2 DEF PersistedWasStored
    <3> QED BY <3>2, <3>3, <3>4, ServeStep DEF Typed, PersistedWasStored
  <2>3. CASE Request.next["body"] # Request.expected["body"]
    <3>1. work' = [Idle EXCEPT !.step = "body"]
      BY <1>3, <2>3
    <3>2. work' \in Works /\ work'.step = "body" /\ work'.code = "ok" /\ work'.parts = {}
      BY <3>1 DEF Idle, Works, Steps, Codes
    <3>3. LeaseInv'
      BY <1>1, <3>2 DEF LeaseInv, Idle
    <3>4. EstablishedStays'
      BY <2>1, <3>2 DEF EstablishedStays, Request
    <3> QED BY <3>2, <3>3, <3>4, ServeStep DEF Typed, PersistedWasStored
  <2> QED BY <2>2, <2>3
<1> QED BY <1>2, <1>3

LEMMA TruncatePreserves ==
  ASSUME SInv,
         NEW p \in Parts, NEW step \in {"body", "meta"},
         NEW writing \in {"writing body", "writing meta"}, Truncate(p, step, writing),
         writing = "writing meta" => step = "meta"
  PROVE  SInv'
<1> USE DEF SInv, Truncate, At
<1>1. work.code = "ok" /\ lease = "server" /\ work \in Works
  BY DEF LeaseInv, Typed
<1>2. CASE Put(p, Torn) /\ Goto(writing)
  <2>1. work' \in Works /\ work'.step = writing /\ work'.code = "ok" /\ work'.parts = work.parts
    BY <1>1, <1>2 DEF Goto, Works, Steps
  <2>2. LeaseInv' /\ EstablishedStays'
    BY <1>1, <2>1 DEF LeaseInv, EstablishedStays, Idle
  <2>3. disk' \in [Parts -> Content] /\ stored' \in [Parts -> SUBSET Content]
    BY <1>2 DEF Put, Typed, Content
  <2>4. \A q \in Parts : disk'[q] \in stored'[q] /\ stored[q] \subseteq stored'[q]
    BY <1>2 DEF Put, Typed, PersistedWasStored
  <2>5. \A q \in work'.parts : Request.next[q] \in stored'[q]
    BY <2>1, <2>4, <1>1 DEF PersistedWasStored, Works
  <2> QED BY <2>1, <2>2, <2>3, <2>4, <2>5, ServeStep DEF Typed
<1>3. CASE End("write_failed") /\ UNCHANGED <<disk, stored>>
  BY <1>1, <1>3, EndPreserves DEF Codes, Typed
<1> QED BY <1>2, <1>3

LEMMA WriteBodyPreserves ==
  ASSUME SInv, WriteBody
  PROVE  SInv'
<1> USE DEF SInv, WriteBody, At
<1>1. work.code = "ok" /\ lease = "server" /\ work \in Works
  BY DEF LeaseInv, Typed
<1>2. CASE /\ Put("body", Request.next["body"])
           /\ work' = [work EXCEPT !.step = "recheck", !.parts = {"body"}]
  <2>1. work' \in Works /\ work'.step = "recheck" /\ work'.code = "ok" /\ work'.parts = {"body"}
    BY <1>1, <1>2 DEF Works, Steps, Parts
  <2>2. LeaseInv' /\ EstablishedStays'
    BY <1>1, <2>1 DEF LeaseInv, EstablishedStays, Idle
  <2>3. Request.next["body"] \in Content
    BY HeadIsARequest DEF Requests, Files, Parts, Content
  <2>4. disk' \in [Parts -> Content] /\ stored' \in [Parts -> SUBSET Content]
    BY <1>2, <2>3 DEF Put, Typed
  <2>5. \A q \in Parts : disk'[q] \in stored'[q] /\ stored[q] \subseteq stored'[q]
    BY <1>2 DEF Put, Typed, PersistedWasStored
  <2>6. Request.next["body"] \in stored'["body"]
    BY <1>2 DEF Put, Typed, Parts
  <2> QED BY <2>1, <2>2, <2>4, <2>5, <2>6, ServeStep DEF Typed
<1>3. CASE End("write_failed") /\ UNCHANGED <<disk, stored>>
  BY <1>1, <1>3, EndPreserves DEF Codes, Typed
<1> QED BY <1>2, <1>3

LEMMA RecheckPreserves ==
  ASSUME SInv, Recheck
  PROVE  SInv'
<1> USE DEF SInv, Recheck, At
<1>1. work.code = "ok" /\ lease = "server" /\ work \in Works /\ raced' \subseteq Parts
  BY DEF LeaseInv, Typed
<1>2. CASE End("identity_conflict")
  BY <1>1, <1>2, EndPreserves DEF Codes, Typed
<1>3. CASE MetaVerdictNow # "ok" /\ End(MetaVerdictNow)
  <2>1. MetaVerdictNow # "project_busy"
    BY DEF MetaVerdictNow, ComparedTo
  <2> QED BY <1>1, <1>3, <2>1, VerdictsAreCodes, EndPreserves DEF Typed
<1>4. CASE /\ MetaVerdictNow = "ok" /\ Request.next["meta"] = Request.expected["meta"]
           /\ work' = [work EXCEPT !.step = "leaving", !.parts = Parts]
  <2>1. work' \in Works /\ work'.step = "leaving" /\ work'.code = "ok" /\ work'.parts = Parts
    BY <1>1, <1>4 DEF Works, Steps, Parts
  <2>2. LeaseInv' /\ EstablishedStays'
    BY <1>1, <2>1 DEF LeaseInv, EstablishedStays, Idle
  <2>3. disk["meta"] = Request.next["meta"]
    BY <1>4 DEF MetaVerdictNow, ComparedTo
  <2>4. Request.next["meta"] \in stored["meta"]
    BY <2>3 DEF PersistedWasStored, Parts
  <2>5. Request.next["body"] \in stored["body"]
    BY DEF EstablishedStays, PersistedWasStored
  <2> QED BY <1>1, <2>1, <2>2, <2>4, <2>5, ServeStep DEF Typed, PersistedWasStored, Parts
<1>5. CASE MetaVerdictNow = "ok" /\ Goto("meta")
  <2>1. work' \in Works /\ work'.step = "meta" /\ work'.code = "ok" /\ work'.parts = work.parts
    BY <1>1, <1>5 DEF Goto, Works, Steps
  <2>2. LeaseInv'
    BY <1>1, <2>1 DEF LeaseInv, Idle
  <2>3. EstablishedStays'
    BY <1>5, <2>1 DEF EstablishedStays, MetaVerdictNow, ComparedTo, Request
  <2> QED BY <1>1, <2>1, <2>2, <2>3, ServeStep DEF Typed, PersistedWasStored
<1> QED BY <1>2, <1>3, <1>4, <1>5

LEMMA WriteMetaPreserves ==
  ASSUME SInv, WriteMeta
  PROVE  SInv'
<1> USE DEF SInv, WriteMeta, At
<1>1. work.code = "ok" /\ lease = "server" /\ work \in Works
  BY DEF LeaseInv, Typed
<1>2. CASE /\ Put("meta", Request.next["meta"])
           /\ work' = [work EXCEPT !.step = "leaving", !.parts = Parts]
  <2>1. work' \in Works /\ work'.step = "leaving" /\ work'.code = "ok" /\ work'.parts = Parts
    BY <1>1, <1>2 DEF Works, Steps, Parts
  <2>2. LeaseInv' /\ EstablishedStays'
    BY <1>1, <2>1 DEF LeaseInv, EstablishedStays, Idle
  <2>3. Request.next["meta"] \in Content
    BY HeadIsARequest DEF Requests, Files, Parts, Content
  <2>4. disk' \in [Parts -> Content] /\ stored' \in [Parts -> SUBSET Content]
    BY <1>2, <2>3 DEF Put, Typed
  <2>5. \A q \in Parts : disk'[q] \in stored'[q] /\ stored[q] \subseteq stored'[q]
    BY <1>2 DEF Put, Typed, PersistedWasStored
  <2>6. Request.next["meta"] \in stored'["meta"]
    BY <1>2 DEF Put, Typed, Parts
  <2>7. Request.next["body"] \in stored'["body"]
    BY <2>5 DEF EstablishedStays, PersistedWasStored, Parts
  <2> QED BY <2>1, <2>2, <2>4, <2>5, <2>6, <2>7, ServeStep DEF Typed, Parts
<1>3. CASE End("write_failed") /\ UNCHANGED <<disk, stored>>
  BY <1>1, <1>3, EndPreserves DEF Codes, Typed
<1> QED BY <1>2, <1>3

(* The turn passes on, and the answer tells the ticket of its own request.  *)
LEMMA LeavePreserves ==
  ASSUME SInv, Leave
  PROVE  SInv'
<1> DEFINE answer == [id |-> Request.id, editor |-> Request.editor,
                      code |-> work.code, parts |-> work.parts]
<1> USE DEF SInv, At, files
<1>1. queue # <<>> /\ work.step = "leaving" /\ queue \in Seq(Requests) /\ work \in Works
  BY DEF Leave, Typed
<1>2. /\ Tail(queue) \in Seq(Requests)
      /\ \A i \in DOMAIN Tail(queue) : i + 1 \in DOMAIN queue /\ Tail(queue)[i] = queue[i + 1]
  BY <1>1
<1>3. queue' = Tail(queue) /\ work' = Idle /\ answers' = answers \cup {answer}
  BY DEF Leave, TurnPassed
<1>4. UNCHANGED <<disk, stored, raced, sent, editor, export, left>>
  BY DEF Leave
<1>5. answer \in Sent
  BY <1>1, HeadIsARequest DEF Sent, Requests, Works
<1>6. lease' = IF work.code = "project_busy" THEN lease ELSE "free"
  BY DEF Leave, Unclaimed
<1>7. 1 \in DOMAIN queue /\ queue[1] = Request
  BY <1>1 DEF Request
<1>8. answer.id = Request.id /\ answer.code = work.code /\ answer.parts = work.parts
  OBVIOUS
<1> HIDE DEF answer
<1>9. Typed'
  <2>1. work' \in Works
    BY <1>3 DEF Idle, Works, Steps, Codes
  <2> QED BY <1>2, <1>3, <1>4, <1>5, <1>6, <2>1 DEF Typed
<1>10. LeaseInv'
  BY <1>1, <1>3, <1>4, <1>6 DEF LeaseInv, Idle, Typed
<1>11. IdsAreSpent' /\ TicketsAreRequests'
  BY <1>2, <1>3, <1>4, <1>7, <1>8 DEF IdsAreSpent, TicketsAreRequests
<1>12. PersistedWasStored'
  <2>1. \A e \in Editors : editor[e].ticket # None /\ editor[e].ticket.id = answer.id
          => \A p \in Advanced(answer.code, answer.parts) : editor[e].ticket.next[p] \in stored[p]
    BY <1>1, <1>7, <1>8 DEF TicketsAreRequests, PersistedWasStored, Advanced
  <2>2. \A a \in answers', e \in Editors : editor[e].ticket # None /\ editor[e].ticket.id = a.id
          => \A p \in Advanced(a.code, a.parts) : editor[e].ticket.next[p] \in stored[p]
    BY <1>3, <2>1 DEF PersistedWasStored
  <2>3. work'.step = "queued"
    BY <1>3 DEF Idle
  <2> QED BY <1>4, <2>2, <2>3 DEF PersistedWasStored
<1>13. BaselineWasStored' /\ EstablishedStays'
  BY <1>3, <1>4 DEF BaselineWasStored, EstablishedStays, Idle
<1> QED BY <1>9, <1>10, <1>11, <1>12, <1>13

LEMMA CrashPreserves ==
  ASSUME SInv, Crash
  PROVE  SInv'
<1> USE DEF SInv, Crash, files
<1>1. left' \in Bounds /\ left'.saves = left.saves
  BY DEF Spend, Typed, Bounds
<1>2. Typed'
  <2>1. work' \in Works
    BY DEF Idle, Works, Steps, Codes
  <2> QED BY <1>1, <2>1 DEF Typed
<1>3. LeaseInv'
  BY DEF LeaseInv, Idle
<1>4. IdsAreSpent' /\ TicketsAreRequests'
  BY <1>1 DEF IdsAreSpent, TicketsAreRequests
<1>5. PersistedWasStored' /\ BaselineWasStored' /\ EstablishedStays'
  BY DEF PersistedWasStored, BaselineWasStored, EstablishedStays, Idle
<1> QED BY <1>2, <1>3, <1>4, <1>5

-----------------------------------------------------------------------------
(* The other writers.                                                      *)

(* While an export runs the head of the queue is not between a comparison   *)
(* and a write; an outsider may come there, and is noted.                   *)
LEMMA OtherStep ==
  ASSUME SInv, UNCHANGED <<sent, queue, work, answers, editor>>,
         disk' \in [Parts -> Content], stored' \in [Parts -> SUBSET Content],
         raced \subseteq raced', raced' \subseteq Parts,
         export' \in {"none", "body", "meta"}, lease' \in {"free", "server", "cli", "stale"},
         left' \in Bounds, left'.saves = left.saves, LeaseInv',
         \A p \in Parts : disk'[p] \in stored'[p] /\ stored[p] \subseteq stored'[p],
         \A p \in Parts : disk'[p] # disk[p] => export # "none" \/ p \in raced'
  PROVE  SInv'
<1> USE DEF SInv
<1>1. Typed'
  BY DEF Typed
<1>2. IdsAreSpent' /\ TicketsAreRequests'
  BY DEF IdsAreSpent, TicketsAreRequests
<1>3. PersistedWasStored'
  BY DEF PersistedWasStored, Request, Typed, Sent, Works, Advanced, Parts
<1>4. BaselineWasStored'
  BY DEF BaselineWasStored
<1>5. export # "none" => work.step \notin {"compare", "body", "meta"}
  BY DEF LeaseInv
<1>6. EstablishedStays'
  BY <1>5 DEF EstablishedStays, Request, Parts
<1> QED BY <1>1, <1>2, <1>3, <1>4, <1>6

LEMMA PutStores ==
  ASSUME SInv, NEW p \in Parts, NEW value \in Content, Put(p, value)
  PROVE  /\ disk' \in [Parts -> Content] /\ stored' \in [Parts -> SUBSET Content]
         /\ \A q \in Parts : disk'[q] \in stored'[q] /\ stored[q] \subseteq stored'[q]
         /\ \A q \in Parts : disk'[q] # disk[q] => q = p
  BY DEF Put, SInv, Typed, PersistedWasStored

LEMMA ExportPreserves ==
  ASSUME SInv, Export
  PROVE  SInv'
<1> USE DEF SInv, Export, server
<1>1. CASE /\ export = "none" /\ lease = "free" /\ Spend("exports")
           /\ lease' = "cli" /\ export' = "body" /\ UNCHANGED <<disk, stored>>
  <2>1. left' \in Bounds /\ left'.saves = left.saves
    BY <1>1, SpendIs DEF Typed
  <2>2. LeaseInv'
    BY <1>1 DEF LeaseInv
  <2> QED BY <1>1, <2>1, <2>2, OtherStep DEF Typed, PersistedWasStored
<1>2. CASE /\ export = "body" /\ export' = "meta"
           /\ \E value \in Values : Put("body", value)
           /\ UNCHANGED <<lease, left>>
  <2>1. PICK value \in Values : Put("body", value)
    BY <1>2
  <2>2. LeaseInv'
    BY <1>2 DEF LeaseInv
  <2>3. value \in Content /\ "body" \in Parts
    BY DEF Content, Parts
  <2> QED BY <1>2, <2>1, <2>2, <2>3, PutStores, OtherStep DEF Typed
<1>3. CASE /\ export = "meta" /\ export' = "none" /\ lease' = "free"
           /\ \E value \in Values : Put("meta", value)
           /\ UNCHANGED left
  <2>1. PICK value \in Values : Put("meta", value)
    BY <1>3
  <2>2. LeaseInv'
    BY <1>3 DEF LeaseInv
  <2>3. value \in Content /\ "meta" \in Parts
    BY DEF Content, Parts
  <2> QED BY <1>3, <2>1, <2>2, <2>3, PutStores, OtherStep DEF Typed
<1> QED BY <1>1, <1>2, <1>3

LEMMA ExportEndsPreserves ==
  ASSUME SInv, ExportEnds
  PROVE  SInv'
<1> USE DEF SInv, ExportEnds, files, server
<1>1. LeaseInv'
  BY DEF LeaseInv
<1> QED BY <1>1, OtherStep DEF Typed, PersistedWasStored

LEMMA OutsideWritePreserves ==
  ASSUME SInv, NEW p \in Parts, OutsideWrite(p)
  PROVE  SInv'
<1> USE DEF SInv, OutsideWrite, server
<1>1. PICK value \in Values : Put(p, value)
  OBVIOUS
<1>2. left' \in Bounds /\ left'.saves = left.saves
  BY SpendIs DEF Typed
<1>3. LeaseInv'
  BY DEF LeaseInv
<1>4. value \in Content
  BY DEF Content
<1> QED BY <1>1, <1>2, <1>3, <1>4, PutStores, OtherStep DEF Typed

LEMMA ClearLeasePreserves ==
  ASSUME SInv, ClearLease
  PROVE  SInv'
<1> USE DEF SInv, ClearLease, files, server
<1>1. LeaseInv'
  BY DEF LeaseInv
<1> QED BY <1>1, OtherStep DEF Typed, PersistedWasStored

-----------------------------------------------------------------------------
(* The program.                                                            *)

LEMMA NextPreserves == SInv /\ [Next]_vars => SInv'
<1> SUFFICES ASSUME SInv, [Next]_vars PROVE SInv'
  OBVIOUS
<1>1. CASE Next
  <2>1. ASSUME NEW e \in left.editors
        PROVE  /\ \A p \in Parts : Edit(e, p) => SInv'
               /\ Save(e) \/ GiveUp(e) \/ Reopen(e) => SInv'
               /\ \A content \in Content : WatchBody(e, content) \/ RefreshMeta(e, content) => SInv'
    <3>1. e \in Editors
      BY DEF SInv, Typed, Bounds
    <3> QED BY <3>1, EditPreserves, SavePreserves, GiveUpPreserves, ReopenPreserves,
               WatchBodyPreserves, RefreshMetaPreserves
  <2>2. Serve => SInv'
    <3>1. Truncate("body", "body", "writing body") => SInv'
      BY TruncatePreserves DEF Parts
    <3>2. Truncate("meta", "meta", "writing meta") => SInv'
      BY TruncatePreserves DEF Parts
    <3> QED BY <3>1, <3>2, ClaimPreserves, ReadBodyPreserves, ComparePreserves,
               WriteBodyPreserves, RecheckPreserves, WriteMetaPreserves, LeavePreserves DEF Serve
  <2> QED BY <1>1, <2>1, <2>2, ReceivePreserves, ArrivePreserves, CrashPreserves, ExportPreserves,
             ExportEndsPreserves, OutsideWritePreserves, ClearLeasePreserves DEF Next
<1>2. CASE UNCHANGED vars
  <2> USE <1>2 DEF vars, SInv
  <2>1. Typed' /\ LeaseInv' /\ IdsAreSpent' /\ TicketsAreRequests'
    BY DEF Typed, LeaseInv, IdsAreSpent, TicketsAreRequests
  <2>2. PersistedWasStored' /\ BaselineWasStored' /\ EstablishedStays'
    BY DEF PersistedWasStored, BaselineWasStored, EstablishedStays, Request
  <2> QED BY <2>1, <2>2
<1> QED BY <1>1, <1>2

(* The invariant of all saves: one save works, under the lease; ids are     *)
(* never reused; what is called persisted was on disk; and what was         *)
(* compared stays, outsiders aside, until it is written.                    *)
THEOREM SavesInvariant == Spec => []SInv
<1> QED BY InitHolds, NextPreserves, PTL DEF Spec

(* The lease belongs to the save that is running, or to the export, and     *)
(* every variable has its type: the finally blocks of                       *)
(* withProgramDocumentWriteOwner, for every order of refusals, failures,    *)
(* exports and crashes.                                                     *)
THEOREM LeaseAlwaysHasItsHolder == Spec => []LeaseHasItsHolder
<1>1. SInv => LeaseHasItsHolder
  <2> SUFFICES ASSUME SInv PROVE LeaseHasItsHolder
    OBVIOUS
  <2>1. TypeOK
    BY DEF SInv, Typed, TypeOK, Works, Sent, EditorStates
  <2> QED BY <2>1 DEF SInv, LeaseInv, LeaseHasItsHolder
<1> QED BY <1>1, SavesInvariant, PTL

(* An editor's baseline is something the file has held, part by part:       *)
(* completeSave never advances it to what a failed, refused, partial or     *)
(* unanswered save did not write.                                           *)
THEOREM BaselineWasAlwaysStored == Spec => []BaselineWasStored
<1>1. SInv => BaselineWasStored
  BY DEF SInv
<1> QED BY <1>1, SavesInvariant, PTL

(* A save truncates a file only while it holds what the save was based on,  *)
(* unless a write that takes neither owner nor lease came in between: no    *)
(* update of another editor or of an export is lost.                        *)
THEOREM SavesReplaceTheirBaseline == Spec => ReplacesItsBaseline
<1> DEFINE Step ==
      \A p \in Parts : disk'[p] = Torn /\ disk[p] # Torn /\ p \notin raced
                         => disk[p] = Request.expected[p]
<1>1. SInv /\ [Next]_vars => [Step]_vars
  <2> SUFFICES ASSUME SInv, Next, NEW p \in Parts,
                      disk'[p] = Torn, disk[p] # Torn, p \notin raced
               PROVE  disk[p] = Request.expected[p]
    OBVIOUS
  <2> USE DEF SInv
  <2>1. ASSUME NEW q \in Parts, NEW value \in Values, Put(q, value) PROVE FALSE
    BY <2>1, ScenariosAssumption DEF Put, Typed
  <2>2. ASSUME NEW step, NEW writing, Truncate("body", step, writing), step = "body"
        PROVE  disk[p] = Request.expected[p]
    BY <2>2 DEF Truncate, Put, At, Typed, EstablishedStays
  <2>3. ASSUME NEW step, NEW writing, Truncate("meta", step, writing), step = "meta"
        PROVE  disk[p] = Request.expected[p]
    BY <2>3 DEF Truncate, Put, At, Typed, EstablishedStays
  <2>4. ASSUME WriteBody \/ WriteMeta PROVE FALSE
    <3>1. Request \in Requests
      BY <2>4, HeadIsARequest DEF WriteBody, WriteMeta, At
    <3>2. Request.next["body"] \in Values /\ Request.next["meta"] \in Values
      BY <3>1 DEF Requests, Files, Parts
    <3> QED BY <2>1, <2>4, <3>2 DEF WriteBody, WriteMeta, Parts
  <2>5. ASSUME Export \/ \E q \in Parts : OutsideWrite(q) PROVE FALSE
    BY <2>1, <2>5 DEF Export, OutsideWrite, Parts
  <2>6. disk' # disk
    OBVIOUS
  <2>7. CASE Serve
    BY <2>2, <2>3, <2>4, <2>6, <2>7 DEF Serve, Claim, ReadBody, Compare, Recheck, Leave, files
  <2>8. ASSUME NEW e \in Editors,
               \/ \E q \in Parts : Edit(e, q)
               \/ Save(e) \/ GiveUp(e) \/ Reopen(e)
               \/ \E content \in Content : WatchBody(e, content) \/ RefreshMeta(e, content)
        PROVE  FALSE
    BY <2>6, <2>8 DEF Edit, Save, GiveUp, Reopen, WatchBody, RefreshMeta, files
  <2>9. CASE \/ \E a \in answers : Receive(a)
             \/ \E r \in sent : Arrive(r)
             \/ Crash \/ ExportEnds \/ ClearLease
    BY <2>6, <2>9 DEF Receive, Arrive, Crash, ExportEnds, ClearLease, files
  <2>10. left.editors \subseteq Editors
    BY DEF Typed, Bounds
  <2> QED BY <2>5, <2>7, <2>8, <2>9, <2>10 DEF Next
<1> QED BY <1>1, SavesInvariant, PTL DEF Spec, ReplacesItsBaseline

(* Neither the watcher nor a refresh of the metadata replaces a draft that  *)
(* no file has held: following the disk drops no unsaved edit.              *)
THEOREM UnsavedIsKept == Spec => UnsavedIsNeverDropped
<1> DEFINE Step ==
      \A e \in Editors, p \in Parts :
        (editor'[e].draft[p] # editor[e].draft[p] /\ editor[e].draft[p] \notin stored[p])
          => ~\E content \in Content : WatchBody(e, content) \/ RefreshMeta(e, content)
<1>1. SInv => [Step]_vars
  <2> SUFFICES ASSUME SInv, NEW e \in Editors, NEW p \in Parts,
                      editor'[e].draft[p] # editor[e].draft[p],
                      editor[e].draft[p] \notin stored[p], NEW content \in Content
               PROVE  ~WatchBody(e, content) /\ ~RefreshMeta(e, content)
    OBVIOUS
  <2> USE DEF SInv
  <2>1. editor[e] \in EditorStates /\ editor[e].draft \in [Parts -> Content]
    BY DEF Typed, EditorStates
  <2>2. \A q \in Parts : editor[e].base[q] \in stored[q]
    BY DEF BaselineWasStored
  <2>3. ~WatchBody(e, content)
    <3> SUFFICES ASSUME WatchBody(e, content) PROVE FALSE
      OBVIOUS
    <3>1. editor' = [editor EXCEPT ![e].base["body"] = content,
                                   ![e].draft["body"] = content, ![e].conflicts = {}]
          /\ MayFollow(e)
      BY <2>1 DEF WatchBody, Typed, EditorStates
    <3> QED BY <2>2, <3>1 DEF MayFollow, Dirty
  <2>4. ~RefreshMeta(e, content)
    <3> SUFFICES ASSUME RefreshMeta(e, content) PROVE FALSE
      OBVIOUS
    <3>1. editor'[e].draft = [editor[e].draft EXCEPT !["meta"] = content]
          /\ editor[e].draft["meta"] = editor[e].base["meta"]
      BY <2>1 DEF RefreshMeta, Typed, EditorStates
    <3>2. p = "meta"
      BY <2>1, <3>1
    <3> QED BY <2>2, <3>1, <3>2
  <2> QED BY <2>3, <2>4
<1> QED BY <1>1, SavesInvariant, PTL DEF UnsavedIsNeverDropped
===============================================================================
