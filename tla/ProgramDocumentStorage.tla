------------------------ MODULE ProgramDocumentStorage ------------------------
(***************************************************************************)
(* A program document on disk, data.json and info.json of an action, and   *)
(* everything that writes or follows it: editors that save with compare-   *)
(* and-swap over HTTP (ActionProjectDataEditor.tsx, program-document-save- *)
(* client.ts, programDocumentSession.ts), the Node server that runs their  *)
(* requests one at a time under the write owner of the document and the    *)
(* lease of the project directory (legacy-program-document-storage.        *)
(* server.ts, action-project-host-binding.server.ts), exports of the       *)
(* qkrpc CLI, which take the lease only, and tools that take neither.      *)
(*                                                                         *)
(* A save reads, compares and writes in steps between which others run.    *)
(* writeFile truncates before it writes, so a file may be Torn.  Answers   *)
(* get lost, requests arrive late, the server crashes and leaves its lease.*)
(***************************************************************************)
EXTENDS Integers, Sequences

CONSTANTS
  Editors,      \* mounted editors of the document
  Values,       \* what a body or the metadata can be
  Torn,         \* a file in the middle of a write
  None,
  Scenarios     \* bounds: sets of editors in use, with the number of edits of the
                \* users, save requests, writes that take neither owner nor
                \* lease, exports of the CLI and crashes of the server

ASSUME ScenariosAssumption ==
  /\ Scenarios \subseteq [editors : SUBSET Editors, edits : Nat, saves : Nat,
                          outside : Nat, exports : Nat, crashes : Nat]
  /\ Torn \notin Values

VARIABLES
  disk,         \* the two files
  lease,        \* .qkrpc-project.lock and who created it
  sent,         \* requests on their way to the server
  queue,        \* the write owner's queue; the head runs
  work,         \* how far the head has come
  answers,      \* answers on their way to the editors
  editor,       \* editor[e]: baseline, draft, the save in flight, conflicts
  export,       \* what the CLI export is doing
  left,         \* the editors in use and how much of each bound is left
  stored,       \* history: what each file has ever held
  raced         \* history: files an unowned write has changed since the head
                \* last read them

vars == <<disk, lease, sent, queue, work, answers, editor, export, left,
          stored, raced>>

Parts   == {"body", "meta"}
Files   == [Parts -> Values]
Content == Values \cup {Torn}
Codes   == {"ok", "project_busy", "identity_conflict", "body_conflict",
            "metadata_conflict", "write_failed", "save_failed", "request_failed"}
Steps   == {"queued", "claimed", "compare", "body", "writing body", "recheck",
            "meta", "writing meta", "leaving"}

Ids      == UNION {1 .. scenario.saves : scenario \in Scenarios}
Requests == [id : Ids, editor : Editors, next : Files, expected : Files]
Idle == [step |-> "queued", seen |-> None, parts |-> {}, code |-> "ok"]

TypeOK ==
  /\ disk \in [Parts -> Content]
  /\ lease \in {"free", "server", "cli", "stale"}
  /\ sent \subseteq Requests /\ queue \in Seq(Requests)
  /\ work.step \in Steps /\ work.parts \subseteq Parts /\ work.code \in Codes
  /\ \A a \in answers : a.code \in Codes /\ a.parts \subseteq Parts
  /\ \A e \in Editors :
       /\ editor[e].base \in [Parts -> Content]
       /\ editor[e].draft \in [Parts -> Content]
       /\ editor[e].ticket \in Requests \cup {None}
       /\ editor[e].conflicts \subseteq Parts \cup {"target"}
  /\ export \in {"none", "body", "meta"}
  /\ raced \subseteq Parts

Init ==
  /\ \E files \in Files :
       /\ disk = files
       /\ editor = [e \in Editors |-> [base |-> files, draft |-> files,
                                       ticket |-> None, conflicts |-> {}]]
       /\ stored = [p \in Parts |-> {files[p]}]
  /\ lease = "free"
  /\ sent = {} /\ queue = <<>> /\ work = Idle /\ answers = {}
  /\ export = "none"
  /\ left \in Scenarios
  /\ raced = {}

Spend(kind) ==
  /\ left[kind] > 0
  /\ left' = [left EXCEPT ![kind] = @ - 1]

server == <<sent, queue, work, answers>>
files  == <<disk, stored, raced>>

Put(p, value) ==
  /\ disk' = [disk EXCEPT ![p] = value]
  /\ stored' = [stored EXCEPT ![p] = @ \cup {value}]

-----------------------------------------------------------------------------
(* The editor.                                                             *)

Dirty(e) == editor[e].draft # editor[e].base
Readable(e) == editor[e].draft \in Files

Edit(e, p) ==
  /\ Readable(e)
  /\ Spend("edits")
  /\ \E value \in Values \ {editor[e].draft[p]} :
       editor' = [editor EXCEPT ![e].draft[p] = value]
  /\ UNCHANGED <<files, lease, server, export>>

\* handleSave: a known conflict or a save in flight refuses at once.
Save(e) ==
  /\ Readable(e) /\ editor[e].base \in Files
  /\ editor[e].ticket = None /\ editor[e].conflicts = {}
  /\ Spend("saves")
  /\ LET request == [id |-> left.saves, editor |-> e,
                     next |-> editor[e].draft, expected |-> editor[e].base]
     IN  /\ editor' = [editor EXCEPT ![e].ticket = request]
         /\ sent' = sent \cup {request}
  /\ UNCHANGED <<files, lease, queue, work, answers, export>>

ConflictOf(code) ==
  CASE code = "body_conflict" -> {"body"}
    [] code = "metadata_conflict" -> {"meta"}
    [] code = "identity_conflict" -> {"target"}
    [] OTHER -> {}

\* completeSave: exactly the parts that are on disk become the baseline.
AdvanceAll(code, parts) == Parts
Advanced(code, parts) == IF code = "ok" THEN Parts ELSE parts
Complete(e, code, parts) ==
  editor' = [editor EXCEPT ![e].base =
               [p \in Parts |-> IF p \in Advanced(code, parts)
                                  THEN editor[e].ticket.next[p] ELSE @[p]],
             ![e].ticket = None,
             ![e].conflicts = @ \cup ConflictOf(code)]

\* An answer to a save the editor has given up on finds no ticket.
Receive(a) ==
  /\ a \in answers
  /\ answers' = answers \ {a}
  /\ IF editor[a.editor].ticket # None /\ editor[a.editor].ticket.id = a.id
       THEN Complete(a.editor, a.code, a.parts)
       ELSE UNCHANGED editor
  /\ UNCHANGED <<files, lease, sent, queue, work, export, left>>

\* The request fails for the editor (connection reset, server gone, response
\* unreadable), wherever it really is: request_failed has no persisted parts.
GiveUp(e) ==
  /\ editor[e].ticket # None
  /\ Complete(e, "request_failed", {})
  /\ UNCHANGED <<files, lease, server, export, left>>

\* The file watcher delivers a body, possibly one it has read long ago.  A new
\* session loads a body that is neither known nor in the way of a draft.
FollowsAlways(e) == TRUE
MayFollow(e) == ~Dirty(e) /\ editor[e].ticket = None
Known(e, body) ==
  \/ body \in {editor[e].base["body"], editor[e].draft["body"]}
  \/ editor[e].ticket # None /\ body = editor[e].ticket.next["body"]

WatchBody(e, body) ==
  /\ body \in stored["body"]
  /\ editor' =
       IF Known(e, body)
         THEN [editor EXCEPT ![e].conflicts = @ \ {"body"}]
       ELSE IF MayFollow(e)
         THEN [editor EXCEPT ![e].base["body"] = body,
                             ![e].draft["body"] = body,
                             ![e].conflicts = {}]
       ELSE [editor EXCEPT ![e].conflicts = @ \cup {"body"}]
  /\ UNCHANGED <<files, lease, server, export, left>>

\* refreshProjectInfo with reconcileMetadataSource; torn metadata is an error.
RefreshMeta(e, meta) ==
  /\ meta \in stored["meta"] \ {Torn}
  /\ editor' =
       IF \/ meta = editor[e].base["meta"]
          \/ editor[e].ticket # None /\ meta = editor[e].ticket.next["meta"]
         THEN [editor EXCEPT ![e].conflicts = @ \ {"meta"}]
       ELSE IF editor[e].draft["meta"] = editor[e].base["meta"]
               /\ editor[e].ticket = None
         THEN [editor EXCEPT ![e].base["meta"] = meta,
                             ![e].draft["meta"] = meta,
                             ![e].conflicts = @ \ {"meta"}]
       ELSE [editor EXCEPT ![e].conflicts = @ \cup {"meta"}]
  /\ UNCHANGED <<files, lease, server, export, left>>

\* The user closes the document, with its draft, and opens it again.
Reopen(e) ==
  /\ disk \in Files
  /\ editor' = [editor EXCEPT ![e] = [base |-> disk, draft |-> disk,
                                      ticket |-> None, conflicts |-> {}]]
  /\ UNCHANGED <<files, lease, server, export, left>>

-----------------------------------------------------------------------------
(* saveProgramDocument, under withProgramDocumentWriteOwner.               *)

Arrive(r) ==
  /\ r \in sent
  /\ sent' = sent \ {r}
  /\ queue' = Append(queue, r)
  /\ UNCHANGED <<files, lease, work, answers, editor, export, left>>

At(step) == queue # <<>> /\ work.step = step
Request  == Head(queue)

Goto(step) == work' = [work EXCEPT !.step = step]
End(code)  == work' = [work EXCEPT !.step = "leaving", !.code = code,
                                   !.seen = None]

ClaimsOverCli == lease \in {"free", "cli"}
\* The lease file is created exclusively, or the project is busy.
Claimable == lease = "free"

Claim ==
  /\ At("queued")
  /\ IF Claimable THEN lease' = "server" /\ Goto("claimed")
                  ELSE End("project_busy") /\ UNCHANGED lease
  /\ UNCHANGED <<files, sent, queue, answers, editor, export, left>>

\* The binding of the project, then the body; the binding may be another one.
ReadBody ==
  /\ At("claimed")
  /\ \/ /\ work' = [work EXCEPT !.step = "compare", !.seen = disk["body"]]
        /\ raced' = raced \ {"body"}
     \/ End("identity_conflict") /\ UNCHANGED raced
  /\ UNCHANGED <<disk, stored, lease, sent, queue, answers, editor, export, left>>

\* Both baselines are compared before either write.  A torn file does not
\* parse, which is an error and not a conflict.
ComparedTo(value, expected, conflict) ==
  IF value = Torn THEN "save_failed"
  ELSE IF value # expected THEN conflict ELSE "ok"

MetaVerdict ==
  ComparedTo(disk["meta"], Request.expected["meta"], "metadata_conflict")
BodyVerdict ==
  ComparedTo(work.seen, Request.expected["body"], "body_conflict")
VerdictOnMeta == MetaVerdict
Verdict == IF BodyVerdict # "ok" THEN BodyVerdict ELSE MetaVerdict

\* An unchanged part is not written and counts as persisted.
Compare ==
  /\ At("compare")
  /\ IF Verdict # "ok" THEN End(Verdict)
     ELSE IF Request.next["body"] = Request.expected["body"]
       THEN work' = [Idle EXCEPT !.step = "recheck", !.parts = {"body"}]
     ELSE work' = [Idle EXCEPT !.step = "body"]
  /\ UNCHANGED <<files, lease, sent, queue, answers, editor, export, left>>

\* writeFile truncates the file, or fails before it has touched it.
Truncate(p, step, writing) ==
  /\ At(step)
  /\ \/ Put(p, Torn) /\ Goto(writing)
     \/ End("write_failed") /\ UNCHANGED <<disk, stored>>
  /\ UNCHANGED <<raced, lease, sent, queue, answers, editor, export, left>>

\* The write ends, or fails and leaves the file as it is.
WriteBody ==
  /\ At("writing body")
  /\ \/ /\ Put("body", Request.next["body"])
        /\ work' = [work EXCEPT !.step = "recheck", !.parts = {"body"}]
     \/ End("write_failed") /\ UNCHANGED <<disk, stored>>
  /\ UNCHANGED <<raced, lease, sent, queue, answers, editor, export, left>>

\* The metadata is read and compared once more, after the body.
NotCompared == "ok"
MetaVerdictNow ==
  ComparedTo(disk["meta"], Request.expected["meta"], "metadata_conflict")
Recheck ==
  /\ At("recheck")
  /\ raced' = raced \ {"meta"}
  /\ \/ End("identity_conflict")
     \/ IF MetaVerdictNow # "ok" THEN End(MetaVerdictNow)
        ELSE IF Request.next["meta"] = Request.expected["meta"]
          THEN work' = [work EXCEPT !.step = "leaving", !.parts = Parts]
        ELSE Goto("meta")
  /\ UNCHANGED <<disk, stored, lease, sent, queue, answers, editor, export, left>>

WriteMeta ==
  /\ At("writing meta")
  /\ \/ /\ Put("meta", Request.next["meta"])
        /\ work' = [work EXCEPT !.step = "leaving", !.parts = Parts]
     \/ End("write_failed") /\ UNCHANGED <<disk, stored>>
  /\ UNCHANGED <<raced, lease, sent, queue, answers, editor, export, left>>

\* The finally blocks: the lease file goes, then the owner's turn, and the
\* answer leaves with the parts that were persisted.
Unclaimed == IF work.code = "project_busy" THEN lease ELSE "free"

TurnIfOk == IF work.code = "ok" THEN Tail(queue) ELSE queue
TurnPassed == Tail(queue)

Leave ==
  /\ At("leaving")
  /\ lease' = Unclaimed
  /\ queue' = TurnPassed
  /\ work' = Idle
  /\ answers' = answers \cup
       {[id |-> Request.id, editor |-> Request.editor, code |-> work.code,
         parts |-> work.parts]}
  /\ UNCHANGED <<files, sent, editor, export, left>>

Serve ==
  \/ Claim \/ ReadBody \/ Compare
  \/ Truncate("body", "body", "writing body") \/ WriteBody
  \/ Recheck
  \/ Truncate("meta", "meta", "writing meta") \/ WriteMeta
  \/ Leave

\* The process ends between any two steps.  Its queue and its answers go with
\* it, its lease file stays.
Crash ==
  /\ Spend("crashes")
  /\ queue' = <<>> /\ work' = Idle /\ answers' = {}
  /\ lease' = IF lease = "server" THEN "stale" ELSE lease
  /\ UNCHANGED <<files, sent, editor, export>>

-----------------------------------------------------------------------------
(* The other writers.                                                      *)

\* An export holds the lease while it writes both files; the operating system
\* deletes the lease with the process.
Export ==
  /\ \/ /\ export = "none" /\ lease = "free"
        /\ Spend("exports")
        /\ lease' = "cli" /\ export' = "body"
        /\ UNCHANGED <<disk, stored>>
     \/ /\ export = "body" /\ export' = "meta"
        /\ \E value \in Values : Put("body", value)
        /\ UNCHANGED <<lease, left>>
     \/ /\ export = "meta" /\ export' = "none" /\ lease' = "free"
        /\ \E value \in Values : Put("meta", value)
        /\ UNCHANGED left
  /\ UNCHANGED <<raced, server, editor>>

ExportEnds ==
  /\ export # "none"
  /\ export' = "none" /\ lease' = "free"
  /\ UNCHANGED <<files, server, editor, left>>

\* An agent's file tool, another program: no owner, no lease.
OutsideWrite(p) ==
  /\ Spend("outside")
  /\ \E value \in Values \ {disk[p]} : Put(p, value)
  /\ raced' = raced \cup {p}
  /\ UNCHANGED <<lease, server, editor, export>>

\* Somebody deletes the lease a crash has left.
ClearLease ==
  /\ lease = "stale"
  /\ lease' = "free"
  /\ UNCHANGED <<files, server, editor, export, left>>

-----------------------------------------------------------------------------
Next ==
  \/ \E e \in left.editors :
       \/ \E p \in Parts : Edit(e, p)
       \/ Save(e) \/ GiveUp(e) \/ Reopen(e)
       \/ \E content \in Content : WatchBody(e, content) \/ RefreshMeta(e, content)
  \/ \E a \in answers : Receive(a)
  \/ \E r \in sent : Arrive(r)
  \/ Serve \/ Crash
  \/ Export \/ ExportEnds
  \/ \E p \in Parts : OutsideWrite(p)
  \/ ClearLease

\* A ticket whose request, turn and answer are all gone: the connection was
\* reset and the client is told.
Gone(e) ==
  LET id == editor[e].ticket.id
  IN  /\ editor[e].ticket # None
      /\ \A r \in sent : r.id # id
      /\ \A i \in DOMAIN queue : queue[i].id # id
      /\ \A a \in answers : a.id # id

Fairness ==
  /\ WF_vars(Serve)
  /\ WF_vars(\E a \in answers : Receive(a))
  /\ WF_vars(\E r \in sent : Arrive(r))
  /\ \A e \in Editors : WF_vars(Gone(e) /\ GiveUp(e))

Spec == Init /\ [][Next]_vars /\ Fairness

-----------------------------------------------------------------------------
\* Before a file is truncated it holds what the save was based on, whatever
\* other editors and exports do meanwhile: no update is lost.  Only a write
\* that takes neither owner nor lease, after the last comparison, may be.
ReplacesItsBaseline ==
  [][\A p \in Parts :
       disk'[p] = Torn /\ disk[p] # Torn /\ p \notin raced
         => disk[p] = Request.expected[p]]_vars

\* What an editor takes for the state on disk has been the state on disk: a
\* baseline never moves to something that a failed, refused or unanswered
\* save did not write.
BaselineWasStored ==
  \A e \in Editors, p \in Parts : editor[e].base[p] \in stored[p]

\* Following the disk never drops an edit that was not saved: a draft that no
\* file ever held does not go because the watcher or a refresh brings another.
UnsavedIsNeverDropped ==
  [][\A e \in Editors, p \in Parts :
       (editor'[e].draft[p] # editor[e].draft[p] /\ editor[e].draft[p] \notin stored[p])
         => ~\E content \in Content : WatchBody(e, content) \/ RefreshMeta(e, content)]_vars

\* The lease belongs to the save that is running, or to the export: it is
\* neither left behind by one that failed nor shared by two, and while the
\* lease of a crashed server lies there ("fail-closed") nobody works at all.
LeaseHasItsHolder ==
  /\ TypeOK
  /\ lease = "server" <=>
       work.step \notin {"queued"} /\ work.code # "project_busy"
  /\ lease = "cli" <=> export # "none"

\* Every save ends for its editor, whether it succeeded, was refused, got
\* lost or died with the server.
SavesAreAnswered ==
  \A e \in Editors, id \in Ids :
    (editor[e].ticket # None /\ editor[e].ticket.id = id)
      ~> (editor[e].ticket = None \/ editor[e].ticket.id # id)
===============================================================================
