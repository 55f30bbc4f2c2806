# Verification of QuickerRpc and QuickerAgent

This directory holds TLA+ models of the concurrent core of the repository, the
TLC runs that check them on small instances, and TLAPS proofs of what holds for
every instance. Everything is translated from the code. Where the code and its
prose disagree, the code is modelled.

Contents: [1 the system](#1-the-system) - [2 the modules](#2-the-modules) -
[3 the runs](#3-the-runs-their-bounds-and-what-they-show) -
[4 fairness](#4-fairness) - [5 proofs](#5-what-is-proved) -
[6 what is only model-checked](#6-what-is-only-model-checked) -
[7 what is not modelled](#7-what-is-not-modelled) - [8 plan](#8-plan) -
[9 running it](#9-running-it)

## 1 The system

The repository is a monorepo of three programs that work on *actions* of the
Windows tool Quicker: programs of steps, stored as JSON or as source bundles.

* **QuickerAgent** (`src/agent-gui`): a React user interface with an action
  editor and an agent chat, a Node server behind it, an Electron shell around
  both, and a browser runtime and terminals as helper processes.
* **The QuickerRpc plugin** (`src/QuickerRpc/src/QuickerRpc.Plugin.V1`, `.V2`):
  runs inside the Quicker process, serves RPC over a named pipe and is started
  and stopped by Quicker.
* **The qkrpc CLI** (`src/QuickerRpc/src/QuickerRpc.Console`): talks to the
  plugin over the pipe, exports and saves action projects, and runs as a
  resident HTTP process (`serve`) for the Node server.

An action open in the editor is touched by the user, the agent's tool calls,
the file watcher, the Node server that saves it, the CLI that exports it, the
host that syncs it, and any tool that writes the workspace. Almost every
property here is about two of them meeting.

### Components

For each: its state; its operations; what makes it hard; what makes it correct.

**V2 launcher lifetime** (`Launcher.Lifetime.cs`; module `LauncherLifetime`).
State: a status, the current startup attempt, the published owner, one stop
task. Operations: `TryStart`, `StopAsync`, and on the thread pool `StartAsync`
and `CompleteStopAsync`, each made of awaits and lock statements. Quicker calls
`TryStart` again after a failure and `StopAsync` at any time. Correct when two
owners (host, RPC server, logger) are never alive together, nothing outlives
Stop, nothing is published after it, and Stop ends.

**Program document session** (`lib/action-editor/document/`; modules
`ProgramDocumentSession`, `DocumentContract`). State: draft and baseline of the
body and of the metadata, a revision, an identity (project and storage
version), an undo history, at most one save ticket. Operations: edits,
undo/redo, three reconciliations with disk and host, begin/complete save, close.
Single-threaded; hard because every caller acts on something it read before an
await. Correct when a revision names one document, a baseline moves only by what
was really stored, undo does not resurrect what the disk replaced, and callers
get what `DocumentContract` promises.

**Live program document** (`live-program-document-registry.ts`,
`live-program-document-turn.ts`, `liveProgramDocumentEndpoint.ts`; module
`LiveProgramDocument`). State: the registered editor mount with its row tokens,
the user's pins, a scope per message with its ledger of receipts, schema reads in
flight, the results of the turn. Operations: pin, capture a scope, read, edit,
repeat or replay a call, stop, remount. Hard because calls are repeated, ids
reused, results are late and the user edits meanwhile. Correct when an
operation is applied at most once, to the row the user pinned, over the document
that was read, in its own turn, and the receipt says what happened.

**Program document storage** (`legacy-program-document-storage.server.ts`,
`program-document-save-client.ts`, `action-project-host-binding.server.ts`,
`ActionProjectDataEditor.tsx`, the CLI's `ActionProjectHostBinding.cs`; module
`ProgramDocumentStorage`). State: `data.json` and `info.json`, the lease file of
the project, the server's queue of saves, requests and answers under way, and
each editor's baseline, draft, ticket and conflicts. Hard: a save reads,
compares, truncates and writes in steps; answers are lost; the server crashes;
some writers take neither queue nor lease. Correct when a save replaces exactly
what it was based on, baselines were really on disk, unsaved edits are not
dropped, a lease has a holder, and each save ends.

**Source document ownership** (`source-document-owner.server.ts`; module
`SourceDocumentOwner`). State: one promise chain, a map of leases. Operations:
claim a bundle, operate under the claim's token, write as an outsider, release.
Hard: canonicalization and inspection are awaited inside, calls are cancelled,
and a release takes no turn. Correct when open bundles do not overlap, writers
are alone, an open document keeps its lease and no other lease stays behind.

**Agent turn** (`turn-runner.ts`, `turn-lifecycle.ts`; module `AgentTurn`).
State: an abort signal, registered cleanups, the promise chain that runs them,
the response stream and its pending read. Hard: a cancellation may come from the
request, the client or the body, at any await, also during the cleanup itself.
Correct when all that was acquired is released once, in order, before anyone who
waits is told that the turn is over, and a turn that completed stays completed.

**Host calls** (`lib/qkrpc.ts`, `qkrpc-http.ts`, `qkrpc-host-binding.ts`,
`qkrpc-operation-effects.ts`; `ServeInvokeDispatcher.cs`,
`QkrpcRpcSessionPool.cs`; `QuickerRpcClient.cs`, `QuickerRpcGuardedService.cs`,
`QuickerRpcServerHost.cs`; module `HostCalls`). State: the host each turn is bound
to, each call and its request in the serve process, the pools with their
sessions and gates, the pipe connections, the hosts. Operations: bind, post,
retry, cancel; take a session, invoke, invalidate; accept, stop. Hard: three
processes of which each may stop under the others, sessions disposed under their
users, deadlines that pass after the write went out. Correct when a write runs at
most once, on the host of its turn, and its answer is true; when no connection is
lost; and when every call is answered.

**Source bundle document** (`source-bundle-document-client.ts`,
`source-bundle-document.server.ts`, `ActionSourceDocument.cs`,
`ActionSourceWorkspace.cs`, `ActionSourceServeOps.cs`, and in the host
`ActionProgramSourceService.cs` with its V2 counterpart; module `SourceBundleDocument`). State: the bundle on disk (source, resources, identity,
baseline), the native action and its edit version, the document clients, the
owner's chain, the requests in the serve process and in the host's pipe.
Operations: open, save, sync, close; abort, lose an answer, die. Hard: a request
that was given up leaves the chain and goes on writing, next to the operation
that took its place; and the host may have saved although it reports a failure. Correct when nothing replaces what its writer had not read,
the baseline on disk is one the native action had, answers are true, an
unconfirmed write is not repeated, and nobody waits for good.

**V1 plugin launcher** (`Launcher.StartCore.cs`, `Launcher.Lifecycle.cs`,
`ProgramManager.cs` of `QuickerRpc.Plugin.V1`; module `V1Launcher`). State: the
loaded versions, and for each its status, host, background task and the flag that
QuickerAgent is to be launched. Operations: start, exit, stop, and the stretches
of the task. Hard: every version has a lock of its own, and one that starts
tells all others to exit, which may be starting too. Correct when two hosts
take clients together only while one is being taken down, no host is left without its
launcher, and a queued launch is carried out.

**Not modelled** (section 7): browser queue and sessions, terminals, the
database writer lease, the updater, codecs and search, the user interface.

### How they interact

```
 user ──────────┐                        ┌── file watcher, outside tools
                ▼                        ▼
 agent turn ─► live registry ─► document session ─► save client ─► Node server ─► data.json, info.json
 (AgentTurn)   (LiveProgram-    (ProgramDocument-   (ProgramDocumentStorage)       ▲ lease file
                Document)        Session)                                          └── qkrpc export
      │                                             source bundle ─► SourceDocumentOwner ─► qkrpc serve ─► native action
      │                                             (SourceBundleDocument, from designer to native action)
      └─► tool call ─► Node client ─► qkrpc serve, session pool ─► pipe ─► RPC host of a plugin (LauncherLifetime, V1Launcher)
                       (HostCalls, from the tool to the host)
```

* The live registry never edits a document itself: it asks the endpoint of the
  mounted editor, which asks the session with the revision it expects.
* The session stores nothing: it hands out a ticket and learns the outcome.
* Server and CLI share no memory: the lease file is their only meeting point.
* A call to the host crosses three processes. Who waits for it and who runs it
  may be two different sets of survivors; only the version the request names, or
  the identity of the host, still ties the two together.
* The server's write queue and the source owner's chain each live in one process
  and die with it.

## 2 The modules

| module | what it is | lines it translates |
| --- | --- | --- |
| `LauncherLifetime` | specification of the V2 launcher; implements `Lifetime` | `Launcher.Lifetime.cs` |
| `DocumentContract` | abstract specification of a document, as its users see it | |
| `WriteResults` | abstract specification of a write that another process or thread carries out, and of what its caller is told | |
| `Lifetime` | abstract specification of who owns resources and says when all are gone | |
| `ProgramDocumentSession` | specification of the session; implements `DocumentContract` | `programDocumentSession.ts`, `programDocumentHistory.ts` |
| `ProgramDocumentSessionProofs` | its theorems, and the refinement | |
| `LiveProgramDocument` | specification of registry, endpoint and turn, over `DocumentContract`; implements `WriteResults` | the three live files |
| `LiveProgramDocumentProofs` | its theorems | |
| `ProgramDocumentStorage` | specification of the save protocol with all its writers | server, client, editor, CLI |
| `ProgramDocumentStorageProofs` | its theorems | |
| `SourceDocumentOwner` | specification of ownership | `source-document-owner.server.ts` |
| `SourceDocumentOwnerProofs` | its theorems | |
| `AgentTurn` | specification of one turn; implements `Lifetime` | `turn-runner.ts`, `turn-lifecycle.ts` |
| `AgentTurnProofs` | its theorems | |
| `HostCalls` | specification of a call from the tool to the host; implements `WriteResults` | Node client, serve process, RPC transport |
| `HostCallsProofs` | its theorems: writes and their answers, the host of a turn, the connections | |
| `SourceBundleDocument` | specification of a bundle from designer to native action; implements `WriteResults` | client, Node server, serve process |
| `SourceBundleDocumentProofs` | its theorems | |
| `V1Launcher` | specification of the V1 launchers of several versions | `Launcher.StartCore.cs`, `Launcher.Lifecycle.cs`, `ProgramManager.cs` |
| `LauncherProofs` | theorems of both launchers | |
| `MC...` | the instances TLC checks, one for each specification: what it needs beyond the constants (a history variable, a symmetry, a choice of scenarios) | |

Conventions. A step is the code between two awaits, or inside one lock: in
between, everything else may run. A handler is one action with its guards,
early returns and trailing assignments, named after the function. A call that the
code refuses without any change is not a step. History variables (`stored`,
`raced`, `applied`, `birth`, `lived`, `ran`,
`moved`, `committed`, `unserved`) record what properties need and are read
by no guard. A definition like `AnyReadProof` or `NotAwaited`, which stands before
the one it resembles and is used by nothing, is a plausible mistake in that
code: each property has been seen to fail when its mistake is put in.

### The abstract specifications

Three promises of the system are stated once, apart from any component, and the
components are shown to keep them under a refinement mapping.

* `DocumentContract`: a revision names one document, and a save or an edit is
  about the document its caller read. `ProgramDocumentSession` implements it, and
  `LiveProgramDocument` stands on it.
* `WriteResults`: a write is carried out at most once; its caller is told that it
  was applied, that it was not, or that nobody knows (`WRITE_RESULT_UNKNOWN`,
  `application: "unknown"`, `UNKNOWN`); and what was told is not overtaken: a write
  reported as not applied is not carried out later, and only one whose result is
  unknown may still be under way. `HostCalls`, `LiveProgramDocument` and
  `SourceBundleDocument` implement it. Each has mechanisms of its own (the guard
  of the RPC client; the ledger of receipts; the compared write and the versions
  of the native action) and codes of its own, which `Reported`, `ToldOf` and
  `ResultOf` read as results of the contract.
* `Lifetime`: a resource is acquired once and released once, and whoever is told
  that the lifetime is over finds everything released, now and for good.
  `LauncherLifetime` implements it with one owner at a time (`Exclusive`),
  `AgentTurn` with several resources. What is held is not one variable of either: an
  owner is in its attempt, in the lifetime or with Stop, a resource is registered
  or on the chain; the mapping (`Owners`, `Turn`) gathers it.

In the mapping of `WriteResults` a code that leaves open what happened is no
answer: the result is unknown as long as a request of the write is in the serve
process or in a pipe, and *forgotten* from then, as it is when a definite answer is lost on
its way to the browser or a closed scope takes its ledger along. After a forgotten
result nothing may be carried out, as after a refusal: were it the same as unknown, a
refused write could be carried out once its refusal is lost. A save of the text that was loaded writes nothing, so its `ok` counts as
not applied.

### LauncherLifetime

`phase[a]` is where `StartAsync` of attempt `a` stands, `holds[a]` whether its
local `owner` is set, `release[a]` the owner's `_releaseTask`, `stop` what
`CompleteStopAsync` captured. `TryStart` and `StopAsync` are the public calls;
`CreateOwner`, `StartReturns`/`StartThrows`/`StartCancelled`, `Publish`,
`Unwind`, `Unwound`, `Retire` are the stretches of `StartAsync`; `StopCancel`,
`StopJoin`, `StopRelease`, `StopReleased` those of the stop. Start and cleanup of
an owner are callbacks: a start returns, throws or hangs, a cleanup may fail.

### ProgramDocumentSession and DocumentContract

The session's calls are actions that take the reading (`seen`) they were decided
on: the current one, or `view`, any earlier reading. Bodies are fingerprints,
metadata is its editable fields and an opaque rest; parsing and JSON patching are
left out. `beginSave` is two actions, because it calls the mounted editors, which
may call back. `DocumentContract` has five actions (`Change`, `Rebind`, `Save`,
`Saved`, `Close`); `ImplementsContract` is `Contract!ContractSpec` under the
mapping that forgets the history, the baselines and the ticket.

### LiveProgramDocument

EXTENDS `DocumentContract`: its session is any that keeps the contract, so what
is checked does not depend on the session's details. `Begin` captures pins into
the turn's scope; `ReadLive`, `EditLive`, `Refuse` are the synchronous paths of
`executeCommand`, `StartRead`, `RequestSchema`, `SchemaAnswered` and
`TakeDelivery` the asynchronous ones, and `Replay` the ways a repeated call is
answered. Variables of a program, mapping epochs of bundles and a registry shared
by several chats are left out; the per-turn call policy appears as refusals that
may come at any time.

### ProgramDocumentStorage

`Claim`, `ReadBody`, `Compare`, `Truncate`, `WriteBody`, `Recheck`, `WriteMeta`
and `Leave` are the stretches of a save on the server; `Torn` is a file between
truncation and write. `Save`, `Receive`, `GiveUp`, `WatchBody`, `RefreshMeta`,
`Reopen` are the editor's side; `WatchBody` may deliver any body the file ever
held, so a late watcher is included. `Export` is the CLI, which overwrites under
the lease; `OutsideWrite` is a tool that takes nothing; `Crash` ends the server
and leaves its lease; `ClearLease` is somebody deleting that file. Path and
binding checks are refusals that may happen. Documents other than main actions
take no lease and are not modelled.

### SourceDocumentOwner

`queue` is the promise chain, a token is the claim that produced it. `Overlaps`
(two bundles) and `Covers` (a bundle and a target) stand for path containment of
canonical footprints; they are constants about which only reflexivity and
symmetry of `Overlaps` is assumed. The work inside a call is a beginning and an
end.

### AgentTurn

`cleanups` are those registered, `scheduled` all that were ever put on the chain,
`ended` how many ended; `awaits[p]` is the link that waiter `p` (runner, pull,
client) waits for, since each awaits the promise as it was when it asked. The
services the runner awaits and the loop that produces the body are external.
Trace events are left out. Turns share nothing, so there is one.

### HostCalls

`call[c]` is the call as the tool sees it (`invokeQkrpcHttp`,
`resolveQkrpcHttpBinding`, `Receive`, `HttpFails`, `Abort`), `req[c]` its request
in the serve process (`InvokeAsync`, `GetSessionAsync`, `Connected`,
`GuardedInvoke`, `RpcReturns`, `RpcLost`, `Deadline`, `RequestAborted`), `pools`
the root pool and one per host, each with its gate, its session and its binding.
A host is a run of a plugin host with a session id of its own, so one that comes
back is another host. `HostRuns` executes what was written to a pipe, also for a
client that has given it up; `HostRejects` is a guard of the host that refuses, or a
method that throws before any effect. An exception may also follow the effect
(`QuickerRpcGuardedService` turns only a lost connection, a cancellation and a disposed
session into an unknown result): `RpcReturns` may fail a request that ran. The code
reports such an exception as `INVOKE_FAILED` and does not say whether the write took
effect, so of a write it counts as unknown, like `WRITE_RESULT_UNKNOWN`; definite are
"ok" and what was refused before it was sent. `HealthConnects` is the connection a
health request makes through the gate of the root pool. It is one step: whoever
waits for the gate meanwhile finds the pool as the step leaves it.
A discovery hears any part of the hosts that are up.
The operations are a write and a repeatable read; a write may name the host of
its bundle (`pin`). A retry of a read is posted only after its former request has
ended, as its pause is far longer than serve takes to notice a client that left.
Left out: the command-line transport, the alignment of the gateway address and
the connectivity gate, which can only refuse further calls, and the bootstrap of
a plugin that is not loaded, which is a host that starts.

### SourceBundleDocument

`client` is the designer's document client, `chain` the owner's promise chain with
the operation that runs at its head, `work` the requests in the serve process,
`pipe` the commits that nobody waits for, `disk` the bundle and `native` all the
bodies of the action, whose number is its edit version. `Captures`, `Compares`,
`Moves`, `Confirms` are the stretches of a local save; `Captures`, `Commits`,
`HostAnswers`, `Checkpoint`, `Identifies` those of a commit. `HostAnswers` replaces
the body when the request names the current version, and refuses otherwise.
`HostFails` is the rest of `ActionProgramSourceService.Apply` and its V2 counterpart:
a failure before the native save (nothing is persisted), one that the save throws
or is suspected of (`Persisted = null`, and the body may be replaced or not,
`ActionSaveAttempt.cs:30`), and one of the notification or the readback behind it
(`Persisted = true`). All are passed to the client under the host's codes, here
`HOST`, `HOST_UNKNOWN` and `HOST_PERSISTED`. With `KeepsUnchanged` the host leaves
an unchanged body and its version alone, as the V2 storage does; without it, it saves
it again under a new version, as the V1 service does. `Aborts` takes an
operation out of the chain and leaves its request. `ServeDies` ends all requests
and frees the lease file, which the operating system deletes with the process.
Edits of the working files and of the native action by other programs come at
any time. The comparison and the rename of a save are two steps: an edit between
them is overwritten, as `docs/authoring/source-bundle-document.md:74-75` says of
external editors, and `raced` marks that exception. Brief leases (a comparison
or a checkpoint step under one) are one step. Left out: previews and catalog
reads, which write nothing; the identity mapping of variables and steps; the
checks of codec and host binding; resources in a save, which the client never
sends; the command line as a fallback.

### V1Launcher

`task[v]` is where `StartCoreAsync` of version `v` stands, `others[v]` the
versions it has still to tell to exit, `flag[v]` the volatile
`_launchQuickerAgentAfterStart`, which is set outside the lock and read and
cleared in two steps. A call of `Start` is `StartCore` (the options), `Starts`
(the lock) and perhaps `CallLaunches`. `Exit` of a launcher that is starting only
marks it; the task finds the mark (`ShouldStartHost`, `PublishStatus`) and unwinds.
`host[v]` means that the host takes clients, from its start until it is told to stop.
The sessions it accepted before may outlive the five seconds that `StopAsync` waits
(`QuickerRpcServerHost.cs:51-56`); what they may still execute is `stopping` in
`HostCalls`, and no property of this module speaks of it.
Left out: the option that kills QuickerAgent, and the flags that choose popups.
Two versions that start at the same moment may each tell the other to exit, and
then none of them serves: the code says nothing against it, and no property here
denies it.

## 3 The runs, their bounds and what they show

All runs pass with deadlock checking off: every one of these systems may rest
(no caller, no user), and what must not rest is stated as liveness, or, for the
bundle, as the invariant `NobodyWaitsForGood`.

| run | module, cfg | states | question |
| --- | --- | --- | --- |
| `launcher_lifetime` | `MCLauncherLifetime`, `LauncherLifetime.cfg` | 2 122 | attempts against Stop |
| `document_session` | `MCProgramDocumentSession`, `ProgramDocumentSession.cfg` | 555 000 | stale callers, saves, undo, refinement |
| `live_edits` | `MCLiveProgramDocument`, `LiveEdits.cfg` | 351 000 | edits against the user |
| `live_turns` | `MCLiveProgramDocument`, `LiveTurns.cfg` | 151 662 | late reads across turns |
| `storage_editors` | `MCProgramDocumentStorage`, `StorageEditors.cfg` | 1 180 000 | two editors; save, export and crash |
| `storage_failures` | `MCProgramDocumentStorage`, `StorageFailures.cfg` | 655 172 | failures and outside writes |
| `source_owners` | `MCSourceDocumentOwner`, `SourceOwners.cfg` | 79 153 | overlapping bundles |
| `agent_turn` | `MCAgentTurn`, `AgentTurn.cfg` | 593 | cancellation at any await |
| `host_calls` | `MCHostCalls`, `HostCalls.cfg` | 2 040 000 | one write, one read, failing hosts |
| `host_answers` | `MCHostCalls`, `HostAnswers.cfg` | 631 000 | is every call answered |
| `source_bundle` | `MCSourceBundleDocument`, `SourceBundle.cfg` | 1 177 262 | writes that outlive their request |
| `v1_launcher` | `MCV1Launcher`, `V1Launcher.cfg` | 255 000 | versions that replace each other |

**launcher_lifetime.** Three attempts: one that fails, one that is tried again
while it is being released, one more for Stop to meet. A fourth would meet only
states the third does. `ImplementsLifetime` (a retry awaits the release of
the one before, and the end of Stop is the end of all owners); `NothingOutlivesStop`;
`StopCompletes` (though
Stop joins a startup that ends only if it is cancelled).

**document_session.** Two bodies, two metadata fields (one is changed by the
disk, the other by the user) with a blank value, two extension values, two
targets, two versions, up to three revisions, history limit two, so that it
overflows. A caller acts on the current reading or on any earlier one.
`UndoRespectsDisk`: no entry of either timeline holds a value of a field from
before the disk last changed that field. `BaselineMovesByReceipt`: a late or
partial receipt moves the baseline to what the ticket carried, never to the
draft. `ImplementsContract` includes that a revision names one document, and that
a document once bound to a project is never bound to another. `lived`, which
`UndoRespectsDisk` needs, is kept by the MC module.

**live_edits.** One step that comes and goes, two operation ids. `EditSpec` has
two stories, chosen at the start: note edits with two mounts and two user
revisions per mount (delete, create again), or input edits with the schema reads
they cite and one user revision, which is enough to fall between the request of a
schema and its answer. Every input names any earlier read and any revision.
`ReceiptsAreTrue` (with: an operation is applied at most once),
`RowIsNeverSubstituted`, `EditsWhatWasRead` (with: only over a schema loaded for
this document). Operation ids are symmetric.

**live_turns.** Two turns, one retained scope, so that the second evicts the
first; a schema read of the first may end at any point of the second.
`ResultsAreOfTheTurn`; `ImplementsWriteResults` (a refusal or a cancelled schema read
is never followed by the edit, in either turn); and `ReadsAreAnswered`, a liveness
property, hence without symmetry. The user makes no edits here; `live_edits` has them.

**storage_editors.** The bounds are scenarios, one of which is chosen in `Init`:
`left` counts what is left of it. With two editors: two edits, two saves, so that each editor saves over the other's baseline. With one: an
edit, a save and a retry, an export, a crash. `ReplacesItsBaseline` (no lost update),
`BaselineWasStored`, `UnsavedIsNeverDropped`, `LeaseHasItsHolder`. The lease of a
crashed server stays and blocks; that is the documented intention
("fail-closed"). Values and editors are symmetric.

**storage_failures.** One editor, two saves, one crash, one write by a tool that
takes neither queue nor lease. `SavesAreAnswered`; and `ReplacesItsBaseline`
again, because here its exception is used: a write by such a tool after the last
comparison is overwritten. The code does not prevent this and the property says
exactly how far it goes.

**host_calls.** A write and a read of one turn, two hosts (one may take the place
of the other), at most three connections, a read that is tried twice, and one
fault: a host that stops or ends, a death of serve, a failed health request, a
client that leaves. Deadlines, refused connections, rejected calls and empty
lists that are asked for again are free: each can meet the fault. Health requests
connect the root pool at any time before a call has a session (`MCSpec`; the proofs
are about `Spec`, which does not bound them). The write names a host or none.
`ImplementsWriteResults` (the write runs at most once; a definite failure means that
it did not run and will not), `TurnTalksToOneHost`, `NoConnectionIsLost`. Hosts are symmetric.

**host_answers.** The same without symmetry, with two connections and one try, for
`CallsAreAnswered`: a second try of a read is a call of its own, and starts from
states the first one also has. Health requests do not connect here (`AnswersSpec`):
they only make a call find a session that is there, or wait for a gate until its
deadline.

**source_bundle.** Two documents of one bundle, four operations (an open each,
and two saves or syncs), two requests at a time in serve, and two things that go
wrong: two faults, or a fault and an edit by another program, so that a request that
was given up still writes while the next operation runs, dies or loses its answer too.
`WritesReplaceWhatTheyRead`, `BaselineWasNative`, `ImplementsWriteResults`,
`UnconfirmedIsNotRepeated`, `NobodyWaitsForGood`. The run takes the host that keeps an
unchanged body; with the other one (`KeepsUnchanged = FALSE`, 1 199 334 states) TLC
finds the same, and the proofs are for both. `UnconfirmedIsNotRepeated` speaks of
every answer that does not confirm a write: an unknown or a half-finished one, a
malformed success (`SOURCE_SAVE_ACK_INVALID`), a failure of the host with
`Persisted` null or true. What the code guarantees is that such a write has
nothing under way any more when its client writes again, and that of two commits
from one baseline at most one changes the action, since the second one meets
another version. It does not guarantee that the client opens the bundle anew before it
writes again, which the documents ask for: "结果不确定时返回 `SOURCE_WRITE_RESULT_UNKNOWN`，调用方必须重新打开，不能
自动重放" (`docs/design/quicker-rpc-plugin-v2.md:271-272`), and
`docs/authoring/source-bundle-document.md:107-118` forbids an automatic repetition. The client
blocks its draft on `WRITE_RESULT_UNKNOWN`, `SOURCE_CHECKPOINT_FAILED`,
`SOURCE_SYNC_READBACK_FAILED` and `SOURCE_SNAPSHOT_CONFLICT` alone
(`source-bundle-document-client.ts:150`), not on `SOURCE_WRITE_RESULT_UNKNOWN`,
`SOURCE_POST_COMMIT_FAILED`, `SOURCE_READBACK_FAILED`, `SOURCE_SAVE_FAILED` of a save
that threw, or `SOURCE_SAVE_ACK_INVALID`: the user may sync again without opening
the bundle anew, and is then refused by the host's comparison, or finds the body
unchanged. `Blocks` is the code's list, and no property claims the documents' rule. The MC module
leaves out which of the two alike documents connects first, and three things that
go wrong (`TwoGoWrong`); the proofs of all but `NobodyWaitsForGood` have no such
bound.

**v1_launcher.** Two versions, three starts of either (each may ask for
QuickerAgent), two starts that fail or stops that throw, exits at any time.
`OneVersionServes`, `HostHasItsLauncher`, and `LaunchIsHonoured`, which is liveness.
More versions and starts are proved.

**source_owners.** Three calls of any kind over an outer and a nested bundle, a
covered and an uncovered target: opening twice, reopening after a release, an
operation on a document that closes under it, an outsider in between.
`LeasesAreDisjoint`, `WritersAreAlone`, `LeasesMatchClaims`,
`StaleDispatchesNothing`, `CallsAreAnswered`. The safety of more calls and more
bundles is proved.

**agent_turn.** No parameter: all behaviours of one turn. `ReleasedOnce`,
`ImplementsLifetime`, `RuntimeOutlivesLoop`, `CompletionStands`, `CancelledTurnEnds`.

Each specification has one type invariant, `TypeOK` (`V1TypeOK` of the V1
launchers), which is part of an invariant that is proved for it. The live document's
`Typed` adds to `TypeOK` the types of pins, scopes, receipts and pending reads.

## 4 Fairness

Only weak fairness, and only of what the program itself goes on to do.

* `LauncherLifetime`: the thread pool runs continuations; a cleanup ends; a
  *cancelled* start ends. A start that nobody cancels may hang.
* `LiveProgramDocument`: microtasks run; the host answers a schema request or the
  request times out. The user and the agent owe nothing.
* `ProgramDocumentStorage`: the server goes on with the head of its queue,
  messages that are not lost arrive, and a client whose connection is gone is
  told so by `fetch`. Requests may still be lost, answers too, and the server may
  crash.
* `SourceDocumentOwner`: a call that has its turn ends: its work is file system
  calls and qkrpc requests, which have time limits. Nobody must release.
* `AgentTurn`: cleanups, the runner's services and a client's wait end. The loop
  need not obey its signal; the client need not read or leave.
* `HostCalls`: serve takes up what is posted, its deadline passes, a reply is
  delivered, a discovery ends, `fetch` notices a connection that serve has lost.
  Hosts owe nothing: they need not answer, nor run.
* `V1Launcher`: the thread pool runs the task, and a call that has begun goes on.
  Nobody has to start, exit or fail.
* `SourceBundleDocument` states no fairness: `NobodyWaitsForGood` says that while
  somebody waits one of the three processes has a step of its own to take, and
  each of these takes an operation further towards its answer.
* `ProgramDocumentSession` has no fairness and no liveness property: it is
  called, it does nothing by itself.

## 5 What is proved

TLAPS checks the following for all values of the constants, from these assumptions,
which TLC evaluates in every run:

| assumption | of | says |
| --- | --- | --- |
| `MaxAttemptsAssumption` | `LauncherLifetime` | at least one attempt |
| `SessionAssumption` | `ProgramDocumentSession` | the title is one of the metadata fields; the history keeps at least one entry; the markers for detached metadata, no target and no preparation are not such values |
| `TicketAssumption` | `ProgramDocumentSession` | the null ticket is not a ticket |
| `CallsAssumption` | `LiveProgramDocument` | the agent's calls are inputs of the four kinds |
| `NoneAssumption`, `DocumentsAssumption` | `LiveProgramDocument` | the marker for nothing is neither a receipt nor a result; a document is a set of rows and a text |
| `BoundsAssumption` | `LiveProgramDocument` | the bounds are numbers, of mounts at least one |
| `ScenariosAssumption` | `ProgramDocumentStorage` | the bounds of a scenario are numbers; half a file is not a content |
| `OverlapsAssumption`, `NobodyAssumption` | `SourceDocumentOwner` | overlap is reflexive and symmetric; the null lease is not a call |
| `CallsAssumption`, `BoundsAssumption` | `HostCalls` | writes are calls, the hosts with an identity are hosts, a call has a turn, the markers are none of these; bounds are numbers, of tries and connections at least one |
| `DocumentAssumption` | `SourceBundleDocument` | the null lease is not a client, the first source is a text; the host keeps unchanged bodies or does not; bounds are numbers, of operations and requests at least one |
| `FaultsAssumption` | `V1Launcher` | the bound on faults is a number |

`AgentTurn` has no constants; its proof covers unboundedly long chains of
cleanups as sequences.

| theorem | states |
| --- | --- |
| `LauncherProofs!TypeCorrect` | `Spec => []TypeOK` |
| `LauncherProofs!Invariant` | `Spec => []IInv` |
| `LauncherProofs!OneOwnerAlive` | `Spec => []OneLiveOwner` |
| `LauncherProofs!StopLeavesNothing` | `Spec => []NothingOutlivesStop` |
| `LauncherProofs!StoppedForGood` | `Spec => StopIsTerminal` |
| `LauncherProofs!StopNeverStuck` | `Spec => []StopGoesOn` |
| `LauncherProofs!OwnersKeepTheLifetime` | `Spec => ImplementsLifetime` |
| `SourceDocumentOwnerProofs!Invariant` | `Spec => []IInv` |
| `SourceDocumentOwnerProofs!OpenBundlesAreDisjoint` | `Spec => []LeasesAreDisjoint` |
| `SourceDocumentOwnerProofs!NobodyWritesIntoAnother` | `Spec => []WritersAreAlone` |
| `SourceDocumentOwnerProofs!OpenDocumentsKeepTheirLease` | `Spec => []LeasesMatchClaims` |
| `SourceDocumentOwnerProofs!StaleCallsDispatchNothing` | `Spec => StaleDispatchesNothing` |
| `SourceDocumentOwnerProofs!WhoWaitsIsInTheChain` | `Spec => []WaitersAreServed` |
| `AgentTurnProofs!Invariant` | `Spec => []IInv` |
| `AgentTurnProofs!TypeCorrect` | `Spec => []TypeOK` |
| `AgentTurnProofs!NothingReleasedTwice` | `Spec => []ReleasedOnce` |
| `AgentTurnProofs!NothingHeldAtTheEnd` | `Spec => []EndedHoldsNothing` |
| `AgentTurnProofs!LoopKeepsItsRuntime` | `Spec => []RuntimeOutlivesLoop` |
| `AgentTurnProofs!ReaderIsAttached` | `Spec => []ReadsAnOpenBody` |
| `AgentTurnProofs!StateIsClosedLast` | `Spec => []StateClosesLast` |
| `AgentTurnProofs!CompletedTurnsStand` | `Spec => CompletionStands` |
| `AgentTurnProofs!CancelledNeverStuck` | `Spec => []CancelledGoesOn` |
| `AgentTurnProofs!TurnKeepsTheLifetime` | `Spec => ImplementsLifetime` |
| `LauncherProofs!V1Invariant` | `V1Spec => []V1Inv` |
| `LauncherProofs!OneVersion` | `V1Spec => []OneVersionServes` |
| `LauncherProofs!NoOrphanHost` | `V1Spec => []HostHasItsLauncher` |
| `LauncherProofs!NoRequestIsForgotten` | `V1Spec => []RequestsAreCarried` |
| `HostCallsProofs!Invariant` | `Spec => []IInv` |
| `HostCallsProofs!TypeCorrect` | `Spec => []TypeOK` |
| `HostCallsProofs!WritesAreNotRepeated` | `Spec => []WritesRunOnce` |
| `HostCallsProofs!WritesAreReportedTruly` | `Spec => []AnswersAreTrue` |
| `HostCallsProofs!BindingsAgree` | `Spec => []BInv` |
| `HostCallsProofs!TurnsStayWithTheirHost` | `Spec => []TurnTalksToOneHost` |
| `HostCallsProofs!ConnectionsHaveAPool` | `Spec => []NoConnectionIsLost` |
| `HostCallsProofs!NoGateIsLost` | `Spec => []GatesAreGivenBack` |
| `HostCallsProofs!CallsKeepTheContract` | `Spec => ImplementsWriteResults` |
| `ProgramDocumentSessionProofs!SessionInvariant` | `Spec => []SInv` |
| `ProgramDocumentSessionProofs!SessionImplementsContract` | `Spec => ImplementsContract` |
| `ProgramDocumentSessionProofs!BaselineAlwaysMovesByReceipt` | `Spec => BaselineMovesByReceipt` |
| `ProgramDocumentSessionProofs!UndoAlwaysRespectsDisk` | `MCSpec => []UndoRespectsDisk` |
| `LiveProgramDocumentProofs!LiveInvariant` | `Spec => []LInv` |
| `LiveProgramDocumentProofs!ReceiptsAreAlwaysTrue` | `Spec => []ReceiptsAreTrue` |
| `LiveProgramDocumentProofs!ResultsAreAlwaysOfTheTurn` | `Spec => []ResultsAreOfTheTurn` |
| `LiveProgramDocumentProofs!EditsAlwaysFollowTheirRead` | `Spec => EditsWhatWasRead` |
| `LiveProgramDocumentProofs!RowsAreNeverSubstituted` | `Spec => RowIsNeverSubstituted` |
| `LiveProgramDocumentProofs!NoReceiptIsLost` | `Spec => []ReceiptsReachTheTurn` |
| `LiveProgramDocumentProofs!OperationsKeepTheContract` | `Spec => ImplementsWriteResults` |
| `ProgramDocumentStorageProofs!SavesInvariant` | `Spec => []SInv` |
| `ProgramDocumentStorageProofs!LeaseAlwaysHasItsHolder` | `Spec => []LeaseHasItsHolder` |
| `ProgramDocumentStorageProofs!BaselineWasAlwaysStored` | `Spec => []BaselineWasStored` |
| `ProgramDocumentStorageProofs!SavesReplaceTheirBaseline` | `Spec => ReplacesItsBaseline` |
| `ProgramDocumentStorageProofs!UnsavedIsKept` | `Spec => UnsavedIsNeverDropped` |
| `SourceBundleDocumentProofs!BundleInvariant` | `Spec => []IInv` |
| `SourceBundleDocumentProofs!BaselineWasAlwaysNative` | `Spec => []BaselineWasNative` |
| `SourceBundleDocumentProofs!AnswersAreAlwaysTrue` | `Spec => []AnswersAreTrue` |
| `SourceBundleDocumentProofs!UnconfirmedIsNeverRepeated` | `Spec => []UnconfirmedIsNotRepeated` |
| `SourceBundleDocumentProofs!WritesAlwaysReplaceWhatTheyRead` | `Spec => WritesReplaceWhatTheyRead` |
| `SourceBundleDocumentProofs!WhoWaitsIsServed` | `Spec => []SomebodyActs` |
| `SourceBundleDocumentProofs!SavesKeepTheContract` | `Spec => ImplementsWriteResults` |
| `SourceBundleDocumentProofs!EveryWriteLandsOnce` | `Spec => LandsOnce` |

**The launcher.** `OneLiveOwner` alone is not inductive: it does not say why a
new owner cannot meet an old one. The invariant adds where an owner can be (in
its attempt, in the lifetime, with Stop, under release) for each phase of its
attempt, and that attempts after the current one do not exist: `TryStart` is
possible only when the attempt before has retired, and it retires only after it
awaited its release.

**The session.** `TicketInv` ties the three variables of a save together: there
is a save exactly when there is a ticket, no ticket is made while one is out, and
the document does not move under it. With it every call is a step of
`DocumentContract` or changes nothing the contract sees, also calls decided on an
earlier reading: that is the whole of `SessionImplementsContract`.
`UndoRespectsDisk` needs `HistoryInv`: not only the entries of the history but the
draft's own fields have to be among the values that have lived since the disk
changed them, because the next edit turns the draft into an entry. The proof has two
halves, steps of the user (the history gets no entry that was not there or in
the draft, `Ordinary`) and reports of the disk (every entry is rebased). It is
stated of `MCSpec`, which adds the history variable `lived` to `Spec`.

**The live document.** What the registry compares is never the document: it
compares revisions, mounts and tokens, and the invariant says why that is enough.
`ReadsInv`: a read that a scope keeps is of the scope's own mount, and at the same
mount and revision the document is still the one that was read, because every
step that changes the document takes a new revision, and a remount a new session.
`RowsInv` and `GrantsInv`: the endpoint forgets a token when it sees the row removed, and
never hands it out again, so a grant whose token is current is about a row of the
same birth. `LedgerInv`: an operation without a receipt has changed nothing and one
with a receipt is never executed again, whatever its repetitions say; a turn that has
not begun has neither receipts nor reads. Every step is shown to be of one of a few
patterns (`ReadsStep`, `LedgerStep`, `GrantsStep`): it keeps the document or advances
the revision, stores receipts that are true, keeps names. `ResultsAreOfTheTurn` is
inductive as it stands.

**The storage.** The proof follows one request through editor, server and answer.
Its id is its own (`IdsAreSpent`: ids are handed out downwards and never come back), so an answer
that an editor accepts is about the ticket it holds, however late it comes
(`TicketsAreRequests`). What the server calls persisted has been on the disk
(`PersistedWasStored`), which makes `BaselineWasStored` inductive.
`ReplacesItsBaseline` is `EstablishedStays`: between the comparison of a file and its
write the lease keeps the other writers out (`LeaseInv`), and a second
comparison precedes the metadata's own write.

**Ownership.** `LeasesAreDisjoint` is preserved by a claim only because the
comparison with all leases and the new lease are one step, and by everything else
because leases are otherwise only removed. `WritersAreAlone` needs more: that a
claim cannot set a lease while a writer is inside, which is `InsideIsFirst` (who
is past the chain is the head of the queue), and that leases and claims agree
(`OpenKeepsLease`, `LeasesHaveOwners`), so that a stale release removes nothing
of another's.

**The turn.** `ChainInv` is about the chain of cleanups: what is held is
registered or still due, nothing is there twice, and the execution state precedes
only resources that came late. `ControlInv` is about waiters: whoever is going
to announce the end waits for the last link of the chain, at a time when nothing
more can be acquired. Together they give every property; neither is inductive
alone. `DisposeHands` describes the reversed hand-over of the registered cleanups
link by link and is cited by each step that disposes.

**V1 launchers.** Two launchers never compare themselves, so `OneVersionServes` is
about an argument in time: whoever starts later finds the other one loaded. The
invariant says it of pairs (`Mutual`): of two launchers that start or serve, one
has still to tell the other to exit. It is kept because a call loads its version
before its task reads the loaded ones (`CalledIsLoaded`), and because a task tells
everyone before it starts its host; `TaskMatchesStatus` says where a task can be
in each status.

**Host calls.** `WritesRunOnce` follows one write through the three processes:
`Progress` says, for each place its request can be in, whether it was written to
a pipe and how often it was executed, and that Node is done with it as soon as
anything ends its first attempt. A refusal is true because the guard and the
dispatcher answer so only before the write went out; whatever ends a write later
is its success or unknown. `TurnTalksToOneHost` needs that all places which name a host for a
call agree (`PoolIsBound`, `RequestIsBound`, `CallIsBound`), in spite of sessions
that are replaced under their users: a pool gets its binding once, from the
request that holds its gate (`GateHasItsOwner`) or a health request
(`HealthConnectsKeeps`), while nobody calls through it.
The same ownership gives `NoConnectionIsLost`: who connects finds the pool empty.

**Source bundles.** Four processes act on a bundle, and an operation may outlive the
place it had in the chain. `ChainInv` and `SlotInv` say what is left of it then: it
had one place and has one request, and if nobody waits for the request, the
answer was `UNKNOWN`. `LandedInv` follows the effect: an operation that moved the
file, was committed, or has a commit in the host's pipe is not answered by a
refusal any more, at whatever step of the serve process it is. `ClientInv` adds that
a client has one operation at a time, its last, and does not write after an
answer that blocks it (`NothingAfterDoubt`: `UNKNOWN`, `PARTIAL`, `CHECKPOINT`,
`READBACK`). `WriteInv` carries the values: what a request is about to write was
captured as its operation expects it, over a body the native action had, and
two requests that hold the lock are one. An action of a serve handler is shown
to be a step of the pattern `ServePreserves` (what it may do, land and write), the
ways an operation leaves the chain to be one of `DropPreserves`; the lemmas of the
single actions only say which.
`WhoWaitsIsServed` states who acts next by the guards of the actions, where
`NobodyWaitsForGood` says `ENABLED`: who has no answer is in the chain
(`WaitersInv`); a first that is queued finds a free slot, or every slot is being
served, because a request that is done always has somebody who takes its answer;
and a request that is served is of a kind some handler is for (`KindsInv`).

**Writes and their results.** `WriteResults` allows a write to be carried out
only while its caller has no answer, or an unknown one, so each refinement needs
more than that answers are true in every state: that no later step turns a true
refusal into a false one, and that a write which lands has not landed before.

* Host calls (`CallsKeepTheContract`): a host runs a request of a write only from
  a place in the pipes where `Progress` says that it has not run and that the call
  is unanswered or was answered as unknown; and the answer of a call that is over
  does not change.
* The live document (`OperationsKeepTheContract`): `LedgerInv` gives the effect of an
  operation by its receipt; an edit is made only by the step that stores the first
  receipt, and a receipt is replaced by nothing. A scope is closed only when
  its turn is, and its operations are forgotten from then.
* Bundles (`SavesKeepTheContract`): by `LandedInv` nothing that has landed is at a
  step that lands it again or is answered by a refusal. `ResultInv` adds what the
  codes say that report a failure behind the write (`ToldTruly`: `PARTIAL` of the
  source file; `CHECKPOINT`, `READBACK`, a malformed success and what the host
  reports as persisted of the native action; and that a commit of which the host
  does not know has no second request at it), for the replies
  under way as for those that arrived (`SlotTells`), that only a save of another
  text moves the file, and that a commit nobody waits for was not carried out yet.
  What has landed stays landed (`LandedStays`), so the result an operation gets with
  its answer is the result it keeps, or forgets when the answer is lost. Nothing of it
  is under way then (`LossIsFinal`): a request without a caller belongs to an
  operation answered by `UNKNOWN`, and what is over is not taken up again
  (`OverStaysOver`). `LandedInv` and `ResultInv` give `EveryWriteLandsOnce`.
* What a client may send again (`UnconfirmedIsNeverRepeated`): a request
  that is left without a caller belongs to an answer `UNKNOWN` (`AnsweredIsServed`), and
  after that one its client is blocked; and a commit that changes the action names the
  version it replaces, which is below the present one from then on (`VersionsInv`), so
  that no later commit from the same baseline finds its version.

**Lifetimes.** The launcher's owner changes hands without being built or released:
`LiveIsOwned` says that it lives exactly while one of the three that can hold it does
and its cleanup has not ended, so publication and Stop are stutters, `CreateOwner`
is an acquisition with nothing held, and the end of `ReleaseCoreAsync` is the
release; the end of Stop is the end by `NothingOutlivesStop`. In the turn what was ever
acquired is `KnownResources`: `dispose` hands it over and forgets none
(`DisposeForgetsNothing`), and every step either acquires one resource that was not
known or releases at most one (`AcquiresOne`, `ReleasesAtMost`); it is over only when
`ControlInv` says that the last link of the chain has ended.

**Nobody is forgotten.** What a property of liveness needs besides fairness is
that in every state on the way somebody can act. That half is an invariant, and it
is proved in the same form of the other components: who waits has something to
wait for, by the guards of the actions.

* `StopNeverStuck`: Stop waits for an attempt only after it cancelled it, and for
  an owner only after its release began (`StopWaitsInv`). A start that was not
  cancelled may hang for ever, so its end does not count as a step.
* `NoRequestIsForgotten`: a request for QuickerAgent is noted before the lock is
  taken and cleared outside it. In each status of the launcher there is a task or a
  call that has still to look at the flag, also when another's launch clears it.
* `WhoWaitsIsInTheChain`: the queue is exactly the calls without an answer. A
  failed or stale call therefore leaves it, and none is there twice.
* `CancelledNeverStuck`: whoever waits for the chain of cleanups waits for a link
  that can be cleaned up, and the runtime's link for a disposal that was asked for
  (`CleaningInv`).
* `NoReceiptIsLost`: of several deliveries the turn takes only that of the first
  call, so a second one has to find a result (`SecondsHaveResults`).
* `NoGateIsLost` needs no more than `GateHasItsOwner`: the owner of a gate has a
  connection attempt in progress, which ends by itself or at its deadline.

## 6 What is only model-checked

* The liveness properties themselves (`StopCompletes`, `ReadsAreAnswered`, `SavesAreAnswered`,
  `CallsAreAnswered` (twice), `CancelledTurnEnds`, `LaunchIsHonoured`): fairness is outside the reach of the
  prover used here. The safety half of it, that nobody waits for what will
  not come, is proved as an invariant of each component (*Nobody is forgotten*), except
  where it holds by definition: an editor whose request and answer are both gone
  (`Gone`) gives its save up, and a host call has a deadline in every process.
* `NobodyWaitsForGood` of bundles, that a waiting operation has a step to wait
  for, is stated with `ENABLED`. What is proved is the same by the guards
  (`WhoWaitsIsServed`); that the guards suffice for the steps is left to TLC.

## 7 What is not modelled

| part | why |
| --- | --- |
| agent file tools on programs | only as the outside writer of the storage and of bundles |
| browser queue and sessions | in the plan |
| terminals, database writer lease, updater | later in the plan; the lease is decided by an OS lock, the updater is one actor |
| stream loop, turn runtime, tool servers | external services of the turn |
| codecs, step search, schema compression | pure functions over large data; tests fit better |
| user interface, documentation and publishing scripts | no state with a property |

Known limits of what is modelled: one chat over the live registry; main actions
only in the storage; path canonicalization as a step that may fail; the
command-line transport of host calls, a mode for debugging.

## 8 Plan

Done, in this order: `LauncherLifetime`; `DocumentContract` and
`ProgramDocumentSession`; `LiveProgramDocument`; `ProgramDocumentStorage`;
`SourceDocumentOwner`; `AgentTurn`; `HostCalls`; `SourceBundleDocument`;
`V1Launcher`; the eight proof modules; `WriteResults` and `Lifetime` with the five
refinements.

Next:

1. `BrowserOperationQueue`: callers that leave while native work goes on as the
   tail of their session's queue.
2. `TerminalMultiplexer`, `WriterLease`, as far as they add a question of their
   own.

## 9 Running it

```
tlc -workers 2 -config AgentTurn.cfg MCAgentTurn.tla
tlapm AgentTurnProofs.tla
```

`PROJECT.json` lists the components, the runs, the source lines behind every
definition, the hazards and the properties that cover them, the mistake each
property has been seen to catch, and the theorems.
