----------------------------- MODULE V1Launcher -----------------------------
(***************************************************************************)
(* The launchers of the V1 plugin (Launcher.StartCore.cs, Launcher.         *)
(* Lifecycle.cs, ProgramManager.cs).  Every version of the plugin that      *)
(* Quicker has loaded has a launcher of its own, with its own lock; one     *)
(* that starts tells all the others to exit.  A start runs in the           *)
(* background, so that an exit, a stop, another start or a request for      *)
(* QuickerAgent may meet it at any point.                                   *)
(* What runs under the lock of a launcher is one step; two threads are      *)
(* apart where the code leaves the lock or never takes it.                  *)
(***************************************************************************)
EXTENDS Integers, FiniteSets

CONSTANTS
  Versions,   \* versions of the plugin
  Calls,      \* calls of Start
  MaxFaults   \* bound on the starts that fail and the stops that throw

ASSUME FaultsAssumption == MaxFaults \in Nat

VARIABLES
  loaded,     \* the versions whose assembly is in the process
  launcherStatus,  \* _status of each launcher
  host,       \* whether its RPC host was started and not told to stop since: takes new clients
  task,       \* where its StartCoreAsync is
  others,     \* the versions that task has still to tell to exit
  flag,       \* _launchQuickerAgentAfterStart
  call,       \* the calls of Start: whose launcher, whether they ask for QuickerAgent, how far
  unserved,   \* history: calls that asked for QuickerAgent, which was not launched since
  faults

v1Vars == <<loaded, launcherStatus, host, task, others, flag, call, unserved, faults>>

LauncherStatus == {"NotStarted", "Starting", "Started", "Stopped"}
Tasks == {"none", "queued", "exiting", "hosting", "publishing", "unwinding", "started", "launching"}

V1TypeOK ==
  /\ loaded \subseteq Versions
  /\ launcherStatus \in [Versions -> LauncherStatus]
  /\ host \in [Versions -> BOOLEAN]
  /\ task \in [Versions -> Tasks]
  /\ others \in [Versions -> SUBSET Versions]
  /\ flag \in [Versions -> BOOLEAN]
  /\ call \in [Calls -> [ver : Versions, agent : BOOLEAN, pc : {"new", "asked", "launching", "done"}]]
  /\ unserved \subseteq Calls
  /\ faults \in 0 .. MaxFaults

V1Init ==
  /\ loaded = {}
  /\ launcherStatus = [v \in Versions |-> "NotStarted"]
  /\ host = [v \in Versions |-> FALSE]
  /\ task = [v \in Versions |-> "none"]
  /\ others = [v \in Versions |-> {}]
  /\ flag = [v \in Versions |-> FALSE]
  /\ call \in [Calls -> [ver : Versions, agent : BOOLEAN, pc : {"new"}]]
  /\ unserved = {}
  /\ faults = 0

Fault == faults < MaxFaults /\ faults' = faults + 1

---------------------------------------------------------------------------
(* Start. *)

\* The options of the call are noted before the lock is taken.
StartCore(c) ==
  LET v == call[c].ver IN
  /\ call[c].pc = "new"
  /\ loaded' = loaded \cup {v}
  /\ call' = [call EXCEPT ![c].pc = "asked"]
  /\ flag' = [flag EXCEPT ![v] = @ \/ call[c].agent]
  /\ unserved' = IF call[c].agent THEN unserved \cup {c} ELSE unserved
  /\ UNCHANGED <<launcherStatus, host, task, others, faults>>

\* Under the lock: a launcher that has started looks at the flag, one that is
\* starting leaves it to its task, one that has stopped does not start again.
Starts(c) ==
  LET v == call[c].ver IN
  /\ call[c].pc = "asked"
  /\ IF launcherStatus[v] = "NotStarted"
       THEN launcherStatus' = [launcherStatus EXCEPT ![v] = "Starting"] /\ task' = [task EXCEPT ![v] = "queued"]
       ELSE UNCHANGED <<launcherStatus, task>>
  /\ call' = [call EXCEPT ![c].pc = IF launcherStatus[v] = "Started" /\ flag[v] THEN "launching" ELSE "done"]
  /\ UNCHANGED <<loaded, host, others, flag, unserved, faults>>

\* TryLaunchQuickerAgentIfRequested, from a call or from the task: the flag was
\* seen set and is cleared in a second step.
Launches(v) ==
  /\ flag' = [flag EXCEPT ![v] = FALSE]
  /\ unserved' = {c \in unserved : call[c].ver # v}

CallLaunches(c) ==
  /\ call[c].pc = "launching"
  /\ Launches(call[c].ver)
  /\ call' = [call EXCEPT ![c].pc = "done"]
  /\ UNCHANGED <<loaded, launcherStatus, host, task, others, faults>>

---------------------------------------------------------------------------
(* Exit and Stop. *)

\* What Exit makes of a launcher: one that is starting is only marked.
ExitedUnlessStarting(v) == IF launcherStatus[v] = "Started" THEN "Stopped" ELSE launcherStatus[v]
Exited(v) == IF launcherStatus[v] \in {"Starting", "Started"} THEN "Stopped" ELSE launcherStatus[v]

\* ServiceHost.StopAsync stops every service; one that throws leaves the status.  The
\* host waits five seconds for its loops: sessions it accepted before may outlive it.
Exit(v) ==
  /\ host' = IF launcherStatus[v] = "Started" THEN [host EXCEPT ![v] = FALSE] ELSE host
  /\ \/ launcherStatus' = [launcherStatus EXCEPT ![v] = Exited(v)] /\ UNCHANGED faults
     \/ launcherStatus[v] = "Started" /\ UNCHANGED launcherStatus /\ Fault

\* The user's exit action.
UserExits(v) ==
  /\ v \in loaded /\ launcherStatus[v] \in {"Starting", "Started"}
  /\ Exit(v)
  /\ UNCHANGED <<loaded, task, others, flag, call, unserved>>

\* Stop does nothing to a launcher that is starting.
Stop(v) ==
  /\ launcherStatus[v] = "Started"
  /\ Exit(v)
  /\ UNCHANGED <<loaded, task, others, flag, call, unserved>>

---------------------------------------------------------------------------
(* StartCoreAsync. *)

\* ExitOtherVersionPlugins: the assemblies that are loaded now, then each exit.
GetRunningPluginAssemblies(v) ==
  /\ task[v] = "queued"
  /\ task' = [task EXCEPT ![v] = "exiting"]
  /\ others' = [others EXCEPT ![v] = loaded \ {v}]
  /\ UNCHANGED <<loaded, launcherStatus, host, flag, call, unserved, faults>>

ExitOtherVersion(v, w) ==
  /\ task[v] = "exiting" /\ w \in others[v]
  /\ others' = [others EXCEPT ![v] = @ \ {w}]
  /\ Exit(w)
  /\ UNCHANGED <<loaded, task, flag, call, unserved>>

\* The host is started only when nobody asked to exit in the meantime.
ShouldStartHost(v) ==
  /\ task[v] = "exiting" /\ others[v] = {}
  /\ task' = [task EXCEPT ![v] = IF launcherStatus[v] = "Starting" THEN "hosting" ELSE "none"]
  /\ UNCHANGED <<loaded, launcherStatus, host, others, flag, call, unserved, faults>>

HostStarted(v) ==
  /\ task[v] = "hosting"
  /\ host' = [host EXCEPT ![v] = TRUE]
  /\ task' = [task EXCEPT ![v] = "publishing"]
  /\ UNCHANGED <<loaded, launcherStatus, others, flag, call, unserved, faults>>

\* Under the lock: an exit that came while the host was starting wins.
StatusAfterStart(v) == IF launcherStatus[v] = "Starting" THEN "Started" ELSE launcherStatus[v]

ExitForgotten(v) == "none"
ExitedWhileStarting(v) == "unwinding"

PublishStatus(v) ==
  /\ task[v] = "publishing"
  /\ launcherStatus' = [launcherStatus EXCEPT ![v] = StatusAfterStart(v)]
  /\ task' = [task EXCEPT ![v] = IF launcherStatus'[v] = "Started" THEN "started" ELSE ExitedWhileStarting(v)]
  /\ UNCHANGED <<loaded, host, others, flag, call, unserved, faults>>

\* The exit is carried out by the task that found it.
UnwindHost(v) ==
  /\ task[v] = "unwinding"
  /\ host' = [host EXCEPT ![v] = FALSE]
  /\ task' = [task EXCEPT ![v] = "none"]
  /\ UNCHANGED <<loaded, launcherStatus, others, flag, call, unserved, faults>>

ForgetsRequest(v) == FALSE
Requested(v) == flag[v]

LaunchIfRequested(v) ==
  /\ task[v] = "started"
  /\ task' = [task EXCEPT ![v] = IF Requested(v) THEN "launching" ELSE "none"]
  /\ UNCHANGED <<loaded, launcherStatus, host, others, flag, call, unserved, faults>>

TaskLaunches(v) ==
  /\ task[v] = "launching"
  /\ Launches(v)
  /\ task' = [task EXCEPT ![v] = "none"]
  /\ UNCHANGED <<loaded, launcherStatus, host, others, call, faults>>

\* The registration of the step runners or the start of the host throws: the
\* launcher may be started again, unless it was told to exit.
StartFails(v) ==
  /\ task[v] \in {"exiting", "hosting"} /\ others[v] = {} /\ Fault
  /\ launcherStatus' = [launcherStatus EXCEPT ![v] = IF @ = "Starting" THEN "NotStarted" ELSE @]
  /\ task' = [task EXCEPT ![v] = "none"]
  /\ UNCHANGED <<loaded, host, others, flag, call, unserved>>

Runs(v) ==
  \/ GetRunningPluginAssemblies(v)
  \/ \E w \in Versions : ExitOtherVersion(v, w)
  \/ ShouldStartHost(v) \/ HostStarted(v) \/ PublishStatus(v) \/ UnwindHost(v)
  \/ LaunchIfRequested(v) \/ TaskLaunches(v)

V1Next ==
  \/ \E c \in Calls : StartCore(c) \/ Starts(c) \/ CallLaunches(c)
  \/ \E v \in Versions : Runs(v) \/ StartFails(v) \/ UserExits(v) \/ Stop(v)

\* Threads go on; nobody has to call, to exit or to fail.
V1Fairness ==
  /\ \A c \in Calls : WF_v1Vars(Starts(c) \/ CallLaunches(c))
  /\ \A v \in Versions : WF_v1Vars(Runs(v))

V1Spec == V1Init /\ [][V1Next]_v1Vars /\ V1Fairness

---------------------------------------------------------------------------
(* Properties. *)

\* However many versions are started at once, two RPC hosts take clients together
\* only while one of them was told to exit and its own task, which had the host
\* half-way up, is about to take it down (ExitOtherVersionPlugins, Exit).
OneVersionServes ==
  \A v, w \in Versions :
    v # w /\ host[v] /\ host[w] =>
      \E x \in {v, w} : launcherStatus[x] = "Stopped" /\ task[x] \in {"publishing", "unwinding"}

\* No RPC host runs on without a launcher that owns up to it: it is published,
\* or a task has still to publish it or to take it down.  A launcher that was
\* told to exit ends with its host down, whatever the exit met (StartCoreAsync).
HostHasItsLauncher ==
  /\ V1TypeOK
  /\ \A v \in Versions :
       host[v] => launcherStatus[v] = "Started" \/ task[v] \in {"publishing", "unwinding"}

\* QuickerAgent is launched for everyone who asked for it, also when the request
\* came while the launcher was starting; unless the start fails or the launcher
\* is told to exit ("QuickerAgent launch queued until RPC startup completes").
LaunchIsHonoured ==
  \A c \in Calls :
    c \in unserved ~> (c \notin unserved \/ launcherStatus[call[c].ver] \in {"NotStarted", "Stopped"})

=============================================================================
