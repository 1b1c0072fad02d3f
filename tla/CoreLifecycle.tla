--------------------------- MODULE CoreLifecycle ---------------------------
(***************************************************************************)
(* Starting and stopping the two proxy cores: XrayService, SingBoxService, *)
(* CoreStateService, the two s6 process services, and the part of          *)
(* InternalService that remembers which configuration was applied.         *)
(*                                                                         *)
(* The node is one Node.js thread: a handler runs without interruption up  *)
(* to its next await, and the handlers of other requests run there.  pc[r] *)
(* is the await at which request r waits (x... in an xray start, s... in a *)
(* sing-box start, t... in a stop).  An await of an outside effect is two  *)
(* steps, the effect and the code that runs after it, wherever that code   *)
(* changes state.                                                          *)
(***************************************************************************)
CONSTANTS
    Requests,           \* slots for HTTP requests served concurrently
    XrayConfigs,        \* configurations with coreType 'xray'
    SingBoxConfigs,     \* configurations with coreType 'sing-box'
    None,               \* no configuration (null, or {} as served to xray)
    Down,               \* process status: not running
    Booting,            \* process status: up, configuration not fetched yet
    Faults,             \* the kinds of failure that may happen
    HashCheckDisabled   \* DISABLE_HASHED_SET_CHECK

\* control: s6-svc rejects; prepare: an exception before the restart;
\* integrations: an integration reports an error; unready: a core that runs
\* answers with an error; check: `sing-box check' rejects; crash: a core dies;
\* hang: a core that runs, or the sing-box program, never answers.
FaultKinds == {"control", "prepare", "integrations", "unready", "check", "crash", "hang"}

Configs == XrayConfigs \cup SingBoxConfigs

ASSUME ConfigsDisjoint == XrayConfigs \cap SingBoxConfigs = {}
ASSUME StatusesDistinct ==
    /\ None \notin Configs /\ Down \notin Configs /\ Booting \notin Configs
    /\ None # Down /\ None # Booting /\ Down # Booting
ASSUME FaultsAssumption == Faults \subseteq FaultKinds
ASSUME HashCheckAssumption == HashCheckDisabled \in BOOLEAN

VARIABLES
    pc,          \* where each request waits, "idle" between two requests
    req,         \* the configuration and forceRestart flag of a start request
    xrayOnline,  \* XrayService.isXrayOnline
    xrayBusy,    \* XrayService.isXrayStartedProccesing
    sbBusy,      \* SingBoxService.isStartProcessing
    sbConfig,    \* SingBoxService.currentConfig
    core,        \* CoreStateService: activeCore and online
    known,       \* InternalService: xrayConfig with its hashes
    sbFile,      \* the configuration file sing-box reads when it starts
    xrayProc,    \* the xray process and the configuration it runs
    sbProc       \* the sing-box process and the configuration it runs

flags == <<xrayOnline, xrayBusy, sbBusy>>
procs == <<xrayProc, sbProc>>
local == <<pc, req>>
vars == <<local, flags, sbConfig, core, known, sbFile, procs>>

XrayAwaits == {"xIntegrations", "xStats", "xHealthy", "xUnhealthy", "xState",
               "xPrepare", "xStop", "xStart", "xReady", "xNotReady", "xTail",
               "xUp", "xVersion", "xFailed"}
SingBoxAwaits == {"sStats", "sHealthy", "sAccumulate", "sWrite", "sRestart",
                  "sStartProc", "sReady", "sUp", "sVersion", "sFailed", "sTail"}
EntryAwaits == {"xSwitch", "xSwitched", "xEnter", "sKill", "sKilled", "sEnter"}
StopAwaits == {"tKill", "tSingBox", "tSbStopped", "tIntegrations"}

NoRequest == [cfg |-> None, force |-> FALSE]

TypeOK ==
    /\ pc \in [Requests -> {"idle"} \cup EntryAwaits \cup XrayAwaits
                              \cup SingBoxAwaits \cup StopAwaits]
    /\ req \in [Requests -> [cfg : Configs \cup {None}, force : BOOLEAN]]
    /\ xrayOnline \in BOOLEAN /\ xrayBusy \in BOOLEAN /\ sbBusy \in BOOLEAN
    /\ core \in [active : {"xray", "singbox"}, online : BOOLEAN]
    /\ known \in Configs \cup {None}
    /\ sbConfig \in SingBoxConfigs \cup {None}
    /\ sbFile \in SingBoxConfigs \cup {None}
    /\ xrayProc \in Configs \cup {None, Down, Booting}
    /\ sbProc \in SingBoxConfigs \cup {Down}

Init ==
    /\ pc = [r \in Requests |-> "idle"]
    /\ req = [r \in Requests |-> NoRequest]
    /\ xrayOnline = FALSE /\ xrayBusy = FALSE /\ sbBusy = FALSE
    /\ core = [active |-> "xray", online |-> FALSE]
    /\ known = None /\ sbConfig = None /\ sbFile = None
    /\ xrayProc = Down /\ sbProc = Down

-----------------------------------------------------------------------------
(* What the steps share. *)

SingBoxActive == core.active = "singbox" /\ core.online

\* CoreStateService.setOffline(c): ignored unless c is the active core.
SetOffline(c) ==
    core' = IF core.active = c THEN [core EXCEPT !.online = FALSE] ELSE core

XrayServes == xrayProc \in XrayConfigs     \* its gRPC API answers
SingBoxServes == sbProc \in SingBoxConfigs

\* Request r waits at `from' and goes on to `to'.
Goto(r, from, to) ==
    /\ pc[r] = from
    /\ pc' = [pc EXCEPT ![r] = to]
    /\ UNCHANGED req

\* Request r waits at `from' and is answered.
Reply(r, from) ==
    /\ pc[r] = from
    /\ pc' = [pc EXCEPT ![r] = "idle"]
    /\ req' = [req EXCEPT ![r] = NoRequest]

\* The answer that leaves a guarded section: its `finally' clears the flag.
LeaveXray(r, from) ==
    /\ Reply(r, from)
    /\ xrayBusy' = FALSE
    /\ UNCHANGED sbBusy
LeaveSingBox(r, from) ==
    /\ Reply(r, from)
    /\ sbBusy' = FALSE
    /\ UNCHANGED xrayBusy

\* The hash comparison is made only of a core believed online.
MayCompare(online, r) == online /\ ~HashCheckDisabled /\ ~req[r].force

\* The handler of request slot r begins; it runs up to the await `to'.
Receive(r, c, f, to) ==
    /\ pc[r] = "idle"
    /\ pc' = [pc EXCEPT ![r] = to]
    /\ req' = [req EXCEPT ![r] = [cfg |-> c, force |-> f]]
    /\ UNCHANGED <<flags, sbConfig, core, known, sbFile, procs>>

-----------------------------------------------------------------------------
(* XrayService.startXray, coreType 'xray'. *)

ReceiveXrayStart(r) ==
    \E c \in XrayConfigs, f \in BOOLEAN :
        Receive(r, c, f, IF SingBoxActive THEN "xSwitch" ELSE "xEnter")

\* singBoxService.stop(): the sing-box process is gone ...
StopSingBoxForXray(r) ==
    /\ Goto(r, "xSwitch", "xSwitched")
    /\ sbProc' = Down
    /\ UNCHANGED <<flags, sbConfig, core, known, sbFile, xrayProc>>

\* ... and its caller clears InternalService too.
SwitchToXray(r) ==
    /\ Goto(r, "xSwitched", "xEnter")
    /\ SetOffline("singbox")
    /\ sbConfig' = None
    /\ known' = None
    /\ UNCHANGED <<flags, sbFile, procs>>

\* stop() swallows the rejection of s6-svc: only InternalService is cleared.
StopSingBoxForXrayFails(r) ==
    /\ "control" \in Faults
    /\ Goto(r, "xSwitch", "xEnter")
    /\ known' = None
    /\ UNCHANGED <<flags, sbConfig, core, sbFile, procs>>

RefuseXrayStart(r) ==
    /\ xrayBusy
    /\ Reply(r, "xEnter")
    /\ UNCHANGED <<flags, sbConfig, core, known, sbFile, procs>>

\* (mutant) the guard is not looked at
EnterXrayStartUnguarded(r) ==
    /\ Goto(r, "xEnter", "xIntegrations")
    /\ xrayBusy' = TRUE
    /\ UNCHANGED <<xrayOnline, sbBusy, sbConfig, core, known, sbFile, procs>>

EnterXrayStart(r) ==
    /\ ~xrayBusy
    /\ Goto(r, "xEnter", "xIntegrations")
    /\ xrayBusy' = TRUE
    /\ UNCHANGED <<xrayOnline, sbBusy, sbConfig, core, known, sbFile, procs>>

\* (mutant) an early return outside try/finally
IntegrationsFailKeepsFlag(r) ==
    /\ "integrations" \in Faults
    /\ Reply(r, "xIntegrations")
    /\ UNCHANGED <<flags, sbConfig, core, known, sbFile, procs>>

IntegrationsFail(r) ==
    /\ "integrations" \in Faults
    /\ LeaveXray(r, "xIntegrations")
    /\ UNCHANGED <<xrayOnline, sbConfig, core, known, sbFile, procs>>

IntegrationsSynced(r) ==
    /\ Goto(r, "xIntegrations", IF MayCompare(xrayOnline, r) THEN "xStats" ELSE "xState")
    /\ UNCHANGED <<flags, sbConfig, core, known, sbFile, procs>>

\* xtlsSdk.stats.getSysStats()
QueryXray(r) ==
    /\ \/ XrayServes /\ Goto(r, "xStats", "xHealthy")
       \/ ~XrayServes /\ Goto(r, "xStats", "xUnhealthy")
       \/ "unready" \in Faults /\ Goto(r, "xStats", "xUnhealthy")
    /\ UNCHANGED <<flags, sbConfig, core, known, sbFile, procs>>

\* (mutant) only the presence of remembered hashes is looked at
XrayUpToDateUncompared(r) ==
    /\ known # None
    /\ LeaveXray(r, "xHealthy")
    /\ UNCHANGED <<xrayOnline, sbConfig, core, known, sbFile, procs>>

\* isNeedRestartCore says no.
XrayUpToDate(r) ==
    /\ known = req[r].cfg
    /\ LeaveXray(r, "xHealthy")
    /\ UNCHANGED <<xrayOnline, sbConfig, core, known, sbFile, procs>>

XrayOutdated(r) ==
    /\ known # req[r].cfg
    /\ Goto(r, "xHealthy", "xState")
    /\ UNCHANGED <<flags, sbConfig, core, known, sbFile, procs>>

XrayUnhealthy(r) ==
    /\ Goto(r, "xUnhealthy", "xState")
    /\ xrayOnline' = FALSE
    /\ UNCHANGED <<xrayBusy, sbBusy, sbConfig, core, known, sbFile, procs>>

\* generateApiConfig and extractUsersFromConfig.
ExtractXrayUsers(r) ==
    /\ Goto(r, "xState", "xPrepare")
    /\ known' = req[r].cfg
    /\ UNCHANGED <<flags, sbConfig, core, sbFile, procs>>

\* coreLoaderService.prepare and geodataService.prepare.
PrepareXray(r) ==
    /\ Goto(r, "xPrepare", "xStop")
    /\ UNCHANGED <<flags, sbConfig, core, known, sbFile, procs>>

PrepareXrayThrows(r) ==
    /\ "prepare" \in Faults
    /\ Goto(r, "xState", "xFailed") \/ Goto(r, "xPrepare", "xFailed")
    /\ UNCHANGED <<flags, sbConfig, core, known, sbFile, procs>>

XrayStartThrew(r) ==
    /\ LeaveXray(r, "xFailed")
    /\ SetOffline("xray")
    /\ UNCHANGED <<xrayOnline, sbConfig, known, sbFile, procs>>

\* restartXrayProcess: stop, RunPreStartCommand, start.
StopOldXray(r) ==
    /\ Goto(r, "xStop", "xStart")
    /\ xrayProc' = Down
    /\ UNCHANGED <<flags, sbConfig, core, known, sbFile, sbProc>>

StartNewXray(r) ==
    /\ Goto(r, "xStart", "xReady")
    /\ xrayProc' = IF xrayProc = Down THEN Booting ELSE xrayProc
    /\ UNCHANGED <<flags, sbConfig, core, known, sbFile, sbProc>>

RestartXrayFails(r) ==
    /\ "control" \in Faults
    /\ LeaveXray(r, "xStop") \/ LeaveXray(r, "xStart")
    /\ UNCHANGED <<xrayOnline, sbConfig, core, known, sbFile, procs>>

\* (mutant) no AbortError for a process that is gone, no limit on retries
AwaitXrayForever(r) ==
    /\ XrayServes /\ Goto(r, "xReady", "xUp")
    /\ UNCHANGED <<flags, sbConfig, core, known, sbFile, procs>>

\* getXrayInternalStatus: retries until the API answers, the process is gone
\* or replaced, or the retries are used up.
AwaitXray(r) ==
    /\ \/ XrayServes /\ Goto(r, "xReady", "xUp")
       \/ ~XrayServes /\ xrayProc # Booting /\ Goto(r, "xReady", "xNotReady")
       \/ "unready" \in Faults /\ Goto(r, "xReady", "xNotReady")
    /\ UNCHANGED <<flags, sbConfig, core, known, sbFile, procs>>

\* (mutant) isXrayOnline keeps its value
XrayNotReadyStaysOnline(r) ==
    /\ Goto(r, "xNotReady", "xTail")
    /\ UNCHANGED <<flags, sbConfig, core, known, sbFile, procs>>

XrayNotReady(r) ==
    /\ Goto(r, "xNotReady", "xTail")
    /\ xrayOnline' = FALSE
    /\ UNCHANGED <<xrayBusy, sbBusy, sbConfig, core, known, sbFile, procs>>

\* The tail of xray's log is read for the answer.
ReportXrayNotReady(r) ==
    /\ LeaveXray(r, "xTail")
    /\ UNCHANGED <<xrayOnline, sbConfig, core, known, sbFile, procs>>

MarkXrayOnline(r) ==
    /\ Goto(r, "xUp", "xVersion")
    /\ xrayOnline' = TRUE
    /\ core' = [active |-> "xray", online |-> TRUE]
    /\ UNCHANGED <<xrayBusy, sbBusy, sbConfig, known, sbFile, procs>>

\* refreshXrayVersion and RunPostStartCommand.
ReportXrayStarted(r) ==
    /\ LeaveXray(r, "xVersion")
    /\ UNCHANGED <<xrayOnline, sbConfig, core, known, sbFile, procs>>

-----------------------------------------------------------------------------
(* XrayService.startXray, coreType 'sing-box', and SingBoxService.start. *)

\* (mutant) xray is left running
ReceiveSingBoxStartNoKill(r) ==
    \E c \in SingBoxConfigs, f \in BOOLEAN : Receive(r, c, f, "sEnter")

ReceiveSingBoxStart(r) ==
    \E c \in SingBoxConfigs, f \in BOOLEAN :
        Receive(r, c, f, IF xrayOnline THEN "sKill" ELSE "sEnter")

\* killAllXrayProcesses: a rejection of s6-svc is only logged.
KillXrayForSingBox(r) ==
    /\ Goto(r, "sKill", "sKilled")
    /\ \/ xrayProc' = Down
       \/ "control" \in Faults /\ UNCHANGED xrayProc
    /\ UNCHANGED <<flags, sbConfig, core, known, sbFile, sbProc>>

SwitchToSingBox(r) ==
    /\ Goto(r, "sKilled", "sEnter")
    /\ xrayOnline' = FALSE
    /\ UNCHANGED <<xrayBusy, sbBusy, sbConfig, core, known, sbFile, procs>>

RefuseSingBoxStart(r) ==
    /\ sbBusy
    /\ Reply(r, "sEnter")
    /\ UNCHANGED <<flags, sbConfig, core, known, sbFile, procs>>

\* extractUsersFromConfig, and the traffic of a running core is collected next.
ExtractSingBoxUsers(r, from) ==
    /\ Goto(r, from, IF SingBoxActive THEN "sAccumulate" ELSE "sWrite")
    /\ known' = req[r].cfg

\* (mutant) the guard is not looked at
EnterSingBoxStartUnguarded(r) ==
    /\ sbBusy' = TRUE
    /\ ExtractSingBoxUsers(r, "sEnter")
    /\ UNCHANGED <<xrayOnline, xrayBusy, sbConfig, core, sbFile, procs>>

EnterSingBoxStart(r) ==
    /\ ~sbBusy
    /\ sbBusy' = TRUE
    /\ IF MayCompare(SingBoxActive, r)
         THEN Goto(r, "sEnter", "sStats") /\ UNCHANGED known
         ELSE ExtractSingBoxUsers(r, "sEnter")
    /\ UNCHANGED <<xrayOnline, xrayBusy, sbConfig, core, sbFile, procs>>

\* statsService.getSysStats() and accumulateAndReset(): a call to the gRPC API
\* of sing-box that throws when it is not answered.
CallSingBox(r, from, to) ==
    \/ SingBoxServes /\ Goto(r, from, to)
    \/ ~SingBoxServes /\ Goto(r, from, "sFailed")
    \/ "unready" \in Faults /\ Goto(r, from, "sFailed")

QuerySingBox(r) ==
    /\ CallSingBox(r, "sStats", "sHealthy")
    /\ UNCHANGED <<flags, sbConfig, core, known, sbFile, procs>>

SingBoxUpToDate(r) ==
    /\ known = req[r].cfg
    /\ LeaveSingBox(r, "sHealthy")
    /\ UNCHANGED <<xrayOnline, sbConfig, core, known, sbFile, procs>>

SingBoxOutdated(r) ==
    /\ known # req[r].cfg
    /\ ExtractSingBoxUsers(r, "sHealthy")
    /\ UNCHANGED <<flags, sbConfig, core, sbFile, procs>>

AccumulateStats(r) ==
    /\ CallSingBox(r, "sAccumulate", "sWrite")
    /\ UNCHANGED <<flags, sbConfig, core, known, sbFile, procs>>

\* (mutant) what InternalService remembers is written
WriteConfigShared(r) ==
    /\ Goto(r, "sWrite", "sRestart")
    /\ sbFile' = known
    /\ UNCHANGED <<flags, sbConfig, core, known, procs>>

\* writeAndValidateConfig: the file is replaced only after `sing-box check'.
WriteConfig(r) ==
    /\ Goto(r, "sWrite", "sRestart")
    /\ sbFile' = req[r].cfg
    /\ UNCHANGED <<flags, sbConfig, core, known, procs>>

\* processService.restart(): stop, then start from the file.
StopOldSingBox(r) ==
    /\ Goto(r, "sRestart", "sStartProc")
    /\ sbProc' = Down
    /\ UNCHANGED <<flags, sbConfig, core, known, sbFile, xrayProc>>

StartNewSingBox(r) ==
    /\ Goto(r, "sStartProc", "sReady")
    /\ sbProc' = IF sbProc = Down THEN sbFile ELSE sbProc
    /\ UNCHANGED <<flags, sbConfig, core, known, sbFile, xrayProc>>

\* The configuration is rejected, or s6-svc rejects.
RestartSingBoxThrows(r) ==
    /\ \/ "check" \in Faults /\ Goto(r, "sWrite", "sFailed")
       \/ "control" \in Faults /\ Goto(r, "sRestart", "sFailed")
       \/ "control" \in Faults /\ Goto(r, "sStartProc", "sFailed")
    /\ UNCHANGED <<flags, sbConfig, core, known, sbFile, procs>>

\* waitUntilReady
AwaitSingBox(r) ==
    /\ CallSingBox(r, "sReady", "sUp")
    /\ UNCHANGED <<flags, sbConfig, core, known, sbFile, procs>>

SetCurrentConfig(r) ==
    /\ Goto(r, "sUp", "sVersion")
    /\ sbConfig' = req[r].cfg
    /\ UNCHANGED <<flags, core, known, sbFile, procs>>

\* The version is resolved: setActiveCore, and the answer.
ReportSingBoxStarted(r) ==
    /\ LeaveSingBox(r, "sVersion")
    /\ core' = [active |-> "singbox", online |-> TRUE]
    /\ UNCHANGED <<xrayOnline, sbConfig, known, sbFile, procs>>

\* (mutant) the exception handler leaves the core online
SingBoxStartThrewStaysOnline(r) ==
    /\ Goto(r, "sFailed", "sTail")
    /\ UNCHANGED <<flags, sbConfig, core, known, sbFile, procs>>

SingBoxStartThrew(r) ==
    /\ Goto(r, "sFailed", "sTail")
    /\ SetOffline("singbox")
    /\ UNCHANGED <<flags, sbConfig, known, sbFile, procs>>

\* The tail of sing-box's log is dumped.
ReportSingBoxNotStarted(r) ==
    /\ LeaveSingBox(r, "sTail")
    /\ UNCHANGED <<xrayOnline, sbConfig, core, known, sbFile, procs>>

-----------------------------------------------------------------------------
(* XrayService.stopXray: from the panel, or from PluginService (which asks *)
(* for it only withOnlineCheck).                                           *)

ReceiveStop(r) == Receive(r, None, FALSE, "tKill")

ReceivePluginStop(r) ==
    \/ xrayOnline /\ Receive(r, None, FALSE, "tKill")
    \/ /\ ~xrayOnline
       /\ Reply(r, "idle")
       /\ UNCHANGED <<flags, sbConfig, core, known, sbFile, procs>>

KillXray(r) ==
    /\ Goto(r, "tKill", "tSingBox")
    /\ \/ xrayProc' = Down
       \/ "control" \in Faults /\ UNCHANGED xrayProc
    /\ UNCHANGED <<flags, sbConfig, core, known, sbFile, sbProc>>

StopSingBox(r) ==
    /\ Goto(r, "tSingBox", "tSbStopped")
    /\ sbProc' = Down
    /\ UNCHANGED <<flags, sbConfig, core, known, sbFile, xrayProc>>

SingBoxStopped(r) ==
    /\ Goto(r, "tSbStopped", "tIntegrations")
    /\ SetOffline("singbox")
    /\ sbConfig' = None
    /\ UNCHANGED <<flags, known, sbFile, procs>>

StopSingBoxFails(r) ==
    /\ "control" \in Faults
    /\ Goto(r, "tSingBox", "tIntegrations")
    /\ UNCHANGED <<flags, sbConfig, core, known, sbFile, procs>>

\* integrations.stop() is over.
ReportStopped(r) ==
    /\ Reply(r, "tIntegrations")
    /\ xrayOnline' = FALSE
    /\ core' = [core EXCEPT !.online = FALSE]
    /\ known' = None
    /\ UNCHANGED <<xrayBusy, sbBusy, sbConfig, sbFile, procs>>

-----------------------------------------------------------------------------
(* The processes.  s6-svc -o: a core that dies is not started again. *)

\* A booting xray fetches /internal/get-config.  It serves a configuration of
\* its own kind; of sing-box's it may make nothing and exit.
FetchConfig ==
    /\ xrayProc = Booting
    /\ xrayProc' \in {known} \cup (IF known \in SingBoxConfigs THEN {Down} ELSE {})
    /\ UNCHANGED <<local, flags, sbConfig, core, known, sbFile, sbProc>>

CrashXray ==
    /\ "crash" \in Faults /\ xrayProc # Down
    /\ xrayProc' = Down
    /\ UNCHANGED <<local, flags, sbConfig, core, known, sbFile, sbProc>>

CrashSingBox ==
    /\ "crash" \in Faults /\ sbProc # Down
    /\ sbProc' = Down
    /\ UNCHANGED <<local, flags, sbConfig, core, known, sbFile, xrayProc>>

-----------------------------------------------------------------------------
EnterStep(r) ==
    \/ ReceiveXrayStart(r) \/ ReceiveSingBoxStart(r)
    \/ ReceiveStop(r) \/ ReceivePluginStop(r)

XrayStartStep(r) ==
    \/ StopSingBoxForXray(r) \/ SwitchToXray(r) \/ StopSingBoxForXrayFails(r)
    \/ RefuseXrayStart(r) \/ EnterXrayStart(r)
    \/ IntegrationsFail(r) \/ IntegrationsSynced(r)
    \/ QueryXray(r) \/ XrayUpToDate(r) \/ XrayOutdated(r) \/ XrayUnhealthy(r)
    \/ ExtractXrayUsers(r) \/ PrepareXray(r) \/ PrepareXrayThrows(r)
    \/ XrayStartThrew(r) \/ StopOldXray(r) \/ StartNewXray(r)
    \/ RestartXrayFails(r) \/ AwaitXray(r) \/ XrayNotReady(r)
    \/ ReportXrayNotReady(r) \/ MarkXrayOnline(r) \/ ReportXrayStarted(r)

SingBoxStartStep(r) ==
    \/ KillXrayForSingBox(r) \/ SwitchToSingBox(r)
    \/ RefuseSingBoxStart(r) \/ EnterSingBoxStart(r)
    \/ QuerySingBox(r) \/ SingBoxUpToDate(r) \/ SingBoxOutdated(r)
    \/ AccumulateStats(r) \/ WriteConfig(r) \/ StopOldSingBox(r)
    \/ StartNewSingBox(r) \/ RestartSingBoxThrows(r) \/ AwaitSingBox(r)
    \/ SetCurrentConfig(r) \/ ReportSingBoxStarted(r) \/ SingBoxStartThrew(r)
    \/ ReportSingBoxNotStarted(r)

StopStep(r) ==
    \/ KillXray(r) \/ StopSingBox(r) \/ SingBoxStopped(r)
    \/ StopSingBoxFails(r) \/ ReportStopped(r)

ServeStep(r) == XrayStartStep(r) \/ SingBoxStartStep(r) \/ StopStep(r)

ProcessStep == FetchConfig \/ CrashXray \/ CrashSingBox

Next ==
    \/ \E r \in Requests : EnterStep(r) \/ ServeStep(r)
    \/ ProcessStep

\* The awaits that nothing bounds: the gRPC clients of both cores set no
\* deadline, and `sing-box check' and `sing-box version' run without a timeout.
\* A call ends when its core answers or dies, and not before.
Hangs(r) ==
    /\ "hang" \in Faults
    /\ \/ pc[r] \in {"xStats", "xReady"} /\ XrayServes
       \/ /\ pc[r] \in {"sStats", "sAccumulate", "sReady", "xSwitch", "tSingBox"}
          /\ SingBoxServes
       \/ pc[r] \in {"sWrite", "sVersion"}

\* Every other await ends: s6-svc runs with -T, pRetry gives up, downloads, xray
\* version and webhooks have timeouts.  A core may serve and be gone again many
\* times while a call is pending, hence SF.  Nobody has to send a request, and
\* no process has to crash.
Fairness ==
    /\ \A r \in Requests : SF_vars(ServeStep(r) /\ ~Hangs(r))
    /\ WF_vars(FetchConfig)

Spec == Init /\ [][Next]_vars /\ Fairness

-----------------------------------------------------------------------------
(* Properties. *)

InXrayStart == {r \in Requests : pc[r] \in XrayAwaits}
InSingBoxStart == {r \in Requests : pc[r] \in SingBoxAwaits}

\* The busy flags say exactly whether somebody is inside the guarded part of
\* startXray or SingBoxService.start: no early return or exception leaves one
\* set, and no request clears the flag of another that is still inside.
BusyFlagsExact ==
    /\ xrayBusy <=> InXrayStart # {}
    /\ sbBusy <=> InSingBoxStart # {}

\* Both guarded parts are single-flight sections: a request enters only an
\* empty one, and only the one inside leaves, by itself
\* (xray.service.ts:131-147, singbox.service.ts:78-92).
XraySection == INSTANCE SingleFlight WITH inside <- InXrayStart
SingBoxSection == INSTANCE SingleFlight WITH inside <- InSingBoxStart
XrayStartsSingleFlight == XraySection!Safety
SingBoxStartsSingleFlight == SingBoxSection!Safety

\* A start answered without a restart ("up-to-date - no restart required")
\* found the core running the very configuration of the request, or dead
\* since it was asked; never another configuration.
Current(c) ==
    IF c \in XrayConfigs THEN xrayProc \in {Down, c} ELSE sbProc \in {Down, c}
SkipsRestart(r) == pc[r] \in {"xHealthy", "sHealthy"} /\ pc'[r] = "idle"
XrayUpToDateIsTrue ==
    [][\A r \in Requests :
        SkipsRestart(r) /\ req[r].cfg \in XrayConfigs => Current(req[r].cfg)]_vars
SingBoxUpToDateIsTrue ==
    [][\A r \in Requests :
        SkipsRestart(r) /\ req[r].cfg \in SingBoxConfigs => Current(req[r].cfg)]_vars

\* Why the answers above are right.  An applied xray configuration (known) is
\* the one its process runs whenever xray is believed online and nobody is
\* replacing it, and whenever a start is about to trust the comparison.
ReplacesXray == {"xPrepare", "xStop", "xStart", "xReady", "xNotReady", "xUp"}
XrayTracked ==
    known \in XrayConfigs =>
        /\ xrayOnline /\ (\A r \in Requests : pc[r] \notin ReplacesXray)
             => xrayProc \in {Down, known}
        /\ \A r \in Requests :
             /\ pc[r] \in {"xStats", "xHealthy", "xUp"} => xrayProc \in {Down, known}
             /\ pc[r] \in {"xReady", "xNotReady"} => xrayProc \in {Down, Booting, known}

\* The same of sing-box, which is believed online by CoreStateService.
ReplacesSingBox == {"sAccumulate", "sWrite", "sRestart", "sStartProc", "sReady",
                    "sUp", "sVersion", "sFailed"}
SingBoxTracked ==
    known \in SingBoxConfigs =>
        /\ SingBoxActive /\ (\A r \in Requests : pc[r] \notin ReplacesSingBox)
             => sbProc \in {Down, known}
        /\ \A r \in Requests :
             /\ pc[r] \in {"sStats", "sHealthy", "sReady", "sUp", "sVersion"}
                  => sbProc \in {Down, known}
             /\ pc[r] \in {"sAccumulate", "sWrite", "sRestart", "sStartProc"}
                  => known = req[r].cfg

\* Every request is answered, whatever fails and whoever else is served, unless
\* from some time on it waits for a core or a program that runs and is silent:
\* no exception, crash, refusal or concurrent stop leaves a request waiting, or
\* a busy flag set, for any other reason.
RequestsAnswered == \A r \in Requests : []<>(pc[r] = "idle") \/ <>[]Hangs(r)

\* What the health check reports between requests is what runs: the active
\* core and no other when online, nothing when not.
Quiet == \A r \in Requests : pc[r] = "idle"
HealthReportExact ==
    Quiet =>
        /\ core.online /\ core.active = "xray" => XrayServes /\ sbProc = Down
        /\ core.online /\ core.active = "singbox" => SingBoxServes /\ xrayProc = Down
        /\ ~core.online => xrayProc = Down /\ sbProc = Down
=============================================================================
