-------------------------- MODULE StartPreparation --------------------------
(***************************************************************************)
(* What startXray does to the disk before xray runs again: integrations,   *)
(* the core, the assets, and, between the end of the old process and the   *)
(* start of the new one, the sockets the old one left behind.  One start   *)
(* at a time is in here (SingleFlight).  The node, and with it the         *)
(* container, may die at any step; what is on disk stays.                  *)
(***************************************************************************)
EXTENDS CoreLoader, Geodata

CONSTANTS
    Integrations,     \* how many integrations are enabled
    Sockets,          \* the paths at which there may be sockets
    Panels,           \* what a panel may send
    MaxMatches        \* MAX_MATCHES_PER_PATTERN

\* A panel's configurations (their sections core and assets), its settings of
\* the pre-start hook, and the sockets its configurations make xray listen at.
Sections == [core : Cores \cup {Stock}, assets : SUBSET AssetSlots]
Patterns == [glob : BOOLEAN, paths : SUBSET Sockets]
PanelKinds ==
    [starts : SUBSET Sections, cleanups : SUBSET SUBSET Patterns, listens : SUBSET Sockets]

ASSUME IntegrationsAssumption == Integrations \in Nat
ASSUME SeparateAssumption == CoreSlot \notin AssetSlots
ASSUME PanelsAssumption == Panels \subseteq PanelKinds

VARIABLES
    panel,     \* the panel of this node
    phase,     \* where startXray is
    request,   \* its sections
    synced,    \* the integrations it has called
    erred,     \* one of them answered an error, or threw
    xray,      \* whether the process runs
    sock,      \* what is at each path of Sockets
    cleanup    \* the pre-start hook: patterns, paths yet to look at, exact

preparation == <<phase, request, synced, erred>>
outside == <<panel, xray, sock, cleanup>>
vars == <<disk, dl, core, loader, geodata, preparation, outside>>

Paths == Targets \cup {Temporary(p) : p \in Targets} \cup {CUSTOM}
Phases == {"idle", "integrations", "core", "assets", "stop", "sockets"}
NoCleanup == [patterns |-> {}, todo |-> {}, seen |-> {}, exact |-> TRUE]

TypeOK ==
    /\ DownloadTypeOK(Paths) /\ CoreTypeOK /\ GeodataTypeOK
    /\ panel \in Panels /\ phase \in Phases
    /\ request \in Sections
    /\ synced \in 0..Integrations /\ erred \in BOOLEAN
    /\ xray \in BOOLEAN
    /\ sock \in [Sockets -> {"nothing", "socket", "file"}]
    /\ cleanup \in [patterns : SUBSET Patterns, todo : SUBSET Sockets,
                   seen : SUBSET Sockets, exact : BOOLEAN]

Init ==
    /\ disk = [p \in Paths |-> NoFile]
    /\ dl = [d \in Slots |-> NoDownload]
    /\ CoreInit /\ GeodataInit
    /\ panel \in Panels /\ phase = "idle" /\ request = [core |-> Stock, assets |-> {}]
    /\ synced = 0 /\ erred = FALSE
    /\ xray = FALSE /\ sock \in [Sockets -> {"nothing", "file"}]
    /\ \A path \in Sockets \ panel.listens : sock[path] = "nothing"
    /\ cleanup = NoCleanup

To(p) == phase' = p

-----------------------------------------------------------------------------
(* IntegrationsService.sync *)

Receive(s) ==
    /\ phase = "idle" /\ To("integrations")
    /\ request' = s /\ synced' = 0 /\ erred' = FALSE
    /\ UNCHANGED <<disk, dl, core, loader, geodata, outside>>

\* Each is called, also after one has failed.
SyncIntegration ==
    /\ phase = "integrations" /\ synced < Integrations
    /\ synced' = synced + 1
    /\ \/ UNCHANGED erred
       \/ erred' = TRUE
    /\ UNCHANGED <<phase, request, disk, dl, core, loader, geodata, outside>>

\* An error, or no metadata for them; or else xray is up to date.
LeaveEarly ==
    /\ phase = "integrations" /\ To("idle")
    /\ \/ synced = Integrations /\ (erred \/ xray)
       \/ synced = 0 /\ Integrations > 0
    /\ UNCHANGED <<request, synced, erred, disk, dl, core, loader, geodata, outside>>

\* (mutant) only the answer of the last one counts
PrepareCoreAfterLast ==
    /\ phase = "integrations" /\ synced = Integrations /\ To("core")
    /\ loader' = Prepare(request.core, "decide")
    /\ UNCHANGED <<request, synced, erred, disk, dl, core, geodata, outside>>

\* A section that is not valid is skipped.
PrepareCore ==
    /\ phase = "integrations" /\ synced = Integrations /\ ~erred /\ To("core")
    /\ loader' \in {Prepare(request.core, "decide"),
                    [Prepare(request.core, "done") EXCEPT !.failed = TRUE]}
    /\ UNCHANGED <<request, synced, erred, disk, dl, core, geodata, outside>>

LoadCore == phase = "core" /\ CoreStep /\ UNCHANGED <<geodata, preparation, outside>>

\* startXray catches what pointLinkAt throws; xray goes on as it was.
CoreThrew ==
    /\ phase = "core" /\ Loading("threw") /\ To("idle")
    /\ UNCHANGED <<request, synced, erred, disk, dl, core, loader, geodata, outside>>

PrepareAssets ==
    /\ phase = "core" /\ Loading("done") /\ To("assets")
    /\ \/ QueueAssets(request.assets) /\ UNCHANGED request
       \/ QueueAssets({}) /\ request' = [request EXCEPT !.assets = {}]
    /\ UNCHANGED <<synced, erred, disk, dl, core, loader, outside>>

LoadAssets ==
    /\ phase = "assets"
    /\ \E a \in AssetSlots : AssetStep(a)
    /\ UNCHANGED <<core, loader, preparation, outside>>

AssetsPrepared ==
    /\ phase = "assets" /\ AssetsProcessed /\ To("stop")
    /\ UNCHANGED <<request, synced, erred, disk, dl, core, loader, geodata, outside>>

-----------------------------------------------------------------------------
(* restartXrayProcess, with the pre-start hook. *)

StopXray(patterns) ==
    /\ phase = "stop" /\ To("sockets")
    /\ xray' = FALSE
    /\ cleanup' = [NoCleanup EXCEPT !.patterns = patterns]
    /\ UNCHANGED <<request, synced, erred, disk, dl, core, loader, geodata, panel, sock>>

\* resolvePattern: the matches of a glob are what there is, up to a limit or an
\* error; what is not a glob is one path.
ResolvePattern(p) ==
    /\ phase = "sockets" /\ cleanup.todo = {} /\ p \in cleanup.patterns
    /\ LET there == {path \in p.paths : sock[path] # "nothing"} IN
       \E matches \in IF p.glob THEN SUBSET there ELSE {p.paths} :
          /\ p.glob => Cardinality(matches) <= MaxMatches
          /\ cleanup' = [patterns |-> cleanup.patterns \ {p}, todo |-> matches,
                         seen |-> cleanup.seen \cup matches,
                         exact |-> cleanup.exact /\ there \subseteq matches]
    /\ UNCHANGED <<disk, dl, core, loader, geodata, preparation, panel, xray, sock>>

\* lstat and unlink; an error is not answered.
RemoveSocket(path) ==
    /\ phase = "sockets" /\ path \in cleanup.todo
    /\ \/ /\ sock' = [sock EXCEPT ![path] = IF @ = "socket" THEN "nothing" ELSE @]
          /\ cleanup' = [cleanup EXCEPT !.todo = @ \ {path}]
       \/ /\ cleanup' = [cleanup EXCEPT !.todo = @ \ {path}, !.exact = FALSE]
          /\ UNCHANGED sock
    /\ UNCHANGED <<disk, dl, core, loader, geodata, preparation, panel, xray>>

StartXray ==
    /\ phase = "sockets" /\ cleanup.patterns = {} /\ cleanup.todo = {} /\ To("idle")
    /\ xray' = TRUE
    /\ UNCHANGED <<request, synced, erred, disk, dl, core, loader, geodata, panel, sock, cleanup>>

\* s6-svc rejects, or exceeds its time.
ControlFails ==
    /\ \/ phase = "stop"
       \/ phase = "sockets" /\ cleanup.patterns = {} /\ cleanup.todo = {}
    /\ To("idle")
    /\ UNCHANGED <<request, synced, erred, disk, dl, core, loader, geodata, outside>>

-----------------------------------------------------------------------------
(* The process, and the end of everything. *)

\* stopXray, or the process itself.
StopOrExit ==
    /\ xray /\ xray' = FALSE
    /\ UNCHANGED <<disk, dl, core, loader, geodata, preparation, panel, sock, cleanup>>

BindSocket(path) ==
    /\ xray /\ path \in panel.listens /\ sock[path] = "nothing"
    /\ sock' = [sock EXCEPT ![path] = "socket"]
    /\ UNCHANGED <<disk, dl, core, loader, geodata, preparation, panel, xray, cleanup>>

Crash ==
    /\ dl' = [d \in Slots |-> NoDownload]
    /\ loader' = NotPreparing /\ QueueAssets({})
    /\ phase' = "idle" /\ request' = [core |-> Stock, assets |-> {}]
    /\ synced' = 0 /\ erred' = FALSE
    /\ xray' = FALSE /\ cleanup' = NoCleanup
    /\ UNCHANGED <<disk, core, panel, sock>>

StartStep ==
    \/ SyncIntegration \/ LeaveEarly \/ PrepareCore \/ LoadCore \/ CoreThrew
    \/ PrepareAssets \/ LoadAssets \/ AssetsPrepared
    \/ \E c \in panel.cleanups : StopXray(c)
    \/ \E p \in cleanup.patterns : ResolvePattern(p)
    \/ \E path \in Sockets : RemoveSocket(path)
    \/ StartXray \/ ControlFails

Next ==
    \/ \E s \in panel.starts : Receive(s)
    \/ StartStep
    \/ \E path \in Sockets : BindSocket(path)
    \/ StopOrExit
    \/ Crash

\* Every await of a start ends: downloads have a total time, s6-svc -T, the
\* event loop serves what is ready.
Spec == Init /\ [][Next]_vars /\ WF_vars(StartStep)

-----------------------------------------------------------------------------

\* What rw-core leads to is, at every step and across crashes, the one core of
\* InstalledCore: it changes at once, and only to the core a start asks for.
AskedCore ==
    IF loader.at \in {"idle", "done", "threw"} THEN NoFile
    ELSE IF loader.core = Stock THEN Stock ELSE Whole(loader.core)

Installation == INSTANCE InstalledCore
    WITH Choices <- {Stock} \cup {Whole(c) : c \in Cores}, Nothing <- NoFile, First <- Stock,
         runs <- Runs, asked <- AskedCore

CoreReplacedAtOnce == Installation!Spec

\* The old process left no socket behind that the settings name.
SocketsClean == \A path \in cleanup.seen : sock[path] # "socket"

\* A start brings xray up only if every integration agreed, with the core asked
\* for, unless it could not be had, with a file for each of its assets, unless
\* another is downloaded through it, and without stale sockets, unless one
\* could not be looked at or removed.
StartsPrepared ==
    [][~xray /\ xray' =>
         /\ ~erred
         /\ loader.failed \/ Installed(request.core)
         /\ stubFailed \/ \A a \in request.assets : OwnFile(a) => disk[PathOf[a]] # NoFile
         /\ cleanup.exact => SocketsClean]_vars
=============================================================================
