# A TLA+ model of the Remnawave node

The node is a NestJS program that runs in a container next to two proxy cores,
**xray** and **sing-box**, of which at most one is meant to run at a time. A
panel drives it over HTTPS: it starts and stops cores, adds and removes users,
reads traffic statistics and sends plugin settings. The node starts and stops
the cores through s6, talks to a running core over a local socket (gRPC, HTTP)
and remembers in memory what it has applied. Nothing is persisted except the
core binaries, their markers and sing-box's configuration file; the node is the
container's main process, so a node that dies restarts the container and with
it both cores.

This directory holds TLA+ specifications of the parts of the node that keep
state, TLC configurations that check them on small instances, and TLAPS proofs.
Everything is translated from the code; each definition's lines are in
`PROJECT.json` under `map`.

## 1. Inventory

The program is one Node.js thread. A handler runs without interruption up to
its next `await`; between two awaits no other handler runs. All the concurrency
below comes from that: requests interleave at awaits, and what a handler read
before an await may be stale after it. The in-process `queryBus`/`commandBus`
calls are awaits as well.

| Component | State it keeps | Operations | Talks to |
|---|---|---|---|
| `XrayService` | `isXrayOnline`, `isXrayStartedProccesing`, versions | `startXray`, `stopXray`, health check | s6 (xray), xray's gRPC, InternalService, SingBoxService, plugins, integrations |
| `SingBoxService` | `currentConfig`, `isStartProcessing`, the file `sing-box.json` and its `.tmp` | `start`, `stop`, `upsertUsers`, `removeUsers` | s6 (sing-box), `sing-box check`, stats, CoreStateService |
| `CoreStateService` | `activeCore`, `online` | `setActiveCore`, `setOffline`, queries | everybody |
| `InternalService` | `xrayConfig`, inbounds and their hashes, sing-box's hashes | `extractUsersFromConfig`, `isNeedRestartCore`, `addUserToInbound`, `removeUserFromInbound`, `cleanup` | read by XrayService, SingBoxService, HandlerService; `get-config` is read by xray itself |
| `HandlerService` | none | `addUser(s)`, `removeUser(s)`, dropping connections, `removeOutbound` | xray's gRPC or SingBoxService, InternalService, the event bus |
| `DropConnectionsHandler` | none (events are handled one beside the other) | the event that cuts addresses off | the kernel's sockets, `ConnectionDropState` |
| `SingBoxStatsService` | `accumulated` | `accumulateAndReset`, `getSnapshot` | sing-box's HTTP statistics |
| `StatsService`, `GeocheckService`, `NetworkStatsService` | a busy flag; samples and rates | statistics endpoints, `getGeocheck`, a timer | xray, sing-box, `/proc/net/dev` |
| `PluginService` and the states of the plugins | settings and their hash, torrent reports, ignore lists | `sync`, `resetPlugins`, `collectReports` | nftables, XrayService, HandlerService |
| `NftService` | the manager of one table in nftables | filters, `blockIp`, (un)blocking by hand, `recreateTables` | nftables, the event bus |
| `XrayWebhookHandler` | none | a webhook of xray about a torrent | NftService, the reports |
| `CoreLoaderService`, `downloadFile`, `GeodataService` | files on disk: staged core, link, marker; geo assets | `prepare`, `install`, `restoreStock` | network, file system |
| `IntegrationsService` | its integrations (none in this repository) | `sync`, `stop` | external programs |
| pre-start and post-start hooks | their settings | removal of stale sockets before a start, a webhook after it | file system |
| configuration, authentication, controllers, CLI, instance lock, ASN database | decided at start, or none | routing, parsing, look-up | |

What is hard in it (`PROJECT.json` lists each hazard at its line):

* **Interleaving.** Two starts, a start and a stop, changes of users during a
  start, two changes of users of sing-box (which rewrite one file), two syncs of
  the plugins, a webhook during a sync, a user who comes back while it is removed.
* **Stale state.** Hashes are remembered before a restart has succeeded; a
  check made before an await decides after it; a sync compares with the settings
  it has just reset.
* **Partial failure.** s6 rejects, `sing-box check` rejects, a core does not
  become ready, one gRPC call of a loop fails, nftables rejects one filter, one of
  two integrations fails, one of two statistics calls fails after the other has
  reset what it read.
* **Counters moved between two places** (core and node) with an await between
  reading and placing; rates from counters that restart.
* **Crash in the middle of an installation** (custom core, downloads), which is
  resumed by the next start.

Per component, what makes it correct: a start answered as "up to date" tells the truth;
busy flags are released on every path and let one start in; every request is answered
that does not wait for a silent core; the health report names what runs; the core serves
what the panel wants and the remembered hashes agree with it; traffic is neither counted
twice nor dropped; what `rw-core` leads to is always one whole core, and changes at
once; an asset is a whole file; xray comes up only on what was prepared for it; settings
that would be skipped are in force; xray has the blocker the settings say; who is
removed or blocked is cut off; every torrent is reported once.

## 2. Modules

| Module | Models |
|---|---|
| `SingleFlight` | abstract: a section that at most one request is inside (`Safety`) and, where nothing inside can wait forever, that everybody inside leaves (`Spec`) |
| `CoreLifecycle` | `XrayService.startXray/stopXray`, `SingBoxService.start/stop`, `CoreStateService`, both process services, `InternalService` at the level of whole configurations |
| `SingBoxStats` | `SingBoxStatsService` and the callers of it, against the counters of a core |
| `XrayUsers` | `HandlerService` on xray and `InternalService` at the level of users per inbound, with a start that resets both |
| `SingBoxUsers` | `SingBoxService.mutateUsers` with `start` and `stop`: `currentConfig`, the two files, the process |
| `InstalledCore` | abstract: there always is a core, and it changes in one step to the one asked for |
| `Download` | `downloadFile` and the file system under it |
| `CoreLoader` (extends `Download`) | `CoreLoaderService` |
| `Geodata` (extends `Download`) | `GeodataService` |
| `StartPreparation` (extends `CoreLoader`, `Geodata`) | the composition: `IntegrationsService.sync`, the core, the assets, the pre-start hook, the process, and the death of the node |
| `Plugins` | `PluginService`, the plugins' states, `NftService`'s filters, `stopXray` as plugins call it, `generateApiConfig`, the start of xray from there on |
| `ConnectionDrop` | `DropConnectionsHandler` and who publishes its event: user requests, webhooks of xray, requests to block; the reports of the torrent blocker |
| `Monitoring` | `StatsService` on xray, `NetworkStatsService`, `GeocheckService` |
| `MC...` | instances for TLC: fault sets, users, settings, symmetry |
| `...Proofs` | TLAPS proofs |

Each specification module also contains, marked `(mutant)`, some definitions
that are not part of it: plausible bugs with which its properties were tested
(each property fails when the mutant replaces the definition after it).

`CoreLifecycle` and `StartPreparation` are about the same request at two levels:
what the former takes as one step or one fault (`integrations`, `prepare`, the s6
steps) the latter takes apart, for one start at a time; that there is only one is
what `CoreLifecycle` shows. `ConnectionDrop` and `XrayUsers` share `removeUser` in the
same way: `XrayUsers` has its loop over the inbounds, `ConnectionDrop` what happens to
the connections when the loop comes to its end. `Plugins` and `ConnectionDrop` share
the sync: `Plugins` has all of it, `ConnectionDrop` its effect on the states that
webhooks and events read.

### How state and actions correspond to the code

A request is a slot `r`; `pc[r]` (or `req[r].at`, `call[r].at`) is the `await`
it is at. One action is the code from one await to the next. An await of an
*outside* effect (s6, a gRPC call, a file) is two steps, the effect and the code
that runs when the answer is back, wherever other requests can tell the two
apart. In the modules about cores and users, awaits of the in-memory query bus are
interleaving points too, which can only add behaviours; in `Plugins` they are
not, because a handler that itself awaits nothing answers in the same run of
microtasks, before any other request is served. A handler's `try/catch/finally`
appears as actions named `...Fails`, `...Throws`, `...Threw`.

**CoreLifecycle.** `xrayOnline`, `xrayBusy`, `sbBusy`, `sbConfig` and `core` are
the fields of the same meaning. `known` is InternalService's memory: hashes are
modelled as the identity of the configuration they were computed from, so "the
hashes match" is "it is the same configuration". `xrayProc` and `sbProc` are the
operating system's side: down, booting (xray is up and has not yet fetched
`/internal/get-config`) or running a configuration. Start of xray: entry
(`xSwitch`: another core is stopped; `xEnter`: the busy flag), then integrations,
the hash branch (`xStats`, `xHealthy`, `xState`), preparation, restart in two s6
steps, waiting for readiness, and the answer; a core that is not ready is marked
offline (`xNotReady`) before the tail of its log is read (`xTail`), and only then is
the flag released. Start of sing-box (`sFailed`, `sTail`) and the stops follow the same
pattern. The fault `hang` makes a call end only when its core answers or dies; which
awaits it concerns is `Hangs`. xray given sing-box's configuration by `get-config`
(which serves whatever was extracted last) is `CrashXray`'s business: it may exit.
The pre-start and post-start handlers catch every error and are left out. A stop
asked for by a plugin is `stopXray` with `withOnlineCheck`.

**SingBoxStats.** Traffic is a finite set of chunks, each always in one place:
`fresh` (not yet happened), `counters` (in the core), with a call that has read
and reset them, `accumulated`, `reported`, or `lost` (with a dead process or a
lost answer). `view`/`reset` are `getSnapshot(false/true)`, `restart` is
`mutateUsers` and a start of the active core, `replace` a start of the inactive
core, `stop` is `SingBoxService.stop`.

**XrayUsers.** A uuid stands for one user with one set of credentials. `hash`, `mapped`
and `xtls` are `inboundsHashMap`'s sets, its keys, and `xtlsConfigInbounds`. The loops
of `addUser` and `removeUser` run over the *live* set of inbounds: a JavaScript `Set`
visits what is added during the iteration and does not visit what is deleted, which is
what `visited` is for. The order of a `Set`, of users and of inbounds is left open. The
panel is the environment: it changes its list and sends the request, and sends nothing
about a user whose previous request is not yet answered; it sends starts whenever it
likes. Two history variables: `failed`, a call to a running xray failed since it was
started, and `start.raced`, the users of requests that overlapped the last start. The
`success` flag of the answers is not modelled.

**SingBoxUsers.** A configuration is the set of accounts in it, an account being a user
with its credentials in one inbound. `Change` is what the panel means by a change,
`Upsert` what the code makes of it: it filters the user out of every inbound and passes
over accounts of an inbound it does not know (`Unknown`) and of a type it has no case
for, such as hysteria (`Unhandled`), answering success. `mutateUsers`
changes `currentConfig` in place after the await of the statistics, writes the
temporary file, checks *that file*, renames it, restarts and assigns
`currentConfig` again; these are separate awaits, and only starts exclude each
other. `errors` and `overlap` are history variables.

**Download.** A body is a number of chunks, a file the chunks written into it
(`Hole` where none has been). `disk` is what is at each path; a stream remembers the
path its open file now has, follows renames and writes to nothing once the file is
deleted or replaced (`Following`). Two downloads of one path have one temporary path.
A timeout, an abort, a wrong digest and an error of the file system all are
`BreakOff`, after which the catch deletes the temporary file, or fails to.

**CoreLoader.** `link` is what `rw-core` leads to, `tmpLink` the symbolic link that is
renamed over it, `marker` the file `.rw-core.json`; a core stands for its url and
digest. A marker carries the size and time of change of the file it describes:
`current` says that this still is the installed file, and any change of that file
ends it. `failed` is a history variable: a call failed during this `prepare`.

**StartPreparation.** `phase` is the await of `startXray`, `request` the sections
`core` and `assets` of the configuration (a section that does not parse is skipped),
`cleanup` the patterns and paths the pre-start hook has yet to look at. `Crash`
forgets everything but the disk and the sockets, which stay in the container's
file system; the container is then started again.

**Plugins.** A configuration has whether the blocker is on, its tags and position,
the lists (an element is an address or the name of a shared list), the filters, and
whether it sets the hooks. `blocker`, `dropping` and `hooks` are the states;
`hash` is `lastConfigHash` (the identity of the settings), `active` whether there are
`pluginConfigDetails`. `table` are the sets that a sync fills. `nftables` is decided at
start: permission and manager may be missing. `start` is a start of xray from the
query of the blocker's state; `xray` the rules it runs, with the position of the
blocker's rule and the rules that call the node's webhook computed as
`generateApiConfig` does. `edited`, `overlap` and `astray` are history variables.

**ConnectionDrop.** `conns` are the open connections; `revoked` marks those of a
removed user that xray had listed. A removal from the last inbound is the removal
from xray. What `killSockets` does and its answer are one step. A connection that an
event has left alone, because its address is whitelisted or because a call failed,
leaves the model: nothing will cut it off, and nothing promises that. A webhook that
is ignored is no step.

**Monitoring.** `counter` are xray's counters, reset by reading; `carried` counts all
they ever counted, `lost` names the counters of which a failed call or a restart may
have lost something. A statistics request is one or two calls. Requests without
reset change nothing and are left out. `bytes` is `/proc/net/dev`, `clock` is
`Date.now()`, which passes with the time and can be set; `previous` and `readAt` are the
last reading and its timestamp. A rate is a fraction, the bytes and the time they are
divided by. `since` and `passed`, what an interface has carried and the time that has
really passed since the last reading, are history variables. A geocheck occupies
`isRunning`.

## 3. Runs

| Run | Bounds | Shows |
|---|---|---|
| `CoreConcurrent` | 2 requests, 2+2 configurations, crashes, unready cores, rejected checks, failing integrations | `BusyFlagsExact`, `XrayTracked`, `SingBoxTracked`, `XrayUpToDateIsTrue`, `SingBoxUpToDateIsTrue`, `TypeOK` |
| `CoreLiveness` | 2 requests, 1+1 configurations, every fault, calls that are never answered included | `XrayStartsSingleFlight`, `SingBoxStartsSingleFlight` (the guarded sections implement `SingleFlight!Safety`), `RequestsAnswered` |
| `CoreSerial` | 1 request, 2+2 configurations, failing integrations | `HealthReportExact` |
| `StatsConcurrent` | 2 calls, 3 chunks under 2 categories, every fault | `CountedOnce`, `NothingForgotten`, `TypeOK` |
| `UsersConcurrent` | 2 requests about up to 2 users each, starts at any time, 2 inbounds, one of which may lose its last user | `CoreServesPanel`, `RegistryKnowsCore`, `TypeOK` |
| `UsersFaults` | 1 request, starts at any time, a user with 2 uuids, 2 inbounds, failing gRPC calls | `HashedUsersServed`, `AddedUsersServed` |
| `UsersSoleInbound` | 1 request, 2 users, 2 inbounds | TLC finds `RemovedUsersGone` violated |
| `SbUsersConcurrent` | 2 requests, 3 accounts of 2 users (a plain one, one of a type without a case, one of an unknown inbound), every fault | `ServesPanel`, `InstalledIsServed`, `RunsInstalled`, `TypeOK` |
| `PreparationCrashes` | 2 custom cores, or 2 assets with and without a common name, or 2 sockets; 2 integrations, bodies of 2 chunks, at most 1 match of a pattern, every failure, a crash at any step | `PreparedRunsWanted`, `CoreReplacedAtOnce` (the loader implements `InstalledCore`), `UnsharedAssetWhole`, `StartsPrepared`, `TypeOK` |
| `PluginsConcurrent` | 2 requests and 1 start of xray, 4 settings, 1 list of 3 rules, 1 address, all states of nftables, failing calls | `HashDescribesSettings`, `RulesGenerated`, `XrayHasBlocker`, `TypeOK` |
| `DropsConcurrent` | 1 request about 1 user, 1 webhook or request to block, 2 events, 1 sync, 2 addresses, 1 torrent, failing calls | `RemovedUsersCutOff`, `BlockedIpsCutOff`, `EveryTorrentReported`, `TypeOK` |
| `MonitoringConcurrent` | 2 requests, 2 counters, 1 interface, 2 units of traffic each, a clock up to 3 that is set at will, failing calls, restarts | `TrafficReportedOnce`, `RatesNeverExaggerate`, `GeocheckOnce` (implements `SingleFlight`), `TypeOK` |

`CoreConcurrent` leaves out two faults, s6 rejecting and an exception before the
restart, because with them `XrayUpToDateIsTrue` is false (below), and calls that are never
answered, which only prolong an await there; `CoreLiveness` has every fault. `CoreSerial`
leaves out failing processes: the node does not watch them, so its report cannot be exact
when one dies. The panels of `PreparationCrashes` ask about
the core, the assets or the sockets, never about two of them in one start: the
three share no variable but `phase`, and together they would only multiply.
`MonitoringConcurrent` likewise explores the network's counters with no request in
progress and nothing in xray's counters, and the requests with the network untouched
(the constraint `OneHalf`): no action reads or writes variables of both halves, so a
behaviour of the whole is two behaviours of the halves side by side, and every property
is about one half.

Why the bounds are enough: two requests give every pair of handlers every
interleaving, and the properties relate at most two requests (the proofs below
remove the bound for most of them). Two configurations per core are needed to
tell the old one from the new one; a third would only be another "not this one".
Two inbounds tell "swept" from "not swept" and a kept inbound from one that
empties. Three chunks of traffic allow one in each of the three moving places with
one query prefix that covers only part of them. A body of two chunks can be half
written and can be mixed from two bodies. The four plugin settings differ from each
other in everything `sync` compares: blocker off, on, on at another position with
other tags, off but with tags; the position 3 is beyond the rules, which the clamp
must see. In `DropsConcurrent` two addresses let an event skip one and kill the
other, and two events let a webhook's overtake a request's. Two units of traffic
tell part of a counter from all of it; on a clock up to 3 the readings of one interface
can be apart by nothing, by less and by more than the time that passed. One interface is
enough, because all of them are read at once and each rate is its own. An account of each
kind (served, passed over for its type, passed over for its inbound) is all `Upsert` tells
apart.

### Known disagreements

Shown by a run, in which TLC finds the counterexample:

* `UsersSoleInbound`: updating the only user of an inbound makes the node forget
  the inbound; removing that user later is answered with success and the user
  stays in xray.

Found while modelling; the properties above are stated so as to except exactly
these, and each is seen again by changing the run as told here:

* `startXray` remembers the new hashes before the restart. If s6 rejects the
  restart, `isXrayOnline` stays set, the old process runs, and the panel's retry is
  answered "up-to-date - no restart required". (`CoreConcurrent` with
  `Faults <- FaultKinds` violates `XrayUpToDateIsTrue`.)
* A stop that completes while `SingBoxService.start` is between
  `currentConfig = ...` and `setActiveCore` leaves sing-box "active" with no
  configuration and no process (`sbConfig = None` while `SingBoxActive`, in
  `CoreConcurrent`). The health check then reports a core that does not run, until the
  next start or stop. No property of the project is about this.
* A user added between the extraction of the hashes and the restart is in the
  hashes and not in the new process, until the next start. The properties of
  `XrayUsers` except the users of requests that overlapped the last start. (With
  `Undisturbed(i) == Settled(i)` each of them is violated.)
* `upsertUsers` filters a user out of every inbound and does not put back an account of
  an inbound it does not know, or of a type it has no case for (hysteria, which the
  contract accepts); success is answered. `ServesPanel` excepts these accounts
  (`Skipped`); with `run = panel` in place of `Meets(run)` it is violated.
* The statistics clients of both cores set no deadline, and `sing-box check` and
  `sing-box version` have no timeout. A core, or a program, that runs and never answers
  keeps its request waiting, and a start keeps the busy flag, so that every later start
  is refused until it dies. (`RequestsAnswered` without `Hangs` is violated.)
* A clock set back by less than the time between two readings makes the time too short
  and the rate too high. `RatesNeverExaggerate` excepts a clock that shows less time than has
  passed, and even then wants a time above zero.
* Of two concurrent changes of sing-box's users, both answered with success, one
  may be lost: `ServesPanel` and `InstalledIsServed` speak only of changes that did not
  overlap (`overlap`).
* Two assets with one file name are downloaded through one temporary file, and what
  is installed may be a mixture. (`PreparationCrashes` violates `UnsharedAssetWhole`
  when it does not except `Unshared`.) So may two assets one of which has the name of
  the other's temporary file, `geo.dat` and `geo.dat.download`, which the pattern of
  file names allows; `Unshared` and `OwnFile` except both.
* A connection made between the reading of a user's addresses and the removal stays
  open: `RemovedUsersCutOff` speaks of the addresses that were read.
* A sync that fails after it has filled the states leaves the blocker on and the hash
  unset. The retry finds the blocker as it wants it and does not stop xray, which
  still runs without it: `XrayHasBlocker` excepts that (`astray`).

Traffic that sing-box counts after the reset and before its process is killed is
lost by every change of users, and what xray has counted is lost by a restart or by
the failure of the second of two calls; the models count it as `lost`.

### Fairness

Fairness is stated only where the code bounds the wait. In `CoreLifecycle` these awaits
end: s6 commands have `-T` timeouts, readiness polling has a retry limit, downloads,
xray's version and webhooks have timeouts, the integrations (of which the repository
contains none) are taken to answer, and the event loop serves whatever is ready. These do
not have to end: a gRPC call to a core that runs (`xStats`, `xReady`; `sStats`,
`sAccumulate`, `sReady`; `xSwitch` and `tSingBox`, since `SingBoxService.stop` first
collects the statistics), and `sing-box check` and `sing-box version` (`sWrite`,
`sVersion`). So each request has strong fairness of its next step while it does not hang,
`SF_vars(ServeStep(r) /\ ~Hangs(r))`: strong, because a core may come and go many times
while a call waits, and a call whose core is gone fails. `RequestsAnswered` says what
follows, that a request is answered or from some time on hangs. `SingleFlight`'s liveness is
not claimed of the two starts, since the one inside may hang. Without the fault `hang`
every core that runs answers in the end. A booting xray fetches its configuration (weak
fairness).

`StartPreparation`: weak fairness of the steps of the start in progress, from which
`InstalledCore`'s liveness (nobody is kept waiting) follows: its downloads have a total
timeout, and the rest is the file system and s6. `Monitoring`: a run of geocheck ends,
because `execFile` kills it after 45 seconds. Nothing is assumed about the arrival of
requests or about crashes.

## 4. Proofs

All for any number of requests, configurations, users, inbounds, accounts, chunks,
cores, assets, rules, addresses, events, counters and interfaces, that is, for every
value of the constants that the modules' assumptions allow.

**`CoreLifecycleProofs`.** `TypeCorrect`: the types, strengthened with the kind of
configuration each request carries at each await (otherwise `sbFile` could receive an
xray configuration). `FlagsGuardStarts`: `BusyFlagsExact`, together with "at most one
request is in each guarded section"; neither is inductive alone, since leaving clears
the flag. `XrayStartsOneAtATime` and `SingBoxStartsOneAtATime`
(`XrayStartsSingleFlight`, `SingBoxStartsSingleFlight`): each step maps to a step of
`SingleFlight` or a stutter. `XrayRemembered` and `SingBoxRemembered`: the invariants
`XrayTracked` and `SingBoxTracked`, which say for every await where the process and the
remembered configuration may differ; they need that at most one request is in each
guarded section. From them follow `XrayAnswersTrue` and `SingBoxAnswersTrue`
(`XrayUpToDateIsTrue`, `SingBoxUpToDateIsTrue`). What is said of xray assumes that s6
and the preparation do not fail (`NoCutShort`), as the run does. `HealthReportTrue`:
`HealthReportExact`, for one request at a time (`OneRequest`, as in `CoreSerial`). The
report follows from `Stages`: which core is active, which processes run and what is
reported at each await of the request, and when there is none. It needs that nothing but
an integration fails (`OnlyIntegrationsFail`), as in the run.

**`SingBoxStatsProofs`.** `StatsTypeCorrect`, `TrafficCountedOnce`,
`TrafficAccountedFor`. `CountedOnce` alone is not inductive: it needs
`NothingStale`, that a call carries traffic only between the core's answer and the
code that places it. Both properties are first proved chunk by chunk (`Placed`).

**`XrayUsersProofs`.** `RequestsTypeCorrect`: the types, with what a request carries at
each await. `CoreServed`, `RegistryMatches`, `AddedServed` and `HashedServed`
(`CoreServesPanel`, `RegistryKnowsCore`, `AddedUsersServed`, `HashedUsersServed`) from one
invariant, `UsersInv`. `PanelInv`: a user has one uuid, two requests under way are about
different users, and what a request carries is what the panel wants of its users.
`KeptStay`: an inbound that keeps a user stays registered. `StartApart`: during a start, the
users of the requests under way are those counted as `raced`, and what was extracted is
what the panel wants of all the others. `Serving` says of
each user and inbound how core and registry differ, by how far the user's request has come
(not there yet, visiting, swept, added to the core and not yet to the registry, done), and
that they agree with the panel if there is no request. None of the four is inductive
without it: between the two calls of a change, core and registry differ. Starts may overlap
requests as they like; what is then not claimed of whom is in the properties themselves
(`Undisturbed`). `CredentialsAssumption` says that
the panel gives a user one set of credentials at a time.

**`SingBoxUsersProofs`.** `UsersTypeCorrect`. `SerialChangesServed` and
`SerialInstalledServed` from `SerialInv`: as long as nothing overlaps, `Progress` says
at each await how much of {file, process, `currentConfig`} already meets what the panel
wants (`Meets`, which a change that passes accounts over keeps true).
`OverlappingInstalled`: `RunsInstalled` from `OverlapInv`: process and file agree, or a
request is about to kill the process, or a start that is still going to install is on
its way, or sing-box is not active. It needs that starts exclude each other.

**`StartPreparationProofs`.** `PreparationTypeCorrect`: the types, strengthened with
`Streams` (a stream writes to its own temporary file or to nothing, the loader's to no
other path, and the file it writes to is there) and `LoaderReady` (the new link is
there when it takes the place of the old one); without them a step could read a file
that is not there. `CoreAlwaysRunnable`: wherever the node dies, `rw-core` leads to
the stock core or to one whole core. `PreparedCoreRuns`: `PreparedRunsWanted`. Both
from `CoreInv`: `LinkLeads` (the link leads to the stock core or to a file that is one
whole core), `MarkerTrue` (a marker that is current describes the file beside it),
`CoreDownloads` (only a `prepare` in its download downloads a core) and `Progress`
(what has been achieved at each await, unless a call has failed). It needs
`LoaderPhase`, that the loader is at work only in the phase of the core.
`CoreReplacedAtOnceSafety`: every step maps to a step of `InstalledCore` or a stutter.
`AssetsWhole`: `UnsharedAssetWhole` from `AssetInv`: the temporary file of an asset that
shares no file with another holds what its own stream has written, no other stream
writes to it or to the asset, and it takes the asset's place only when it is complete.
`PreparedStarts`: `StartsPrepared` from `StartInv`, what each phase leaves to the next:
the assets asked for that did not fail are on the disk, and the sockets and files that
match no longer are, apart from what the hook has yet to look at.

**`PluginsProofs`.** `PluginsTypeCorrect`. `RulesInOrder`: `RulesGenerated`, for rules
of any number and wherever the blocker's is to go. The state matters little here
(`GeneratedMade` is about the operators), the proof is about sequences: the recursive
function that leaves rules out exists, and leaving out commutes with joining, inserting
and taking the tail, each by induction over the rules. The library's induction theorems
take an operator as a parameter, which the provers cannot instantiate; the induction is
carried out on the set of the numbers for which the claim fails, which has no least
element because `<` is well-founded on the naturals. `HashTrue`: `HashDescribesSettings`
from `HashInv`: as long as no two requests overlapped, the settings in force are those
of the hash if there is one, and `SettingsStage` says how far a request has come with
clearing and setting them, filter by filter. `BlockerWorks`: `XrayHasBlocker` from
`BlockerInv`, in which `BlockerStage` says at which awaits of a request xray may still
run without the blocker that is now wanted, namely those before it is stopped. Settings
that do not parse change nothing but the answer and are left out (`ConfigsAssumption`).

**`ConnectionDropProofs`.** `DropTypeCorrect`, and `TorrentsReported`:
`EveryTorrentReported`, an equation between numbers and the cardinality of a set of
webhooks, one of which each step adds or removes; that the reports stay within the
bound on the webhooks, which is part of the types, follows from it. `RemovedCutOff` and
`BlockedCutOff`: `RemovedUsersCutOff` and `BlockedIpsCutOff` from `CutOff`, that every
connection to be cut off is owed by a request, a webhook or an event, and from
`Powerless`, that without the permission to kill sockets no address is read, blocked
or published: without it a request could owe what nobody can do.

**`MonitoringProofs`.** `MonitoringTypeCorrect` and `RatesHonest`
(`RatesNeverExaggerate`) from `NetworkTypes`: an interface has counted no more than it
had at the last reading plus what it has carried since, whether it was taken down,
created again or never seen; a type of the counters alone bounds no rate. That the rate,
bytes by elapsed time, does not exceed the true one, bytes by time passed, is a product of
two such inequalities; that the elapsed time is above zero is the guard of `Rated`.
`TrafficOnce`: `TrafficReportedOnce`, from `CallsFresh`, that no request reads a counter
twice: otherwise the second reading would overwrite the first. Each step then moves
traffic between the counter, one request and the panel, or marks it as lost. The traffic
that requests hold is a sum over all of them, a fold of the community modules; `TotalsDef`
and `TotalFacts` show that the recursive function under it exists and how the sum
changes with one of its terms, by induction over the subsets of the requests.
`GeocheckOnceSafety`: the flag is set exactly while one run is in progress, so that
each step is one of `SingleFlight` or a stutter.

The assumptions are those named in the modules (disjoint kinds of configuration,
distinct statuses, faults a subset of the known ones, paths that differ, finite sets);
TLC evaluates them in the runs.

Only model-checked: liveness (`RequestsAnswered`, that of `SingleFlight` in
`GeocheckOnce`, and that of `InstalledCore`), which is out of the prover's reach. Of the
refinements, the safety part is proved. Every other property that a passing run checks
is a theorem, for every value of the constants, under the assumptions that the text
above names.

## 5. Not modelled

Requests' parsing, validation, authentication, TLS, the CLI and the instance lock hold
no state worth checking. The ASN database is read-only. The success flags and response
texts of the user operations change nothing the properties speak of. The removal of the
nftables table runs when the process ends, and the container with it.
`IntegrationsService.stop`, which `stopXray` awaits before it answers, calls each
integration in turn and swallows what it throws: in `CoreLifecycle` it is the await
`tIntegrations`. The integrations themselves are not part of the repository. The
post-start hook and the torrent blocker's own webhook are sent and forgotten. Statistics
without reset, lists of addresses and system figures are read and passed on. Of
`generateApiConfig`, what does not depend on the plugins is constant.

## 6. Plan

Done, in this order: lifecycle, statistics, users of xray, users of sing-box;
then the preparation of a start, plugins, connections and reports, monitoring.
Left:

1. The answers of `getSnapshot(false)`, and sing-box's hashes while its users change.
2. Proofs: what of `CoreLifecycle` holds when s6 fails.
