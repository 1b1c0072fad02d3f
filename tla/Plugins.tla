------------------------------- MODULE Plugins -------------------------------
(***************************************************************************)
(* PluginService: a sync puts the settings of the panel into the states of *)
(* the plugins and into nftables, and stops xray if the torrent blocker's  *)
(* part of its configuration is no longer the right one; a start of xray   *)
(* reads that part.                                                        *)
(*                                                                         *)
(* Every call to nftables or to a process is two steps, its effect and the *)
(* code that runs when it has returned.  Awaits of the in-memory buses and *)
(* of the schema's parser let no other request in between.                 *)
(***************************************************************************)
EXTENDS Integers, Sequences, FiniteSets, SequencesExt

CONSTANTS
    Requests,     \* slots for requests about plugins
    Configs,      \* the settings a panel may send
    None,         \* no settings, no hash
    NoTags,       \* no includeRuleTags
    Ips,          \* addresses that xray, or the operator, may want blocked
    RuleLists     \* the routing rules a panel may send

ASSUME NoneAssumption == None \notin Configs
\* Settings that parse: SyncInvalid is what becomes of others.
ASSUME ConfigsAssumption ==
    \A c \in Configs :
        /\ c.blocker \in BOOLEAN /\ c.hooks \in BOOLEAN /\ c.position \in Int
        /\ c.tags # NoTags => c.tags \subseteq STRING
        /\ \A list \in DOMAIN c.shared : c.shared[list] \subseteq Ips
ASSUME RulesAssumption ==
    \A rules \in RuleLists : rules \in Seq([tag : STRING, outbound : STRING])

\* The sets of the table that a sync fills, in this order.
Filters == <<"ingress", "egress", "ports">>
FilterSets == {"ingress", "egress", "ports"}
EmptyTable == [s \in FilterSets |-> {}]

VARIABLES
    nftables,   \* what there is of nftables
    blocker,    \* TorrentBlockerState
    dropping,   \* ConnectionDropState: the whitelist
    hooks,      \* PreStartState, PostStartState: whose settings they have
    hash,       \* lastConfigHash
    active,     \* pluginConfigDetails is not null
    table,      \* the sets of nftables
    req,        \* the requests
    online,     \* isXrayOnline
    xray,       \* what xray runs, or None
    start,      \* the start of xray in progress
    edited,     \* the table was changed by hand since it was recreated
    overlap,    \* requests overlapped since the last sync that began alone
    astray      \* they overlapped, or a call failed, since xray was configured

states == <<blocker, dropping, hooks, hash, active>>
process == <<online, xray, start>>
history == <<edited, overlap, astray>>
vars == <<nftables, states, table, req, process, history>>

Off == [enabled |-> FALSE, duration |-> FALSE, tags |-> {}, position |-> 0, ignored |-> {}]
Idle == [at |-> "idle"]
Awaits == {"table", "tabled", "filter", "filtered", "outbound", "stop", "stopped"}
\* nocap: no permission; none: no manager; unavailable: no table at start.
Kinds == {"ok", "unavailable", "none", "nocap"}

TypeOK ==
    /\ nftables \in Kinds
    /\ blocker \in [enabled : BOOLEAN, duration : BOOLEAN, tags : SUBSET STRING,
                    position : Int, ignored : SUBSET Ips]
    /\ dropping \subseteq Ips
    /\ hooks \in Configs \cup {None} /\ hash \in Configs \cup {None}
    /\ active \in BOOLEAN
    /\ table \in [FilterSets -> SUBSET Ips]
    /\ \A r \in Requests : req[r].at \in Awaits \cup {"idle"}
    /\ online \in BOOLEAN
    /\ start.at \in {"idle", "restart", "wait"}
    /\ edited \in BOOLEAN /\ overlap \in BOOLEAN /\ astray \in BOOLEAN

Init ==
    /\ nftables \in Kinds
    /\ blocker = Off /\ dropping = {} /\ hooks = None
    /\ hash = None /\ active = FALSE
    /\ table = EmptyTable
    /\ req = [r \in Requests |-> Idle]
    /\ online = FALSE /\ xray = None /\ start = Idle
    /\ edited = FALSE /\ overlap = FALSE /\ astray = FALSE

At(r, at) == req[r].at = at
Goto(r, at) == req' = [req EXCEPT ![r].at = at]
\* All that is left is to stop xray, or to tell it.
Finish(r, at) == req' = [req EXCEPT ![r] = [at |-> at, next |-> @.next]]
Answer(r) == req' = [req EXCEPT ![r] = Idle]
Quiet == (\A r \in Requests : At(r, "idle")) /\ start = Idle

Manager == nftables \in {"ok", "unavailable"}
Available == nftables = "ok"

-----------------------------------------------------------------------------
(* sync: what it decides before the first await of nftables. *)

\* (mutant) the name of a list that is not there is taken for an address
ResolveLoosely(c, items) ==
    (items \ DOMAIN c.shared) \cup UNION {c.shared[list] : list \in items \cap DOMAIN c.shared}

\* resolveIpList: the name of a shared list stands for what is in it, for
\* nothing if there is no such list.
Resolve(c, items) ==
    (items \cap Ips) \cup UNION {c.shared[list] : list \in items \cap DOMAIN c.shared}

\* (mutant) the hooks are left as they were
ResetSome ==
    /\ blocker' = Off /\ dropping' = {}
    /\ hash' = None /\ active' = FALSE
    /\ UNCHANGED hooks

\* resetState, cleanUpActivePlugin.
ResetStates ==
    /\ blocker' = Off /\ dropping' = {} /\ hooks' = None
    /\ hash' = None /\ active' = FALSE

\* A sync with settings c: before is the blocker's state it has found, next is
\* what follows when the table is there.
Reset(r, c, next) ==
    /\ At(r, "idle")
    /\ ResetStates
    /\ req' = [req EXCEPT ![r] =
                 [at |-> "table", config |-> c, next |-> next, k |-> 1,
                  before |-> IF next = "fill" THEN blocker ELSE Off]]
    /\ start' = IF start = Idle THEN Idle ELSE [start EXCEPT !.alone = FALSE]
    /\ overlap' = ~Quiet /\ astray' = (astray \/ ~Quiet)
    /\ UNCHANGED <<nftables, table, online, xray, edited>>

SyncNothing(r) == active /\ Reset(r, None, "stop")

\* Settings that do not parse.
SyncInvalid(r) == Reset(r, None, "stop")

\* The same settings as before are skipped.
Sync(r, c) == hash # c /\ Reset(r, c, "fill")

\* stopXray with plugin cleanup.
StopWithCleanup(r) == Reset(r, None, "kill")

-----------------------------------------------------------------------------
(* sync: the table and what follows it. *)

RecreateTable(r) ==
    /\ At(r, "table")
    /\ IF Manager THEN table' = EmptyTable /\ edited' = FALSE ELSE UNCHANGED <<table, edited>>
    /\ Goto(r, "tabled")
    /\ UNCHANGED <<nftables, states, process, overlap, astray>>

\* Sync answers false; ResetPlugins swallows the error, and the stop goes on.
RecreateTableFails(r) ==
    /\ At(r, "table") /\ Manager
    /\ astray' = TRUE
    /\ IF req[r].next = "kill" THEN Finish(r, "stop") ELSE Answer(r)
    /\ UNCHANGED <<nftables, states, table, process, edited, overlap>>

WantedFilters(c) == {k \in 1..Len(Filters) : Available /\ Resolve(c, c.filters[Filters[k]]) # {}}

\* (mutant) a rule that has only moved is not noticed
NeedsRestartUnlessMoved(before, c) ==
    \/ before.enabled # c.blocker
    \/ before.enabled /\ c.blocker /\ before.tags # IF c.tags = NoTags THEN {} ELSE c.tags

\* Whether the part of xray's configuration that is the blocker's has changed.
NeedsRestart(before, c) ==
    \/ before.enabled # c.blocker
    \/ /\ before.enabled /\ c.blocker
       /\ \/ before.tags # IF c.tags = NoTags THEN {} ELSE c.tags
          \/ before.position # c.position

\* The settings are in place: hash, details, and what xray must be told.
Commit(r, c) ==
    /\ hash' = c /\ active' = TRUE
    /\ IF req[r].before.enabled /\ ~c.blocker /\ c.tags = NoTags THEN Finish(r, "outbound")
       ELSE IF NeedsRestart(req[r].before, c) THEN Finish(r, "stop")
       ELSE Answer(r)

FilterOrCommit(r, c, k) ==
    LET rest == {n \in WantedFilters(c) : n >= k} IN
    IF rest = {} THEN Commit(r, c)
    ELSE /\ req' = [req EXCEPT ![r].at = "filter",
                               ![r].k = CHOOSE n \in rest : \A m \in rest : n <= m]
         /\ UNCHANGED <<hash, active>>

\* syncConnectionDrop, syncTorrentBlocker, syncPreStart, syncPostStart.
Fill(c) ==
    /\ blocker' = IF c.blocker /\ Available
                  THEN [enabled |-> TRUE, duration |-> TRUE, position |-> c.position,
                        tags |-> IF c.tags = NoTags THEN blocker.tags ELSE c.tags,
                        ignored |-> Resolve(c, c.ignored)]
                  ELSE blocker
    /\ dropping' = IF nftables # "nocap" /\ c.whitelist # None THEN Resolve(c, c.whitelist) ELSE dropping
    /\ hooks' = IF c.hooks THEN c ELSE hooks

Tabled(r) ==
    /\ At(r, "tabled")
    /\ IF req[r].next = "fill"
       THEN Fill(req[r].config) /\ FilterOrCommit(r, req[r].config, 1)
       ELSE Finish(r, "stop") /\ UNCHANGED states
    /\ UNCHANGED <<nftables, table, process, history>>

\* addAddresses, addPorts.
FillFilter(r) ==
    /\ At(r, "filter")
    /\ LET c == req[r].config
           set == Filters[req[r].k] IN
       table' = [table EXCEPT ![set] = @ \cup Resolve(c, c.filters[set])]
    /\ Goto(r, "filtered")
    /\ UNCHANGED <<nftables, states, process, history>>

FillFilterFails(r) ==
    /\ At(r, "filter") /\ Answer(r) /\ astray' = TRUE
    /\ UNCHANGED <<nftables, states, table, process, edited, overlap>>

Filtered(r) ==
    /\ At(r, "filtered")
    /\ FilterOrCommit(r, req[r].config, req[r].k + 1)
    /\ UNCHANGED <<nftables, blocker, dropping, hooks, table, process, history>>

\* removeOutbound of a running xray; an error is not answered.
RemoveOutbound(r) ==
    /\ At(r, "outbound") /\ Answer(r)
    /\ \/ xray' = (IF xray = None THEN None ELSE [xray EXCEPT !.outbound = FALSE])
          /\ UNCHANGED astray
       \/ astray' = TRUE /\ UNCHANGED xray
    /\ UNCHANGED <<nftables, states, table, online, start, edited, overlap>>

-----------------------------------------------------------------------------
(* stopXray *)

MustStop(r) == req[r].next = "kill" \/ online

StopOffline(r) ==
    /\ At(r, "stop") /\ ~MustStop(r) /\ Answer(r)
    /\ UNCHANGED <<nftables, states, table, process, history>>

KillXray(r) ==
    /\ At(r, "stop") /\ MustStop(r)
    /\ xray' = None
    /\ Finish(r, "stopped")
    /\ UNCHANGED <<nftables, states, table, online, start, history>>

\* The error is logged, and stopXray goes on.
KillXrayFails(r) ==
    /\ At(r, "stop") /\ MustStop(r)
    /\ Finish(r, "stopped")
    /\ astray' = TRUE
    /\ UNCHANGED <<nftables, states, table, process, edited, overlap>>

Stopped(r) ==
    /\ At(r, "stopped") /\ Answer(r)
    /\ online' = FALSE
    /\ UNCHANGED <<nftables, states, table, xray, start, history>>

-----------------------------------------------------------------------------
(* startXray, from the query of the blocker's state on. *)

Api == [tag |-> "", outbound |-> "REMNAWAVE_API"]
Blocking == [tag |-> "", outbound |-> "RW_TB_OUTBOUND_BLOCK"]

\* (mutant) positions are those of the whole list
IndexInAll(position, n) ==
    IF position <= 0 THEN 0 ELSE IF position > n THEN n ELSE position

\* resolveRuleIndex: how many of the n rules come before the blocker's.
\* The first is the API's.
RuleIndex(position, n) ==
    IF position <= 0 THEN 1
    ELSE 1 + (IF position > n - 1 THEN n - 1 ELSE position)

\* The rules that call the node's webhook.
Hooked(rules, tags) ==
    {n \in DOMAIN rules : rules[n] = Blocking \/ rules[n].tag \in tags \ {""}}

\* The rules of a list that are not dropped, in their order.
Kept(rules, dropped) ==
    LET kept[n \in 0..Len(rules)] ==
          IF n = 0 THEN <<>>
          ELSE IF rules[n] \in dropped THEN kept[n - 1] ELSE Append(kept[n - 1], rules[n])
    IN kept
Without(rules, dropped) == Kept(rules, dropped)[Len(rules)]

\* The panel may give rules that lead to the API: the node has its own.
Replaced(rules) == {rule \in Range(rules) : rule.outbound = Api.outbound}

\* generateApiConfig: the rules, which of them call the node's webhook, and
\* whether there is an outbound to block with.
Generated(rules, state) ==
    LET own == <<Api>> \o Without(rules, Replaced(rules))
        all == IF state.enabled
               THEN InsertAt(own, RuleIndex(state.position, Len(own)) + 1, Blocking) ELSE own
    IN [given |-> rules, rules |-> all, outbound |-> state.enabled,
        hooked |-> IF state.enabled THEN Hooked(all, state.tags) ELSE {}]

StartReads(rules) ==
    /\ start = Idle
    /\ start' = [at |-> "restart", config |-> Generated(rules, blocker), alone |-> Quiet]
    /\ UNCHANGED <<nftables, states, table, req, online, xray, history>>

\* Stopped, started, and given the configuration generated last.
StartRestarts ==
    /\ start.at = "restart"
    /\ xray' = start.config
    /\ astray' = ~start.alone
    /\ start' = [start EXCEPT !.at = "wait"]
    /\ UNCHANGED <<nftables, states, table, req, online, edited, overlap>>

\* s6 fails before, or after, the old process is down.
StartFails ==
    /\ start.at = "restart" /\ start' = Idle
    /\ xray' \in {xray, None}
    /\ UNCHANGED <<nftables, states, table, req, online, history>>

StartEnds ==
    /\ start.at = "wait" /\ start' = Idle
    /\ online' \in BOOLEAN
    /\ UNCHANGED <<nftables, states, table, req, xray, history>>

-----------------------------------------------------------------------------
(* The endpoints that change the table by hand. *)

\* From the set of the ingress filter, unless the call for the torrents' set,
\* which comes first, has failed.
UnblockIps(ips) ==
    /\ Manager
    /\ table' = [table EXCEPT !["ingress"] = @ \ ips]
    /\ edited' = TRUE
    /\ UNCHANGED <<nftables, states, req, process, overlap, astray>>

RecreateByHand ==
    /\ Manager
    /\ table' = EmptyTable /\ edited' = TRUE
    /\ UNCHANGED <<nftables, states, req, process, overlap, astray>>

RequestStep(r) ==
    \/ SyncNothing(r) \/ SyncInvalid(r) \/ StopWithCleanup(r)
    \/ \E c \in Configs : Sync(r, c)
    \/ RecreateTable(r) \/ RecreateTableFails(r) \/ Tabled(r)
    \/ FillFilter(r) \/ FillFilterFails(r) \/ Filtered(r) \/ RemoveOutbound(r)
    \/ StopOffline(r) \/ KillXray(r) \/ KillXrayFails(r) \/ Stopped(r)

Next ==
    \/ \E r \in Requests : RequestStep(r)
    \/ \E rules \in RuleLists : StartReads(rules)
    \/ StartRestarts \/ StartFails \/ StartEnds
    \/ \E ips \in SUBSET Ips : UnblockIps(ips)
    \/ RecreateByHand

Spec == Init /\ [][Next]_vars

-----------------------------------------------------------------------------

\* Settings with the hash that is remembered are skipped when they come again,
\* so they must be in force: in the states, and in nftables unless somebody has
\* changed it by hand.  A sync that is alone puts right what overlapping ones did.
HashDescribesSettings ==
    hash # None /\ ~overlap =>
        LET blocks == hash.blocker /\ Available IN
        /\ blocker = IF ~blocks THEN Off ELSE
             [enabled |-> TRUE, duration |-> TRUE, position |-> hash.position,
              tags |-> IF hash.tags = NoTags THEN {} ELSE hash.tags,
              ignored |-> Resolve(hash, hash.ignored)]
        /\ hash.whitelist # None /\ nftables # "nocap"
             => dropping = Resolve(hash, hash.whitelist)
        /\ hooks = IF hash.hooks THEN hash ELSE None
        /\ ~edited => \A set \in FilterSets :
             table[set] = IF Available THEN Resolve(hash, hash.filters[set]) ELSE {}

\* In what xray runs the API's rule is the first, and the panel's follow in
\* their order.
RulesGenerated ==
    xray # None =>
        /\ xray.rules[1] = Api
        /\ Without(Tail(xray.rules), {Blocking})
             = Without(xray.given, Replaced(xray.given) \cup {Blocking})

\* The blocker works in the xray that runs exactly when it is on, in the place
\* it is set to, for the rules it is to include: else xray was stopped, or told.
XrayHasBlocker ==
    Quiet /\ online /\ xray # None /\ ~astray =>
        /\ xray.outbound = blocker.enabled
        /\ blocker.enabled =>
             /\ xray.hooked = Hooked(xray.rules, blocker.tags)
             /\ \E n \in DOMAIN xray.rules :
                   /\ xray.rules[n] = Blocking
                   /\ n - 2 = IF blocker.position <= 0 THEN 0
                              ELSE IF blocker.position < Len(xray.rules) - 2
                              THEN blocker.position ELSE Len(xray.rules) - 2

=============================================================================
