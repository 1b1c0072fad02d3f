--------------------------- MODULE ConnectionDrop ---------------------------
(***************************************************************************)
(* Cutting connections off: the addresses a removed user was seen on       *)
(* (HandlerService), the addresses the torrent blocker or the panel puts   *)
(* into nftables (XrayWebhookHandler, NftService), and the handler of the  *)
(* events both publish, which nobody waits for (DropConnectionsHandler).   *)
(*                                                                         *)
(* The user may come back as long as xray and nftables let it.  What a     *)
(* request does per inbound is in XrayUsers; here the last inbound counts. *)
(***************************************************************************)
EXTENDS Naturals, FiniteSets

CONSTANTS
    Requests,     \* slots for requests about users
    Blocks,       \* slots for webhooks of xray and for requests to block
    Drops,        \* slots for events (bounds how many are being handled)
    Users,
    Ips,
    Whitelists,   \* the addresses a panel may exempt
    MaxTorrents   \* bound on the webhooks that are taken up

ASSUME WhitelistsAssumption == \A w \in Whitelists : w \subseteq Ips
ASSUME BlocksAssumption == IsFiniteSet(Blocks)
ASSUME BoundAssumption == MaxTorrents \in Nat

VARIABLES
    capable,    \* CAP_NET_ADMIN
    admits,     \* the users xray admits
    conns,      \* the open connections, but those that an event has left alone
    blocked,    \* the torrent blocker's set in nftables
    blocker,    \* TorrentBlockerState: whether it is on
    whitelist,  \* ConnectionDropState
    sync,       \* the sync of the plugins in progress
    req,        \* requests about users
    block,      \* webhooks and requests to block
    drop,       \* the events being handled
    reports,    \* TorrentBlockerState.reports: how many
    collected,  \* reports given to the panel
    accepted    \* webhooks that were taken up

plugins == <<blocker, whitelist, sync>>
torrents == <<reports, collected, accepted>>
network == <<admits, blocked>>
events == <<conns, drop>>
vars == <<capable, network, plugins, req, block, events, torrents>>

Idle == [at |-> "idle"]
\* revoked: its user was removed, and xray had listed it.
Connections == [user : Users, ip : Ips, revoked : BOOLEAN]
Awaits == {"idle", "read", "remove", "removed", "add"}

TypeOK ==
    /\ capable \in BOOLEAN
    /\ admits \subseteq Users
    /\ conns \subseteq Connections
    /\ blocked \subseteq Ips
    /\ blocker \in BOOLEAN
    /\ whitelist \subseteq Ips
    /\ sync \in {"idle", "table", "tabled"}
    /\ \A r \in Requests : req[r].at \in Awaits
    /\ \A b \in Blocks : block[b].at \in {"idle", "add", "added"}
    /\ \A d \in Drops : drop[d].at \in {"idle", "kill"}
    /\ {reports, collected, accepted} \subseteq 0..MaxTorrents

Init ==
    /\ capable \in BOOLEAN
    /\ admits = Users /\ conns = {}
    /\ blocked = {} /\ blocker = FALSE /\ whitelist = {} /\ sync = "idle"
    /\ req = [r \in Requests |-> Idle]
    /\ block = [b \in Blocks |-> Idle]
    /\ drop = [d \in Drops |-> Idle]
    /\ reports = 0 /\ collected = 0 /\ accepted = 0

-----------------------------------------------------------------------------
(* DropConnectionsHandler *)

\* (mutant) the first whitelisted address ends the loop
UntilWhitelisted(rest) ==
    IF rest \subseteq whitelist THEN {[then |-> Idle, spared |-> rest]}
    ELSE {[then |-> Idle, spared |-> {ip}] : ip \in rest \cap whitelist}
           \cup {[then |-> [at |-> "kill", ip |-> ip, rest |-> rest \ {ip}], spared |-> {}] :
                    ip \in rest \ whitelist}

\* The loop goes on, in any order: it skips whitelisted addresses and comes to
\* one whose connections it kills, or to its end.
Continue(rest) ==
    IF rest \subseteq whitelist THEN {[then |-> Idle, spared |-> rest]}
    ELSE {[then |-> [at |-> "kill", ip |-> ip, rest |-> rest \ (spared \cup {ip})],
           spared |-> spared] :
              ip \in rest \ whitelist, spared \in SUBSET (rest \cap whitelist)}

\* No event will cut off what this one has left alone.
Leave(ips) == conns' = {c \in conns : c.ip \notin ips}

\* An event; the handler begins at once.
Publish(ips) ==
    IF capable /\ ips # {}
    THEN \E d \in Drops, o \in Continue(ips) :
           /\ drop[d] = Idle
           /\ drop' = [drop EXCEPT ![d] = o.then]
           /\ Leave(o.spared)
    ELSE UNCHANGED events

\* And the loop goes on when that is done.
KillSockets(d) ==
    /\ drop[d].at = "kill"
    /\ \E o \in Continue(drop[d].rest) :
         /\ drop' = [drop EXCEPT ![d] = o.then]
         /\ Leave({drop[d].ip} \cup o.spared)
    /\ UNCHANGED <<capable, network, plugins, req, block, torrents>>

\* The error ends the loop.
KillSocketsFails(d) ==
    /\ drop[d].at = "kill"
    /\ Leave({drop[d].ip} \cup drop[d].rest)
    /\ drop' = [drop EXCEPT ![d] = Idle]
    /\ UNCHANGED <<capable, network, plugins, req, block, torrents>>

-----------------------------------------------------------------------------
(* HandlerService *)

Receive(r, kind, u, at) ==
    /\ req[r] = Idle
    /\ req' = [req EXCEPT ![r] = [at |-> at, kind |-> kind, user |-> u, ips |-> {}]]
    /\ UNCHANGED <<capable, network, plugins, block, events, torrents>>

\* removeUser, dropUsersConnections; removeUsers is one removal after the other.
ReceiveUser(r, kind, u) == Receive(r, kind, u, "read")

\* addUser: the addresses are read if the panel tells the uuid it replaces.
\* addUsers never reads them.
ReceiveAdd(r, u, replaces) == Receive(r, "add", u, IF replaces THEN "read" ELSE "remove")

\* What follows the read: with no removal, the event.
AfterRead(kind) == IF kind = "drop" THEN "removed" ELSE "remove"

\* The addresses xray lists for the user, until somebody has read them with
\* reset.  No capability, or an error, is no address.
GetUserIps(r) ==
    /\ req[r].at = "read"
    /\ \E ips \in SUBSET (IF capable THEN Ips ELSE {}) :
         req' = [req EXCEPT ![r].at = AfterRead(req[r].kind), ![r].ips = ips]
    /\ UNCHANGED <<capable, network, plugins, block, events, torrents>>

\* xray answers that it has removed the user, or that it has not.
RemoveFromCore(r) ==
    /\ req[r].at = "remove"
    /\ req' = [req EXCEPT ![r].at = "removed"]
    /\ \/ /\ admits' = admits \ {req[r].user}
          /\ conns' = {IF c.user = req[r].user /\ c.ip \in req[r].ips
                       THEN [c EXCEPT !.revoked = TRUE] ELSE c : c \in conns}
       \/ UNCHANGED <<admits, conns>>
    /\ UNCHANGED <<capable, blocked, plugins, block, drop, torrents>>

\* The event.
Removed(r) ==
    /\ req[r].at = "removed"
    /\ Publish(req[r].ips)
    /\ req' = [req EXCEPT ![r] = IF @.kind = "add" THEN [@ EXCEPT !.at = "add", !.ips = {}] ELSE Idle]
    /\ UNCHANGED <<capable, network, plugins, block, torrents>>

AddToCore(r) ==
    /\ req[r].at = "add"
    /\ req' = [req EXCEPT ![r] = Idle]
    /\ admits' \in {admits, admits \cup {req[r].user}}
    /\ UNCHANGED <<capable, blocked, plugins, block, events, torrents>>

DropIps(ips) ==
    /\ ips # {} /\ Publish(ips)
    /\ UNCHANGED <<capable, network, plugins, req, block, torrents>>

-----------------------------------------------------------------------------
(* XrayWebhookHandler, NftService *)

BeginBlock(b, ip, todo, torrent) ==
    block' = [block EXCEPT ![b] = [at |-> "add", ip |-> ip, todo |-> todo, torrent |-> torrent]]

\* A webhook of xray about a torrent; one that is to be ignored is no step.
Webhook(b, ip) ==
    /\ block[b] = Idle /\ accepted < MaxTorrents
    /\ blocker
    /\ accepted' = accepted + 1
    /\ BeginBlock(b, ip, {}, TRUE)
    /\ UNCHANGED <<capable, network, plugins, req, events, reports, collected>>

\* blockIpsController
BlockIps(b, ips) ==
    /\ block[b] = Idle /\ capable
    /\ \E ip \in ips : BeginBlock(b, ip, ips \ {ip}, FALSE)
    /\ UNCHANGED <<capable, network, plugins, req, events, torrents>>

AddAddress(b) ==
    /\ block[b].at = "add"
    /\ blocked' = blocked \cup {block[b].ip}
    /\ block' = [block EXCEPT ![b].at = "added"]
    /\ UNCHANGED <<capable, admits, plugins, req, events, torrents>>

AddReport(b) == reports' = IF block[b].torrent THEN reports + 1 ELSE reports

\* A torrent is reported as not blocked; the panel's request ends.
AddAddressFails(b) ==
    /\ block[b].at = "add"
    /\ AddReport(b)
    /\ block' = [block EXCEPT ![b] = Idle]
    /\ UNCHANGED <<capable, network, plugins, req, events, collected, accepted>>

NextBlock(b) ==
    IF block[b].todo = {} THEN block' = [block EXCEPT ![b] = Idle]
    ELSE \E ip \in block[b].todo : BeginBlock(b, ip, block[b].todo \ {ip}, FALSE)

\* (mutant) only the webhook publishes the event
DropTorrentsOnly(b) ==
    /\ block[b].at = "added"
    /\ IF block[b].torrent THEN Publish({block[b].ip}) ELSE UNCHANGED events
    /\ AddReport(b) /\ NextBlock(b)
    /\ UNCHANGED <<capable, network, plugins, req, collected, accepted>>

AddressAdded(b) ==
    /\ block[b].at = "added"
    /\ Publish({block[b].ip})
    /\ AddReport(b) /\ NextBlock(b)
    /\ UNCHANGED <<capable, network, plugins, req, collected, accepted>>

\* (mutant) the reports stay where they are
CollectCopy ==
    /\ reports > 0
    /\ collected' = collected + reports
    /\ UNCHANGED <<capable, network, plugins, req, block, events, reports, accepted>>

CollectReports ==
    /\ reports > 0
    /\ collected' = collected + reports /\ reports' = 0
    /\ UNCHANGED <<capable, network, plugins, req, block, events, accepted>>

\* unblockIpsController, recreateTablesController, or the time of a block is over.
Unblock(ips) ==
    /\ ips \cap blocked # {}
    /\ blocked' = blocked \ ips
    /\ UNCHANGED <<capable, admits, plugins, req, block, events, torrents>>

-----------------------------------------------------------------------------
(* A sync of the plugins, as far as it is about these states (see Plugins). *)

\* (mutant) the reports are reset too
ResetReports ==
    /\ sync = "idle" /\ sync' = "table"
    /\ whitelist' = {} /\ blocker' = FALSE /\ reports' = 0
    /\ UNCHANGED <<capable, network, req, block, events, collected, accepted>>

SyncResets ==
    /\ sync = "idle" /\ sync' = "table"
    /\ whitelist' = {} /\ blocker' = FALSE
    /\ UNCHANGED <<capable, network, req, block, events, torrents>>

\* A table that cannot be created again ends the sync.
SyncTable ==
    /\ sync = "table"
    /\ \/ sync' = "tabled" /\ blocked' = {}
       \/ sync' = "idle" /\ UNCHANGED blocked
    /\ UNCHANGED <<capable, admits, blocker, whitelist, req, block,
                   events, torrents>>

SyncFills(ips, on) ==
    /\ sync = "tabled" /\ sync' = "idle"
    /\ whitelist' = IF capable THEN ips ELSE {}
    /\ blocker' = (capable /\ on)
    /\ UNCHANGED <<capable, network, req, block, events, torrents>>

-----------------------------------------------------------------------------
(* The users of xray. *)

Connect(u, ip) ==
    /\ u \in admits /\ ip \notin blocked
    /\ conns' = conns \cup {[user |-> u, ip |-> ip, revoked |-> FALSE]}
    /\ UNCHANGED <<capable, network, plugins, req, block, drop, torrents>>

Disconnect(c) ==
    /\ conns' = conns \ {c}
    /\ UNCHANGED <<capable, network, plugins, req, block, drop, torrents>>

Next ==
    \/ \E r \in Requests :
         \/ \E u \in Users :
              \/ \E kind \in {"remove", "drop"} : ReceiveUser(r, kind, u)
              \/ \E replaces \in BOOLEAN : ReceiveAdd(r, u, replaces)
         \/ GetUserIps(r) \/ RemoveFromCore(r) \/ Removed(r) \/ AddToCore(r)
    \/ \E b \in Blocks :
         \/ \E ip \in Ips : Webhook(b, ip)
         \/ \E ips \in SUBSET Ips : BlockIps(b, ips)
         \/ AddAddress(b) \/ AddAddressFails(b) \/ AddressAdded(b)
    \/ \E d \in Drops : KillSockets(d) \/ KillSocketsFails(d)
    \/ \E ips \in SUBSET Ips : DropIps(ips) \/ Unblock(ips)
    \/ CollectReports
    \/ SyncResets \/ SyncTable \/ \E ips \in Whitelists, on \in BOOLEAN : SyncFills(ips, on)
    \/ \E u \in Users, ip \in Ips : Connect(u, ip)
    \/ \E c \in conns : Disconnect(c)

Spec == Init /\ [][Next]_vars

-----------------------------------------------------------------------------

\* The connections from ip are still going to be killed.
Owed(ip) ==
    \/ \E r \in Requests : req[r].at = "removed" /\ ip \in req[r].ips
    \/ \E b \in Blocks : block[b].at = "added" /\ ip = block[b].ip
    \/ \E d \in Drops : drop[d].at = "kill" /\ ip \in drop[d].rest \cup {drop[d].ip}

\* A user who was removed, for good or to get other credentials, has none of the
\* connections left that it had from the addresses xray listed, however often it
\* came back while the removal was in progress.
RemovedUsersCutOff ==
    \A c \in conns : c.revoked => Owed(c.ip)

\* From an address in the torrent blocker's set there is no connection left.
BlockedIpsCutOff ==
    \A c \in conns : c.ip \in blocked => Owed(c.ip)

\* Every torrent taken up is reported, once, whether its address could be
\* blocked or not, and whatever becomes of the settings meanwhile.
EveryTorrentReported ==
    accepted = reports + collected
                 + Cardinality({b \in Blocks : block[b].at \in {"add", "added"} /\ block[b].torrent})

=============================================================================
