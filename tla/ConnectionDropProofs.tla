------------------------ MODULE ConnectionDropProofs ------------------------
(***************************************************************************)
(* Proofs about ConnectionDrop for any number of users, addresses,         *)
(* requests, webhooks and events.                                          *)
(***************************************************************************)
EXTENDS ConnectionDrop, FiniteSetTheorems, TLAPS

-----------------------------------------------------------------------------
(* Types: what the requests, blocks and events carry. *)

UserRequest ==
    [at : {"read", "remove", "removed", "add"}, kind : {"remove", "drop", "add"},
     user : Users, ips : SUBSET Ips]
Blocking == [at : {"add", "added"}, ip : Ips, todo : SUBSET Ips, torrent : BOOLEAN]
Killing == [at : {"kill"}, ip : Ips, rest : SUBSET Ips]

Types ==
    /\ capable \in BOOLEAN /\ blocker \in BOOLEAN
    /\ admits \subseteq Users /\ conns \subseteq Connections
    /\ blocked \subseteq Ips /\ whitelist \subseteq Ips
    /\ sync \in {"idle", "table", "tabled"}
    /\ req \in [Requests -> {Idle} \cup UserRequest]
    /\ block \in [Blocks -> {Idle} \cup Blocking]
    /\ drop \in [Drops -> {Idle} \cup Killing]
    /\ reports \in Nat /\ collected \in Nat /\ accepted \in 0..MaxTorrents

LEMMA ContinueTypes ==
  ASSUME NEW rest \in SUBSET Ips, NEW o \in Continue(rest)
  PROVE  /\ o.then \in {Idle} \cup Killing
         /\ \A ip \in rest : \/ ip \in o.spared
                             \/ o.then.at = "kill" /\ ip \in o.then.rest \cup {o.then.ip}
  <1>1. CASE rest \subseteq whitelist
    BY <1>1 DEF Continue, Idle
  <1>2. CASE ~(rest \subseteq whitelist)
    <2>1. PICK ip \in rest \ whitelist, spared \in SUBSET (rest \cap whitelist) :
            o = [then |-> [at |-> "kill", ip |-> ip, rest |-> rest \ (spared \cup {ip})],
                 spared |-> spared]
      BY <1>2 DEF Continue
    <2>2. o.then = [at |-> "kill", ip |-> ip, rest |-> rest \ (spared \cup {ip})]
          /\ o.spared = spared
      BY <2>1
    <2>3. o.then \in Killing
      BY <2>2 DEF Killing
    <2>4. o.then.at = "kill" /\ o.then.ip = ip /\ o.then.rest = rest \ (spared \cup {ip})
      BY <2>2
    <2> QED BY <2>2, <2>3, <2>4
  <1> QED BY <1>1, <1>2

\* What an event leaves to be done, and the rest of what was to be done.
Killed(d, ip) == drop[d].at = "kill" /\ ip \in drop[d].rest \cup {drop[d].ip}

LEMMA EventServes ==
  ASSUME Types, NEW ips \in SUBSET Ips, Publish(ips)
  PROVE  /\ conns' \subseteq conns
         /\ drop' \in [Drops -> {Idle} \cup Killing]
         /\ \A d \in Drops, ip \in Ips : Killed(d, ip) => Killed(d, ip)'
         /\ capable => \A c \in conns' : c.ip \in ips => \E d \in Drops : Killed(d, c.ip)'
  <1>1. CASE capable /\ ips # {}
    <2>1. PICK d \in Drops, o \in Continue(ips) :
            drop[d] = Idle /\ drop' = [drop EXCEPT ![d] = o.then] /\ Leave(o.spared)
      BY <1>1 DEF Publish
    <2>2. /\ o.then \in {Idle} \cup Killing
          /\ \A ip \in ips : \/ ip \in o.spared
                             \/ o.then.at = "kill" /\ ip \in o.then.rest \cup {o.then.ip}
      BY ContinueTypes
    <2>3. conns' \subseteq conns /\ \A c \in conns' : c.ip \notin o.spared
      BY <2>1 DEF Leave
    <2>4. drop' \in [Drops -> {Idle} \cup Killing] /\ drop'[d] = o.then
      BY <2>1, <2>2 DEF Types
    <2>5. \A e \in Drops, ip \in Ips : Killed(e, ip) => Killed(e, ip)'
      <3> SUFFICES ASSUME NEW e \in Drops, NEW ip \in Ips, Killed(e, ip) PROVE Killed(e, ip)'
        OBVIOUS
      <3>1. e # d
        BY <2>1 DEF Killed, Idle
      <3>2. drop'[e] = drop[e]
        BY <2>1, <3>1 DEF Types
      <3> QED BY <3>2 DEF Killed
    <2>6. \A c \in conns' : c.ip \in ips => Killed(d, c.ip)'
      BY <2>2, <2>3, <2>4 DEF Killed
    <2> QED BY <2>3, <2>4, <2>5, <2>6
  <1>2. CASE ~(capable /\ ips # {})
    <2>1. UNCHANGED events
      BY <1>2 DEF Publish
    <2> QED BY <1>2, <2>1 DEF events, Types, Killed
  <1> QED BY <1>1, <1>2

LEMMA HandlerServes ==
  ASSUME Types, NEW d \in Drops, KillSockets(d) \/ KillSocketsFails(d)
  PROVE  /\ conns' \subseteq conns
         /\ drop' \in [Drops -> {Idle} \cup Killing]
         /\ \A e \in Drops, c \in conns' : Killed(e, c.ip) => Killed(e, c.ip)'
  <1>1. drop[d] \in Killing
    BY DEF KillSockets, KillSocketsFails, Types, Idle
  <1>2. CASE KillSocketsFails(d)
    <2>1. conns' \subseteq conns /\ \A c \in conns' : c.ip \notin {drop[d].ip} \cup drop[d].rest
      BY <1>2 DEF KillSocketsFails, Leave
    <2>2. drop' \in [Drops -> {Idle} \cup Killing]
          /\ \A e \in Drops : e # d => drop'[e] = drop[e]
      BY <1>2 DEF KillSocketsFails, Types
    <2> QED BY <2>1, <2>2 DEF Killed
  <1>3. CASE KillSockets(d)
    <2>1. PICK o \in Continue(drop[d].rest) :
            drop' = [drop EXCEPT ![d] = o.then] /\ Leave({drop[d].ip} \cup o.spared)
      BY <1>3 DEF KillSockets
    <2>2. drop[d].rest \in SUBSET Ips
      BY <1>1 DEF Killing
    <2>3. /\ o.then \in {Idle} \cup Killing
          /\ \A ip \in drop[d].rest : \/ ip \in o.spared
                                      \/ o.then.at = "kill" /\ ip \in o.then.rest \cup {o.then.ip}
      BY <2>2, ContinueTypes
    <2>4. conns' \subseteq conns /\ \A c \in conns' : c.ip \notin {drop[d].ip} \cup o.spared
      BY <2>1 DEF Leave
    <2>5. drop' \in [Drops -> {Idle} \cup Killing] /\ drop'[d] = o.then
          /\ \A e \in Drops : e # d => drop'[e] = drop[e]
      BY <2>1, <2>3 DEF Types
    <2>6. \A c \in conns' : Killed(d, c.ip) => Killed(d, c.ip)'
      BY <2>3, <2>4, <2>5 DEF Killed
    <2>7. \A e \in Drops, c \in conns' : e # d => (Killed(e, c.ip) => Killed(e, c.ip)')
      BY <2>5 DEF Killed
    <2> QED BY <2>4, <2>5, <2>6, <2>7
  <1> QED BY <1>2, <1>3

LEMMA TypesAlways == Spec => []Types
  <1>1. Init => Types
    <2> SUFFICES ASSUME Init PROVE Types
      OBVIOUS
    <2>1. /\ req \in [Requests -> {Idle} \cup UserRequest]
          /\ block \in [Blocks -> {Idle} \cup Blocking]
          /\ drop \in [Drops -> {Idle} \cup Killing]
      BY DEF Init
    <2>2. accepted \in 0..MaxTorrents
      BY BoundAssumption DEF Init
    <2> QED BY <2>1, <2>2 DEF Init, Types
  <1>2. Types /\ [Next]_vars => Types'
    <2> SUFFICES ASSUME Types, [Next]_vars PROVE Types'
      OBVIOUS
    <2> USE DEF Types
    <2>1. CASE UNCHANGED vars
      BY <2>1 DEF vars, plugins, torrents, network, events
    <2>2. ASSUME NEW r \in Requests, NEW u \in Users,
                 \/ \E kind \in {"remove", "drop"} : ReceiveUser(r, kind, u)
                 \/ \E replaces \in BOOLEAN : ReceiveAdd(r, u, replaces)
          PROVE  Types'
      <3>1. PICK kind \in {"remove", "drop", "add"}, at \in {"read", "remove"} : Receive(r, kind, u, at)
        BY <2>2 DEF ReceiveUser, ReceiveAdd
      <3>2. [at |-> at, kind |-> kind, user |-> u, ips |-> {}] \in UserRequest
        BY <3>1 DEF UserRequest
      <3> QED BY <3>1, <3>2 DEF Receive, plugins, torrents, network, events
    <2>3. ASSUME NEW r \in Requests,
                 GetUserIps(r) \/ RemoveFromCore(r) \/ Removed(r) \/ AddToCore(r)
          PROVE  Types'
      <3>1. req[r] \in UserRequest
        BY <2>3 DEF GetUserIps, RemoveFromCore, Removed, AddToCore, Idle
      <3>2. CASE GetUserIps(r)
        <4>1. PICK ips \in SUBSET Ips :
                req' = [req EXCEPT ![r].at = AfterRead(req[r].kind), ![r].ips = ips]
          BY <3>2 DEF GetUserIps
        <4>2. [req[r] EXCEPT !.at = AfterRead(req[r].kind), !.ips = ips] \in UserRequest
          BY <3>1 DEF UserRequest, AfterRead
        <4>3. req' = [req EXCEPT ![r] = [req[r] EXCEPT !.at = AfterRead(req[r].kind), !.ips = ips]]
          BY <4>1
        <4> QED BY <3>2, <4>2, <4>3 DEF GetUserIps, plugins, torrents, network, events
      <3>3. CASE RemoveFromCore(r)
        <4>1. [req[r] EXCEPT !.at = "removed"] \in UserRequest
          BY <3>1 DEF UserRequest
        <4>2. conns' \subseteq Connections
          <5>1. \A c \in Connections : [c EXCEPT !.revoked = TRUE] \in Connections
            BY DEF Connections
          <5> QED BY <3>3, <5>1 DEF RemoveFromCore
        <4>3. req' = [req EXCEPT ![r] = [req[r] EXCEPT !.at = "removed"]]
          BY <3>3 DEF RemoveFromCore
        <4> QED BY <3>3, <4>1, <4>2, <4>3 DEF RemoveFromCore, plugins, torrents
      <3>4. CASE Removed(r)
        <4>1. [req[r] EXCEPT !.at = "add", !.ips = {}] \in UserRequest
          BY <3>1 DEF UserRequest
        <4>2. req[r].ips \in SUBSET Ips
          BY <3>1 DEF UserRequest
        <4>3. conns' \subseteq conns /\ drop' \in [Drops -> {Idle} \cup Killing]
          BY <3>4, <4>2, EventServes DEF Removed
        <4> QED BY <3>4, <4>1, <4>3 DEF Removed, plugins, torrents, network
      <3>5. CASE AddToCore(r)
        <4>1. req[r].user \in Users
          BY <3>1 DEF UserRequest
        <4> QED BY <3>5, <4>1 DEF AddToCore, plugins, torrents, events
      <3> QED BY <2>3, <3>2, <3>3, <3>4, <3>5
    <2>4. ASSUME NEW b \in Blocks, NEW ip \in Ips, Webhook(b, ip)
          PROVE  Types'
      <3>1. [at |-> "add", ip |-> ip, todo |-> {}, torrent |-> TRUE] \in Blocking
        BY DEF Blocking
      <3>2. accepted' \in 0..MaxTorrents
        BY <2>4, BoundAssumption DEF Webhook
      <3> QED BY <2>4, <3>1, <3>2 DEF Webhook, BeginBlock, network, plugins, events
    <2>5. ASSUME NEW b \in Blocks, NEW ips \in SUBSET Ips, BlockIps(b, ips)
          PROVE  Types'
      <3>1. PICK ip \in ips : BeginBlock(b, ip, ips \ {ip}, FALSE)
        BY <2>5 DEF BlockIps
      <3>2. [at |-> "add", ip |-> ip, todo |-> ips \ {ip}, torrent |-> FALSE] \in Blocking
        BY DEF Blocking
      <3> QED BY <2>5, <3>1, <3>2 DEF BlockIps, BeginBlock, network, plugins, events, torrents
    <2>6. ASSUME NEW b \in Blocks, AddAddress(b) \/ AddAddressFails(b) \/ AddressAdded(b)
          PROVE  Types'
      <3>1. block[b] \in Blocking
        BY <2>6 DEF AddAddress, AddAddressFails, AddressAdded, Idle
      <3>2. CASE AddAddress(b)
        <4>1. [block[b] EXCEPT !.at = "added"] \in Blocking /\ block[b].ip \in Ips
          BY <3>1 DEF Blocking
        <4>2. block' = [block EXCEPT ![b] = [block[b] EXCEPT !.at = "added"]]
          BY <3>2 DEF AddAddress
        <4> QED BY <3>2, <4>1, <4>2 DEF AddAddress, plugins, events, torrents
      <3>3. CASE AddAddressFails(b)
        BY <3>3 DEF AddAddressFails, AddReport, network, plugins, events
      <3>4. CASE AddressAdded(b)
        <4>1. {block[b].ip} \in SUBSET Ips /\ block[b].todo \subseteq Ips
          BY <3>1 DEF Blocking
        <4>2. conns' \subseteq conns /\ drop' \in [Drops -> {Idle} \cup Killing]
          BY <3>4, <4>1, EventServes DEF AddressAdded
        <4>3. \A ip \in block[b].todo :
                [at |-> "add", ip |-> ip, todo |-> block[b].todo \ {ip}, torrent |-> FALSE] \in Blocking
          BY <4>1 DEF Blocking
        <4>4. block' \in [Blocks -> {Idle} \cup Blocking]
          BY <3>4, <4>3 DEF AddressAdded, NextBlock, BeginBlock
        <4> QED BY <3>4, <4>2, <4>4 DEF AddressAdded, AddReport, network, plugins
      <3> QED BY <2>6, <3>2, <3>3, <3>4
    <2>7. ASSUME NEW d \in Drops, KillSockets(d) \/ KillSocketsFails(d)
          PROVE  Types'
      BY <2>7, HandlerServes DEF KillSockets, KillSocketsFails, network, plugins, torrents
    <2>8. ASSUME NEW ips \in SUBSET Ips, DropIps(ips)
          PROVE  Types'
      BY <2>8, EventServes DEF DropIps, network, plugins, torrents
    <2>9. ASSUME NEW ips \in SUBSET Ips, Unblock(ips)
          PROVE  Types'
      BY <2>9 DEF Unblock, plugins, events, torrents
    <2>10. CASE CollectReports
      BY <2>10 DEF CollectReports, network, plugins, events
    <2>11. CASE SyncResets \/ SyncTable
      BY <2>11 DEF SyncResets, SyncTable, network, events, torrents
    <2>12. ASSUME NEW ips \in Whitelists, NEW on \in BOOLEAN, SyncFills(ips, on)
           PROVE  Types'
      BY <2>12, WhitelistsAssumption DEF SyncFills, network, events, torrents
    <2>13. ASSUME NEW u \in Users, NEW ip \in Ips, Connect(u, ip)
           PROVE  Types'
      <3>1. [user |-> u, ip |-> ip, revoked |-> FALSE] \in Connections
        BY DEF Connections
      <3> QED BY <2>13, <3>1 DEF Connect, network, plugins, torrents
    <2>14. ASSUME NEW c \in conns, Disconnect(c)
           PROVE  Types'
      BY <2>14 DEF Disconnect, network, plugins, torrents
    <2> QED
      BY <2>1, <2>2, <2>3, <2>4, <2>5, <2>6, <2>7, <2>8, <2>9, <2>10, <2>11, <2>12, <2>13, <2>14
      DEF Next
  <1> QED BY <1>1, <1>2, PTL DEF Spec

-----------------------------------------------------------------------------
(* The reports of the torrent blocker. *)

Reporting == {b \in Blocks : block[b].at \in {"add", "added"} /\ block[b].torrent}

\* A block that begins, goes on, or ends, and what becomes of Reporting.
LEMMA ReportingChanges ==
  ASSUME Types, NEW b \in Blocks, NEW x \in {Idle} \cup Blocking,
         block' = [block EXCEPT ![b] = x]
  PROVE  Reporting' = IF x # Idle /\ x.torrent THEN Reporting \cup {b} ELSE Reporting \ {b}
  <1>1. \A a \in Blocks : block'[a] = IF a = b THEN x ELSE block[a]
    BY DEF Types
  <1>2. x = Idle \/ x.at \in {"add", "added"}
    BY DEF Blocking
  <1> QED BY <1>1, <1>2 DEF Reporting, Idle

LEMMA ReportingCounted ==
  ASSUME Types
  PROVE  /\ IsFiniteSet(Reporting) /\ Cardinality(Reporting) \in Nat
         /\ \A b \in Blocks :
              /\ Cardinality(Reporting \cup {b})
                   = IF b \in Reporting THEN Cardinality(Reporting) ELSE Cardinality(Reporting) + 1
              /\ Cardinality(Reporting \ {b})
                   = IF b \in Reporting THEN Cardinality(Reporting) - 1 ELSE Cardinality(Reporting)
  <1>1. IsFiniteSet(Reporting)
    BY BlocksAssumption, FS_Subset DEF Reporting
  <1> QED BY <1>1, FS_CardinalityType, FS_AddElement, FS_RemoveElement

LEMMA ReportStep ==
  ASSUME Types, EveryTorrentReported, [Next]_vars
  PROVE  EveryTorrentReported'
  <1>1. accepted = reports + collected + Cardinality(Reporting)
    BY DEF EveryTorrentReported, Reporting
  <1> SUFFICES accepted' = reports' + collected' + Cardinality(Reporting')
    BY DEF EveryTorrentReported, Reporting
  <1>2. reports \in Nat /\ collected \in Nat /\ accepted \in Nat /\ Cardinality(Reporting) \in Nat
    BY ReportingCounted, BoundAssumption DEF Types
  <1>3. CASE UNCHANGED <<block, torrents>>
    BY <1>1, <1>3 DEF torrents, Reporting
  <1>4. ASSUME NEW b \in Blocks, NEW ip \in Ips, Webhook(b, ip)
        PROVE  accepted' = reports' + collected' + Cardinality(Reporting')
    <2>1. [at |-> "add", ip |-> ip, todo |-> {}, torrent |-> TRUE] \in Blocking
      BY DEF Blocking
    <2>2. Reporting' = Reporting \cup {b} /\ b \notin Reporting
      <3> DEFINE x == [at |-> "add", ip |-> ip, todo |-> {}, torrent |-> TRUE]
      <3>1. block' = [block EXCEPT ![b] = x] /\ block[b] = Idle
        BY <1>4 DEF Webhook, BeginBlock
      <3>2. x # Idle /\ x.torrent
        BY DEF Idle
      <3>3. Reporting' = Reporting \cup {b}
        <4> HIDE DEF x
        <4> QED BY <2>1, <3>1, <3>2, ReportingChanges DEF x
      <3> QED BY <3>1, <3>3 DEF Reporting, Idle
    <2>3. accepted' = accepted + 1 /\ UNCHANGED <<reports, collected>>
      BY <1>4 DEF Webhook
    <2> QED BY <1>1, <1>2, <2>2, <2>3, ReportingCounted
  <1>5. ASSUME NEW b \in Blocks, NEW ips \in SUBSET Ips, BlockIps(b, ips)
        PROVE  accepted' = reports' + collected' + Cardinality(Reporting')
    <2>1. PICK ip \in ips : BeginBlock(b, ip, ips \ {ip}, FALSE)
      BY <1>5 DEF BlockIps
    <2>2. [at |-> "add", ip |-> ip, todo |-> ips \ {ip}, torrent |-> FALSE] \in Blocking
      BY DEF Blocking
    <2>3. Reporting' = Reporting \ {b} /\ b \notin Reporting
      BY <1>5, <2>1, <2>2, ReportingChanges DEF BlockIps, BeginBlock, Idle, Reporting
    <2>4. UNCHANGED torrents
      BY <1>5 DEF BlockIps
    <2> QED BY <1>1, <2>3, <2>4 DEF torrents
  <1>6. ASSUME NEW b \in Blocks, AddAddress(b)
        PROVE  accepted' = reports' + collected' + Cardinality(Reporting')
    <2>1. block[b] \in Blocking
      BY <1>6 DEF AddAddress, Types, Idle
    <2>2. /\ [block[b] EXCEPT !.at = "added"] \in Blocking
          /\ [block[b] EXCEPT !.at = "added"].torrent = block[b].torrent
      BY <2>1 DEF Blocking
    <2>3. block' = [block EXCEPT ![b] = [block[b] EXCEPT !.at = "added"]]
      BY <1>6 DEF AddAddress
    <2>4. [block[b] EXCEPT !.at = "added"] # Idle
      BY <2>1 DEF Idle, Blocking
    <2>5. Reporting' = IF block[b].torrent THEN Reporting \cup {b} ELSE Reporting \ {b}
      BY <2>2, <2>3, <2>4, ReportingChanges
    <2>6. Reporting' = Reporting
      BY <1>6, <2>5 DEF AddAddress, Reporting
    <2> QED BY <1>1, <1>6, <2>6 DEF AddAddress, torrents
  <1>7. ASSUME NEW b \in Blocks, AddAddressFails(b) \/ AddressAdded(b)
        PROVE  accepted' = reports' + collected' + Cardinality(Reporting')
    <2>1. block[b] \in Blocking /\ block[b].at \in {"add", "added"}
      BY <1>7 DEF AddAddressFails, AddressAdded, Types, Idle
    <2>2. PICK x \in {Idle} \cup Blocking :
            block' = [block EXCEPT ![b] = x] /\ (x # Idle => ~x.torrent)
      <3>1. CASE block' = [block EXCEPT ![b] = Idle]
        BY <3>1
      <3>2. CASE \E ip \in block[b].todo : BeginBlock(b, ip, block[b].todo \ {ip}, FALSE)
        <4>1. PICK ip \in block[b].todo : BeginBlock(b, ip, block[b].todo \ {ip}, FALSE)
          BY <3>2
        <4>2. [at |-> "add", ip |-> ip, todo |-> block[b].todo \ {ip}, torrent |-> FALSE] \in Blocking
          BY <2>1 DEF Blocking
        <4>3. block' = [block EXCEPT ![b] = [at |-> "add", ip |-> ip, todo |-> block[b].todo \ {ip},
                                             torrent |-> FALSE]]
          BY <4>1 DEF BeginBlock
        <4>4. ~[at |-> "add", ip |-> ip, todo |-> block[b].todo \ {ip}, torrent |-> FALSE].torrent
          OBVIOUS
        <4> QED BY <4>2, <4>3, <4>4
      <3> QED BY <1>7, <3>1, <3>2 DEF AddAddressFails, AddressAdded, NextBlock
    <2>3. Reporting' = Reporting \ {b}
      BY <2>2, ReportingChanges
    <2>4. b \in Reporting <=> block[b].torrent
      BY <2>1 DEF Reporting
    <2>5. reports' = (IF block[b].torrent THEN reports + 1 ELSE reports)
          /\ UNCHANGED <<collected, accepted>>
      BY <1>7 DEF AddAddressFails, AddressAdded, AddReport
    <2> QED BY <1>1, <1>2, <2>3, <2>4, <2>5, ReportingCounted
  <1>8. CASE CollectReports
    BY <1>1, <1>2, <1>8 DEF CollectReports, Reporting
  <1> QED
    BY <1>3, <1>4, <1>5, <1>6, <1>7, <1>8
    DEF Next, vars, torrents, ReceiveUser, ReceiveAdd, Receive, GetUserIps, RemoveFromCore, Removed,
        AddToCore, KillSockets, KillSocketsFails, DropIps, Unblock, SyncResets, SyncTable,
        SyncFills, Connect, Disconnect

\* Every torrent is reported once, whatever fails, is reset or is collected
\* while its address is being blocked.
THEOREM TorrentsReported == Spec => []EveryTorrentReported
  <1>1. Init => EveryTorrentReported
    <2> SUFFICES ASSUME Init PROVE EveryTorrentReported
      OBVIOUS
    <2>1. {b \in Blocks : block[b].at \in {"add", "added"} /\ block[b].torrent} = {}
      BY DEF Init, Idle
    <2> QED BY <2>1, FS_EmptySet DEF Init, EveryTorrentReported
  <1> QED BY <1>1, ReportStep, TypesAlways, PTL DEF Spec

\* The variables keep their types; that the reports stay within the bound on
\* the webhooks follows from their being counted.
THEOREM DropTypeCorrect == Spec => []TypeOK
  <1>1. Types /\ EveryTorrentReported => TypeOK
    <2> SUFFICES ASSUME Types, EveryTorrentReported PROVE TypeOK
      OBVIOUS
    <2>1. {reports, collected, accepted} \subseteq 0..MaxTorrents
      <3>1. accepted = reports + collected + Cardinality(Reporting)
        BY DEF EveryTorrentReported, Reporting
      <3> QED BY <3>1, ReportingCounted, BoundAssumption DEF Types
    <2>2. \A r \in Requests : req[r].at \in Awaits
      BY DEF Types, UserRequest, Idle, Awaits
    <2>3. \A b \in Blocks : block[b].at \in {"idle", "add", "added"}
      BY DEF Types, Blocking, Idle
    <2>4. \A d \in Drops : drop[d].at \in {"idle", "kill"}
      BY DEF Types, Killing, Idle
    <2> QED BY <2>1, <2>2, <2>3, <2>4 DEF TypeOK, Types
  <1> QED BY <1>1, TypesAlways, TorrentsReported, PTL

-----------------------------------------------------------------------------
(* Whom the events cut off. *)

\* Without the capability nothing is read, blocked or published.
Powerless ==
    ~capable =>
        /\ ~blocker
        /\ \A r \in Requests : req[r] # Idle => req[r].ips = {}
        /\ \A b \in Blocks : block[b] = Idle

CutOff == RemovedUsersCutOff /\ BlockedIpsCutOff

DropInv == Types /\ Powerless /\ CutOff

LEMMA PowerlessStep ==
  ASSUME Types, Types', Powerless, [Next]_vars
  PROVE  Powerless'
  <1> SUFFICES ASSUME ~capable PROVE Powerless'
    <2>1. UNCHANGED capable
      BY DEF vars, Next, ReceiveUser, ReceiveAdd, Receive, GetUserIps, RemoveFromCore, Removed,
             AddToCore, Webhook, BlockIps, AddAddress, AddAddressFails, AddressAdded, KillSockets,
             KillSocketsFails, DropIps, Unblock, CollectReports, SyncResets, SyncTable, SyncFills,
             Connect, Disconnect
    <2> QED BY <2>1 DEF Powerless
  <1>1. /\ ~blocker
        /\ \A r \in Requests : req[r] # Idle => req[r].ips = {}
        /\ \A b \in Blocks : block[b] = Idle
    BY DEF Powerless
  <1>2. UNCHANGED block
    <2>1. \A b \in Blocks : block[b].at = "idle"
      BY <1>1 DEF Idle
    <2>2. \A b \in Blocks : ~AddAddress(b) /\ ~AddAddressFails(b) /\ ~AddressAdded(b)
      BY <2>1 DEF AddAddress, AddAddressFails, AddressAdded
    <2>3. \A b \in Blocks : /\ \A ip \in Ips : ~Webhook(b, ip)
                            /\ \A ips \in SUBSET Ips : ~BlockIps(b, ips)
      BY <1>1 DEF Webhook, BlockIps
    <2> QED
      BY <2>2, <2>3
      DEF vars, Next, ReceiveUser, ReceiveAdd, Receive, GetUserIps, RemoveFromCore, Removed,
          AddToCore, KillSockets, KillSocketsFails, DropIps, Unblock, CollectReports, SyncResets,
          SyncTable, SyncFills, Connect, Disconnect
  <1>3. ~blocker'
    BY <1>1, <1>2 DEF vars, plugins, Next, ReceiveUser, ReceiveAdd, Receive, GetUserIps,
             RemoveFromCore, Removed, AddToCore, Webhook, BlockIps, AddAddress, AddAddressFails,
             AddressAdded, KillSockets, KillSocketsFails, DropIps, Unblock, CollectReports,
             SyncResets, SyncTable, SyncFills, Connect, Disconnect
  <1>4. \A r \in Requests : req'[r] # Idle => req'[r].ips = {}
    <2>1. CASE UNCHANGED req
      BY <1>1, <2>1
    <2>2. ASSUME NEW q \in Requests, NEW kind, NEW u \in Users, NEW at, Receive(q, kind, u, at)
          PROVE  \A r \in Requests : req'[r] # Idle => req'[r].ips = {}
      BY <1>1, <2>2 DEF Receive, Types
    <2>3. ASSUME NEW q \in Requests, GetUserIps(q)
          PROVE  \A r \in Requests : req'[r] # Idle => req'[r].ips = {}
      <3>1. req[q] \in UserRequest
        BY <2>3 DEF GetUserIps, Types, Idle
      <3>2. req' = [req EXCEPT ![q].at = AfterRead(req[q].kind), ![q].ips = {}]
        BY <2>3 DEF GetUserIps
      <3>3. [req[q] EXCEPT !.at = AfterRead(req[q].kind), !.ips = {}].ips = {}
        BY <3>1 DEF UserRequest
      <3> QED BY <1>1, <3>2, <3>3 DEF Types
    <2>4. ASSUME NEW q \in Requests, RemoveFromCore(q)
          PROVE  \A r \in Requests : req'[r] # Idle => req'[r].ips = {}
      <3>1. req[q] \in UserRequest /\ req[q] # Idle
        BY <2>4 DEF RemoveFromCore, Types, Idle
      <3>2. req' = [req EXCEPT ![q] = [req[q] EXCEPT !.at = "removed"]]
        BY <2>4 DEF RemoveFromCore
      <3>3. [req[q] EXCEPT !.at = "removed"].ips = {}
        BY <1>1, <3>1 DEF UserRequest
      <3> QED BY <1>1, <3>2, <3>3 DEF Types
    <2>5. ASSUME NEW q \in Requests, Removed(q)
          PROVE  \A r \in Requests : req'[r] # Idle => req'[r].ips = {}
      <3>1. req[q] \in UserRequest
        BY <2>5 DEF Removed, Types, Idle
      <3>2. [req[q] EXCEPT !.at = "add", !.ips = {}].ips = {}
        BY <3>1 DEF UserRequest
      <3> QED BY <1>1, <2>5, <3>2 DEF Removed, Types
    <2>6. ASSUME NEW q \in Requests, AddToCore(q)
          PROVE  \A r \in Requests : req'[r] # Idle => req'[r].ips = {}
      BY <1>1, <2>6 DEF AddToCore, Types
    <2> QED
      BY <2>1, <2>2, <2>3, <2>4, <2>5, <2>6
      DEF vars, events, torrents, Next, ReceiveUser, ReceiveAdd, Webhook, BlockIps, AddAddress,
          AddAddressFails, AddressAdded, KillSockets, KillSocketsFails, DropIps, Unblock,
          CollectReports, SyncResets, SyncTable, SyncFills, Connect, Disconnect
  <1> QED BY <1>2, <1>3, <1>4, <1>1 DEF Powerless

RequestOwes(r, ip) == req[r].at = "removed" /\ ip \in req[r].ips
BlockOwes(b, ip) == block[b].at = "added" /\ ip = block[b].ip

LEMMA OwedBy ==
  ASSUME NEW ip
  PROVE  Owed(ip) <=> \/ \E r \in Requests : RequestOwes(r, ip)
                      \/ \E b \in Blocks : BlockOwes(b, ip)
                      \/ \E d \in Drops : Killed(d, ip)
  BY DEF Owed, RequestOwes, BlockOwes, Killed

\* A request publishes its event and owes no more.
LEMMA EventOwes ==
  ASSUME Types, NEW ips \in SUBSET Ips, Publish(ips), capable \/ ips = {},
         NEW c \in conns', Owed(c.ip),
         \A r \in Requests : RequestOwes(r, c.ip) => c.ip \in ips \/ RequestOwes(r, c.ip)',
         \A b \in Blocks : BlockOwes(b, c.ip) => c.ip \in ips \/ BlockOwes(b, c.ip)'
  PROVE  Owed(c.ip)'
  <1>1. c \in conns /\ c.ip \in Ips
    BY EventServes DEF Types, Connections
  <1>2. CASE c.ip \in ips
    <2>1. \E d \in Drops : Killed(d, c.ip)'
      BY <1>2, EventServes
    <2> QED BY <2>1 DEF Owed, Killed
  <1>3. CASE c.ip \notin ips
    <2>1. CASE \E d \in Drops : Killed(d, c.ip)
      <3>1. \E d \in Drops : Killed(d, c.ip)'
        BY <1>1, <2>1, EventServes
      <3> QED BY <3>1 DEF Owed, Killed
    <2>2. CASE \E r \in Requests : RequestOwes(r, c.ip)
      <3>1. \E r \in Requests : RequestOwes(r, c.ip)'
        BY <1>3, <2>2
      <3> QED BY <3>1 DEF Owed, RequestOwes
    <2>3. CASE \E b \in Blocks : BlockOwes(b, c.ip)
      <3>1. \E b \in Blocks : BlockOwes(b, c.ip)'
        BY <1>3, <2>3
      <3> QED BY <3>1 DEF Owed, BlockOwes
    <2> QED BY <2>1, <2>2, <2>3, OwedBy
  <1> QED BY <1>2, <1>3

LEMMA CutOffStep ==
  ASSUME DropInv, [Next]_vars
  PROVE  CutOff'
  <1> SUFFICES ASSUME NEW c \in conns', c.revoked \/ c.ip \in blocked'
               PROVE  Owed(c.ip)'
    BY DEF CutOff, RemovedUsersCutOff, BlockedIpsCutOff
  <1>1. Types
    BY DEF DropInv
  <1>2. \A k \in conns : k.revoked \/ k.ip \in blocked => Owed(k.ip)
    BY DEF DropInv, CutOff, RemovedUsersCutOff, BlockedIpsCutOff
  <1>3. CASE UNCHANGED <<conns, blocked, req, block, drop>>
    BY <1>2, <1>3 DEF Owed
  <1>4. ASSUME NEW r \in Requests, NEW kind, NEW u \in Users, NEW at, Receive(r, kind, u, at)
        PROVE  Owed(c.ip)'
    <2>1. \A q \in Requests : RequestOwes(q, c.ip) => RequestOwes(q, c.ip)'
      BY <1>1, <1>4 DEF Receive, Types, RequestOwes, Idle
    <2> QED BY <1>2, <1>4, <2>1 DEF Receive, events, network, Owed, RequestOwes
  <1>5. ASSUME NEW r \in Requests, GetUserIps(r)
        PROVE  Owed(c.ip)'
    <2>1. \A q \in Requests : RequestOwes(q, c.ip) => RequestOwes(q, c.ip)'
      BY <1>1, <1>5 DEF GetUserIps, Types, RequestOwes
    <2> QED BY <1>2, <1>5, <2>1 DEF GetUserIps, events, network, Owed, RequestOwes
  <1>6. ASSUME NEW r \in Requests, RemoveFromCore(r)
        PROVE  Owed(c.ip)'
    <2>1. req[r] \in UserRequest
      BY <1>1, <1>6 DEF RemoveFromCore, Types, Idle
    <2>2. req' = [req EXCEPT ![r] = [req[r] EXCEPT !.at = "removed"]]
      BY <1>6 DEF RemoveFromCore
    <2>3. req'[r].at = "removed" /\ req'[r].ips = req[r].ips
      BY <1>1, <2>1, <2>2 DEF Types, UserRequest
    <2>4. \A q \in Requests : RequestOwes(q, c.ip) => RequestOwes(q, c.ip)'
      BY <1>1, <2>2, <2>3 DEF Types, RequestOwes
    <2>5. PICK k \in conns : k.ip = c.ip /\ (c = k \/ k.ip \in req[r].ips)
      BY <1>1, <1>6 DEF RemoveFromCore, Types, Connections
    <2>6. CASE c = k
      BY <1>2, <1>6, <2>4, <2>6 DEF RemoveFromCore, Owed, RequestOwes
    <2>7. CASE k.ip \in req[r].ips
      BY <2>3, <2>5, <2>7 DEF Owed
    <2> QED BY <2>5, <2>6, <2>7
  <1>7. ASSUME NEW r \in Requests, Removed(r)
        PROVE  Owed(c.ip)'
    <2>1. req[r] \in UserRequest /\ req[r].ips \in SUBSET Ips /\ req[r] # Idle
      BY <1>1, <1>7 DEF Removed, Types, Idle, UserRequest
    <2>2. capable \/ req[r].ips = {}
      BY <2>1 DEF DropInv, Powerless
    <2>3. c \in conns /\ Owed(c.ip)
      BY <1>1, <1>2, <1>7, <2>1, EventServes DEF Removed, network
    <2>4. \A q \in Requests :
            RequestOwes(q, c.ip) => c.ip \in req[r].ips \/ RequestOwes(q, c.ip)'
      BY <1>1, <1>7 DEF Removed, Types, RequestOwes
    <2>5. \A b \in Blocks : BlockOwes(b, c.ip) => BlockOwes(b, c.ip)'
      BY <1>7 DEF Removed, BlockOwes
    <2>6. Publish(req[r].ips)
      BY <1>7 DEF Removed
    <2> QED BY <1>1, <2>1, <2>2, <2>3, <2>4, <2>5, <2>6, EventOwes
  <1>8. ASSUME NEW r \in Requests, AddToCore(r)
        PROVE  Owed(c.ip)'
    <2>1. \A q \in Requests : RequestOwes(q, c.ip) => RequestOwes(q, c.ip)'
      BY <1>1, <1>8 DEF AddToCore, Types, RequestOwes
    <2> QED BY <1>2, <1>8, <2>1 DEF AddToCore, events, Owed, RequestOwes
  <1>9. ASSUME NEW b \in Blocks, NEW ip, NEW todo, NEW torrent,
               block[b] = Idle, BeginBlock(b, ip, todo, torrent), UNCHANGED <<network, req, events>>
        PROVE  Owed(c.ip)'
    <2>1. \A a \in Blocks : BlockOwes(a, c.ip) => BlockOwes(a, c.ip)'
      BY <1>1, <1>9 DEF BeginBlock, Types, BlockOwes, Idle
    <2> QED BY <1>2, <1>9, <2>1 DEF events, network, Owed, BlockOwes
  <1>10. ASSUME NEW b \in Blocks, AddAddress(b)
         PROVE  Owed(c.ip)'
    <2>1. block[b] \in Blocking /\ block[b].at = "add"
      BY <1>1, <1>10 DEF AddAddress, Types, Idle
    <2>2. block' = [block EXCEPT ![b] = [block[b] EXCEPT !.at = "added"]]
      BY <1>10 DEF AddAddress
    <2>3. block'[b].at = "added" /\ block'[b].ip = block[b].ip
      BY <1>1, <2>1, <2>2 DEF Types, Blocking
    <2>4. \A a \in Blocks : BlockOwes(a, c.ip) => BlockOwes(a, c.ip)'
      BY <1>1, <2>1, <2>2 DEF Types, BlockOwes
    <2>5. CASE c.ip = block[b].ip
      BY <2>3, <2>5 DEF Owed
    <2>6. CASE c.ip # block[b].ip
      BY <1>2, <1>10, <2>4, <2>6 DEF AddAddress, events, Owed, BlockOwes
    <2> QED BY <2>5, <2>6
  <1>11. ASSUME NEW b \in Blocks, AddAddressFails(b)
         PROVE  Owed(c.ip)'
    <2>1. \A a \in Blocks : BlockOwes(a, c.ip) => BlockOwes(a, c.ip)'
      BY <1>1, <1>11 DEF AddAddressFails, Types, BlockOwes
    <2> QED BY <1>2, <1>11, <2>1 DEF AddAddressFails, events, network, Owed, BlockOwes
  <1>12. ASSUME NEW b \in Blocks, AddressAdded(b)
         PROVE  Owed(c.ip)'
    <2>1. block[b] \in Blocking /\ block[b] # Idle
      BY <1>1, <1>12 DEF AddressAdded, Types, Idle
    <2>2. {block[b].ip} \in SUBSET Ips
      BY <2>1 DEF Blocking
    <2>3. capable
      BY <2>1 DEF DropInv, Powerless
    <2>4. Publish({block[b].ip})
      BY <1>12 DEF AddressAdded
    <2>5. c \in conns /\ Owed(c.ip)
      BY <1>1, <1>2, <1>12, <2>2, <2>4, EventServes DEF AddressAdded, network
    <2>6. \A a \in Blocks :
            BlockOwes(a, c.ip) => c.ip \in {block[b].ip} \/ BlockOwes(a, c.ip)'
      <3> SUFFICES ASSUME NEW a \in Blocks, a # b, BlockOwes(a, c.ip) PROVE BlockOwes(a, c.ip)'
        BY DEF BlockOwes
      <3>1. block'[a] = block[a]
        BY <1>1, <1>12 DEF AddressAdded, NextBlock, BeginBlock, Types
      <3> QED BY <3>1 DEF BlockOwes
    <2>7. \A q \in Requests : RequestOwes(q, c.ip) => RequestOwes(q, c.ip)'
      BY <1>12 DEF AddressAdded, RequestOwes
    <2> QED BY <1>1, <2>2, <2>3, <2>4, <2>5, <2>6, <2>7, EventOwes
  <1>13. ASSUME NEW d \in Drops, KillSockets(d) \/ KillSocketsFails(d)
         PROVE  Owed(c.ip)'
    <2>1. c \in conns /\ \A e \in Drops : Killed(e, c.ip) => Killed(e, c.ip)'
      BY <1>1, <1>13, HandlerServes
    <2>2. Owed(c.ip)
      BY <1>2, <1>13, <2>1 DEF KillSockets, KillSocketsFails, network
    <2>3. UNCHANGED <<req, block>>
      BY <1>13 DEF KillSockets, KillSocketsFails
    <2> QED BY <2>1, <2>2, <2>3 DEF Owed, Killed
  <1>14. ASSUME NEW ips \in SUBSET Ips, DropIps(ips)
         PROVE  Owed(c.ip)'
    <2>1. c \in conns /\ Owed(c.ip)
      BY <1>1, <1>2, <1>14, EventServes DEF DropIps, network
    <2>2. UNCHANGED <<req, block>>
      BY <1>14 DEF DropIps
    <2>3. CASE capable
      BY <1>1, <1>14, <2>1, <2>2, <2>3, EventOwes DEF DropIps, RequestOwes, BlockOwes
    <2>4. CASE ~capable
      <3>1. UNCHANGED events
        BY <1>14, <2>4 DEF DropIps, Publish
      <3> QED BY <2>1, <2>2, <3>1 DEF events, Owed
    <2> QED BY <2>3, <2>4
  <1>15. CASE UNCHANGED <<conns, req, block, drop>> /\ blocked' \subseteq blocked
    BY <1>2, <1>15 DEF Owed
  <1>16. ASSUME NEW u \in Users, NEW ip \in Ips, Connect(u, ip)
         PROVE  Owed(c.ip)'
    <2>1. c \in conns
      BY <1>16 DEF Connect, network
    <2> QED BY <1>2, <1>16, <2>1 DEF Connect, network, Owed
  <1>17. ASSUME NEW k \in conns, Disconnect(k)
         PROVE  Owed(c.ip)'
    BY <1>2, <1>17 DEF Disconnect, network, Owed
  <1>18. ASSUME NEW b \in Blocks,
                \/ \E ip \in Ips : Webhook(b, ip)
                \/ \E ips \in SUBSET Ips : BlockIps(b, ips)
         PROVE  Owed(c.ip)'
    BY <1>9, <1>18 DEF Webhook, BlockIps
  <1>19. CASE SyncTable \/ \E ips \in SUBSET Ips : Unblock(ips)
    BY <1>15, <1>19 DEF SyncTable, Unblock, events
  <1>20. CASE \/ UNCHANGED vars \/ CollectReports \/ SyncResets
              \/ \E ips \in Whitelists, on \in BOOLEAN : SyncFills(ips, on)
    BY <1>3, <1>20 DEF vars, network, events, CollectReports, SyncResets, SyncFills
  <1> QED
    BY <1>4, <1>5, <1>6, <1>7, <1>8, <1>10, <1>11, <1>12, <1>13, <1>14, <1>16, <1>17, <1>18, <1>19,
       <1>20
    DEF Next, ReceiveUser, ReceiveAdd

LEMMA DropInvAlways == Spec => []DropInv
  <1>1. Init => Powerless /\ CutOff
    BY DEF Init, Powerless, CutOff, RemovedUsersCutOff, BlockedIpsCutOff
  <1>2. Types /\ Types' /\ Powerless /\ CutOff /\ [Next]_vars => (Powerless /\ CutOff)'
    BY PowerlessStep, CutOffStep DEF DropInv
  <1>3. Spec => [](Powerless /\ CutOff)
    BY <1>1, <1>2, TypesAlways, PTL DEF Spec
  <1> QED BY <1>3, TypesAlways, PTL DEF DropInv

\* A removed user keeps no connection from an address xray had listed, unless
\* an event that has yet to be handled, or is being published, cuts it off.
THEOREM RemovedCutOff == Spec => []RemovedUsersCutOff
  <1>1. DropInv => RemovedUsersCutOff
    BY DEF DropInv, CutOff
  <1> QED BY <1>1, DropInvAlways, PTL

\* The same of an address in the torrent blocker's set.
THEOREM BlockedCutOff == Spec => []BlockedIpsCutOff
  <1>1. DropInv => BlockedIpsCutOff
    BY DEF DropInv, CutOff
  <1> QED BY <1>1, DropInvAlways, PTL
=============================================================================
