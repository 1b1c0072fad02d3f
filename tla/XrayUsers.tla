----------------------------- MODULE XrayUsers -----------------------------
(***************************************************************************)
(* Adding and removing users of a running xray core: HandlerService, and   *)
(* the users InternalService keeps per inbound, whose hash tells at the    *)
(* next start whether the core already runs what the panel wants.          *)
(*                                                                         *)
(* A uuid stands for one user with one set of credentials.  Each gRPC call *)
(* to xray is two steps: its effect on the core, and the code that runs    *)
(* when the answer is back.  The panel is the environment.                 *)
(***************************************************************************)
EXTENDS Naturals, FiniteSets

CONSTANTS
    Requests,        \* slots for user requests served concurrently
    Tags,            \* the inbounds
    Uuids,
    UserOf,          \* the user (its name, called email by xray) of each uuid
    Movable,         \* the users that requests may be about
    InitialPanel,    \* the users per inbound, as the panel has them at first
    MaxUsers,        \* users in a bulk request
    Rpc              \* whether a call to a running core may fail

Users == {UserOf[i] : i \in Uuids}

ASSUME UserOfAssumption == DOMAIN UserOf = Uuids
ASSUME MovableAssumption == Movable \subseteq Users
ASSUME PanelAssumption == InitialPanel \in [Tags -> SUBSET Uuids]
\* A user has one set of credentials at a time, the same in all its inbounds.
ASSUME CredentialsAssumption ==
    \A t, s \in Tags : \A i \in InitialPanel[t], j \in InitialPanel[s] :
        UserOf[i] = UserOf[j] => i = j
ASSUME MaxUsersAssumption == MaxUsers \in Nat
ASSUME RpcAssumption == Rpc \in BOOLEAN

VARIABLES
    panel,    \* the users the panel wants in each inbound
    hash,     \* InternalService.inboundsHashMap: the users of an inbound
    mapped,   \* the keys of inboundsHashMap
    xtls,     \* InternalService.xtlsConfigInbounds
    up,       \* whether xray runs
    core,     \* the users xray serves in each inbound
    failed,   \* a call to a running xray failed since it was started
    start,    \* the last start: where it waits, if it is in progress, its
              \*   configuration, and the users of requests that overlapped it
    req       \* per request: what it does and where it waits

registry == <<hash, mapped, xtls>>
vars == <<panel, registry, up, core, failed, start, req>>

\* One user of a request: the uuid it had, the one it gets, its inbounds.
Items == [prev : Uuids, next : Uuids, tags : SUBSET Tags]

\* await: between two users; sweep, swept: removing from inbound tag, before
\* and after the effect; insert, inserted: the same for adding.
Awaits == {"idle", "await", "sweep", "swept", "insert", "inserted"}
NoUsers == [t \in Tags |-> {}]
AnyTag == CHOOSE t \in Tags : TRUE  \* where tag means nothing

Idle == [at |-> "idle"]
Request == [at : Awaits \ {"idle"}, adds : BOOLEAN, todo : SUBSET Items, item : Items,
            visited : SUBSET Tags, tag : Tags, pending : SUBSET Tags]

TypeOK ==
    /\ panel \in [Tags -> SUBSET Uuids]
    /\ hash \in [Tags -> SUBSET Uuids]
    /\ mapped \subseteq Tags
    /\ xtls \subseteq Tags
    /\ up \in BOOLEAN
    /\ core \in [Tags -> SUBSET Uuids]
    /\ failed \in BOOLEAN
    /\ start \in [at : {"idle", "extracted", "stopped"}, config : [Tags -> SUBSET Uuids],
                 raced : SUBSET Users]
    /\ req \in [Requests -> {Idle} \cup Request]

Init ==
    /\ panel = InitialPanel
    /\ hash = NoUsers /\ mapped = {} /\ xtls = {}
    /\ up = FALSE /\ core = NoUsers /\ failed = FALSE
    /\ start = [at |-> "idle", config |-> NoUsers, raced |-> {}]
    /\ req = [r \in Requests |-> Idle]

At(r, at) == req[r].at = at
Without(users, u) == {i \in users : UserOf[i] # u}

-----------------------------------------------------------------------------
(* The panel. *)

\* The users a request in progress is about.
ItemUser(item) == UserOf[item.next]
Busy(r) == IF At(r, "idle") THEN {} ELSE {ItemUser(m) : m \in req[r].todo \cup {req[r].item}}

\* It sends nothing about a user the node is still busy with.
NotBusy(items) ==
    \A q \in Requests : Busy(q) \cap {ItemUser(m) : m \in items} = {}

Overlap(items) ==
    start' = IF start.at = "idle" THEN start
             ELSE [start EXCEPT !.raced = @ \cup {ItemUser(m) : m \in items}]

Listed(u) == {i \in UNION {panel[t] : t \in Tags} : UserOf[i] = u}

\* The panel gives user u the uuid next and the inbounds tags.  It tells the
\* uuid it replaces, if it replaces one.
AddItems(u) ==
    {[prev |-> IF Listed(u) = {} THEN next ELSE CHOOSE i \in Listed(u) : TRUE,
      next |-> next, tags |-> tags] :
        next \in {i \in Uuids : UserOf[i] = u}, tags \in (SUBSET Tags) \ {{}}}

RemoveItems(u) == {[prev |-> i, next |-> i, tags |-> {}] : i \in Listed(u)}

\* One item per user of a set of users.
OnePerUser(ItemsOf(_)) ==
    {items \in SUBSET UNION {ItemsOf(u) : u \in Movable} :
        /\ items # {} /\ Cardinality(items) <= MaxUsers
        /\ \A m, n \in items : ItemUser(m) = ItemUser(n) => m = n}

Want(items) ==
    panel' = [t \in Tags |->
                {i \in panel[t] : \A m \in items : UserOf[i] # ItemUser(m)}
                  \cup {m.next : m \in {n \in items : t \in n.tags}}]

-----------------------------------------------------------------------------
(* The registry: InternalService. *)

\* (mutant) adds the user's name where the hash wants the uuid
AddNameToInbound(t, i) ==
    /\ hash' = [hash EXCEPT ![t] = @ \cup {UserOf[i]}]
    /\ mapped' = mapped \cup {t}

AddUserToInbound(t, i) ==
    /\ hash' = [hash EXCEPT ![t] = @ \cup {i}]
    /\ mapped' = mapped \cup {t}

\* An inbound that has no user left is forgotten: it is not swept any more.
RemoveUserFromInbound(t, i) ==
    IF t \in mapped
    THEN LET emptied == hash[t] \ {i} = {} IN
         /\ hash' = [hash EXCEPT ![t] = @ \ {i}]
         /\ mapped' = IF emptied THEN mapped \ {t} ELSE mapped
         /\ xtls' = IF emptied THEN xtls \ {t} ELSE xtls
    ELSE UNCHANGED registry

-----------------------------------------------------------------------------
(* addUser, addUsers, removeUser, removeUsers. *)

Begin(r, adds, items) ==
    req' = [req EXCEPT ![r] =
              [at |-> "await", adds |-> adds, todo |-> items, item |-> CHOOSE m \in items : TRUE,
               visited |-> {}, tag |-> AnyTag, pending |-> {}]]

\* (mutant) the inbounds of the users are not registered
ReceiveAddUnregistered(r) ==
    /\ At(r, "idle")
    /\ \E items \in OnePerUser(AddItems) :
        /\ NotBusy(items)
        /\ Want(items) /\ Overlap(items)
        /\ Begin(r, TRUE, items)
        /\ UNCHANGED <<registry, up, core, failed>>

\* The inbounds of all users of the request are registered at once.
ReceiveAdd(r) ==
    /\ At(r, "idle")
    /\ \E items \in OnePerUser(AddItems) :
        /\ NotBusy(items)
        /\ Want(items) /\ Overlap(items)
        /\ xtls' = xtls \cup UNION {m.tags : m \in items}
        /\ Begin(r, TRUE, items)
        /\ UNCHANGED <<hash, mapped, up, core, failed>>

\* With no inbound registered there is nothing to do, and success is answered.
ReceiveRemove(r) ==
    /\ At(r, "idle")
    /\ \E items \in OnePerUser(RemoveItems) :
        /\ NotBusy(items)
        /\ Want(items) /\ Overlap(items)
        /\ IF xtls = {} THEN UNCHANGED req ELSE Begin(r, FALSE, items)
        /\ UNCHANGED <<registry, up, core, failed>>

\* The loop over the live set getXtlsConfigInbounds(): an inbound that is
\* deleted and registered again is visited again.
Sweep(q, tags) ==
    IF tags \subseteq q.visited
    THEN LET swept == [q EXCEPT !.visited = {}, !.tag = AnyTag] IN
         {IF q.adds THEN [swept EXCEPT !.at = "insert", !.pending = q.item.tags]
                    ELSE [swept EXCEPT !.at = "await"]}
    ELSE {[q EXCEPT !.at = "sweep", !.tag = t, !.visited = @ \cup {t}] :
             t \in tags \ q.visited}

NextUser(r) ==
    /\ At(r, "await") /\ req[r].todo # {}
    /\ \E item \in req[r].todo :
         \E q \in Sweep([req[r] EXCEPT !.item = item, !.todo = @ \ {item},
                                       !.visited = {}], xtls) :
            req' = [req EXCEPT ![r] = q]
    /\ UNCHANGED <<panel, registry, up, core, failed, start>>

\* A call to xray fails, or xray is not up.
CallFails == (~up /\ UNCHANGED failed) \/ (up /\ Rpc /\ failed' = TRUE)

\* (mutant) only the inbounds the user is going to be in are swept
RemoveFromNewInbounds(r) ==
    /\ At(r, "sweep")
    /\ core' = IF up /\ (req[r].adds => req[r].tag \in req[r].item.tags)
               THEN [core EXCEPT ![req[r].tag] = Without(@, ItemUser(req[r].item))]
               ELSE core
    /\ req' = [req EXCEPT ![r].at = "swept"]
    /\ UNCHANGED <<panel, registry, up, failed, start>>

RemoveFromCore(r) ==
    /\ At(r, "sweep")
    /\ \/ /\ core' = [core EXCEPT ![req[r].tag] = Without(@, ItemUser(req[r].item))]
          /\ UNCHANGED failed
       \/ CallFails /\ UNCHANGED core
    /\ req' = [req EXCEPT ![r].at = "swept"]
    /\ UNCHANGED <<panel, registry, up, start>>

\* What the other requests see of a change of the live set.
Revisit(r, q, tags) ==
    req' = [s \in Requests |->
              IF s = r THEN q
              ELSE IF At(s, "idle") THEN req[s]
              ELSE [req[s] EXCEPT !.visited = @ \cap tags]]

\* (mutant) an update leaves the user in the hashes of its old inbounds
KeepWhenAdding(r) ==
    /\ At(r, "swept")
    /\ IF req[r].adds THEN UNCHANGED registry
                      ELSE RemoveUserFromInbound(req[r].tag, req[r].item.prev)
    /\ \E q \in Sweep([req[r] EXCEPT !.visited = @ \cap xtls'], xtls') : Revisit(r, q, xtls')
    /\ UNCHANGED <<panel, up, core, failed, start>>

\* (mutant) the new uuid is removed, and not the one it replaces
RemoveNewUuid(r) ==
    /\ At(r, "swept")
    /\ RemoveUserFromInbound(req[r].tag, req[r].item.next)
    /\ \E q \in Sweep([req[r] EXCEPT !.visited = @ \cap xtls'], xtls') : Revisit(r, q, xtls')
    /\ UNCHANGED <<panel, up, core, failed, start>>

RemoveFromRegistry(r) ==
    /\ At(r, "swept")
    /\ RemoveUserFromInbound(req[r].tag, req[r].item.prev)
    /\ \E q \in Sweep([req[r] EXCEPT !.visited = @ \cap xtls'], xtls') : Revisit(r, q, xtls')
    /\ UNCHANGED <<panel, up, core, failed, start>>

\* xray refuses a second account of the same user in an inbound.
AddToCore(r) ==
    /\ At(r, "insert")
    /\ \E t \in req[r].pending :
         LET q == [req[r] EXCEPT !.tag = t, !.pending = @ \ {t}]
             accepted == up /\ Without(core[t], ItemUser(q.item)) = core[t]
         IN \/ /\ accepted
               /\ core' = [core EXCEPT ![t] = @ \cup {q.item.next}]
               /\ UNCHANGED failed
               /\ req' = [req EXCEPT ![r] = [q EXCEPT !.at = "inserted"]]
            \/ /\ (~accepted /\ UNCHANGED failed) \/ CallFails
               /\ req' = [req EXCEPT ![r] = [q EXCEPT !.tag = AnyTag]]
               /\ UNCHANGED core
    /\ UNCHANGED <<panel, registry, up, start>>

AddToRegistry(r) ==
    /\ At(r, "inserted")
    /\ AddUserToInbound(req[r].tag, req[r].item.next)
    /\ req' = [req EXCEPT ![r].at = "insert", ![r].tag = AnyTag]
    /\ UNCHANGED <<panel, xtls, up, core, failed, start>>

UserInserted(r) ==
    /\ At(r, "insert") /\ req[r].pending = {}
    /\ req' = [req EXCEPT ![r].at = "await"]
    /\ UNCHANGED <<panel, registry, up, core, failed, start>>

Answer(r) ==
    /\ At(r, "await") /\ req[r].todo = {}
    /\ req' = [req EXCEPT ![r] = Idle]
    /\ UNCHANGED <<panel, registry, up, core, failed, start>>

-----------------------------------------------------------------------------
(* A start of the core that restarts it, in XrayService.startXray. *)

\* extractUsersFromConfig, at the point where the panel's request arrives.
ExtractUsersFromConfig ==
    /\ start.at = "idle"
    /\ start' = [at |-> "extracted", config |-> panel, raced |-> UNION {Busy(r) : r \in Requests}]
    /\ hash' = panel /\ mapped' = Tags /\ xtls' = Tags
    /\ req' = [r \in Requests |-> IF At(r, "idle") THEN Idle
                                  ELSE [req[r] EXCEPT !.visited = {}]]
    /\ UNCHANGED <<panel, up, core, failed>>

StopCore ==
    /\ start.at = "extracted"
    /\ start' = [start EXCEPT !.at = "stopped"]
    /\ up' = FALSE /\ core' = NoUsers
    /\ UNCHANGED <<panel, registry, failed, req>>

StartCore ==
    /\ start.at = "stopped"
    /\ start' = [start EXCEPT !.at = "idle", !.config = NoUsers]
    /\ up' = TRUE /\ core' = start.config /\ failed' = FALSE
    /\ UNCHANGED <<panel, registry, req>>

Next ==
    \/ ExtractUsersFromConfig \/ StopCore \/ StartCore
    \/ \E r \in Requests :
         \/ ReceiveAdd(r) \/ ReceiveRemove(r) \/ NextUser(r)
         \/ RemoveFromCore(r) \/ RemoveFromRegistry(r)
         \/ AddToCore(r) \/ AddToRegistry(r) \/ UserInserted(r) \/ Answer(r)

Spec == Init /\ [][Next]_vars

-----------------------------------------------------------------------------
(* Properties. *)

\* No request about the user is in progress, and none overlapped the last start.
Settled(i) == \A r \in Requests : UserOf[i] \notin Busy(r)
Undisturbed(i) == Settled(i) /\ UserOf[i] \notin start.raced

\* Between two starts.
Running == up /\ start.at = "idle"

\* The inbounds that a user stays in whom no request is about: they never
\* lose their last user.
Kept == {t \in Tags : \E i \in InitialPanel[t] : UserOf[i] \notin Movable}

\* Once the requests about a user are answered, xray serves that user in the
\* kept inbounds the panel chose, with the credentials the panel chose, and in
\* no other kept inbound, whatever requests about other users do meanwhile, and
\* whatever start those overlapped.
CoreServesPanel ==
    Running /\ ~failed => \A t \in Kept, i \in Uuids :
             Undisturbed(i) => (i \in core[t] <=> i \in panel[t])

\* And the hashes the node keeps of them are those of the users xray serves.
RegistryKnowsCore ==
    Running /\ ~failed => \A t \in Kept, i \in Uuids :
             Undisturbed(i) => (i \in hash[t] <=> i \in core[t])

\* An inbound that lost its last user is forgotten, and still a user whose
\* addition was answered is served everywhere the panel chose.
AddedUsersServed ==
    Running /\ ~failed => \A t \in Tags : \A i \in panel[t] : Undisturbed(i) => i \in core[t]

\* Whatever calls fail, the hashes of a kept inbound promise no user that xray
\* does not serve, but for the users of requests that overlapped the start: a
\* start skipped because they match leaves no other user out.
HashedUsersServed ==
    Running => \A t \in Kept : \A i \in hash[t] : Undisturbed(i) => i \in core[t]

\* A user whose removal was answered is served nowhere.
RemovedUsersGone ==
    Running => \A t \in Tags : \A i \in core[t] :
             Undisturbed(i) => Listed(UserOf[i]) # {}
=============================================================================
