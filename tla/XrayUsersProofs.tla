--------------------------- MODULE XrayUsersProofs ---------------------------
(***************************************************************************)
(* Proofs about XrayUsers for any number of requests, inbounds and users.  *)
(***************************************************************************)
EXTENDS XrayUsers, TLAPS

-----------------------------------------------------------------------------
(* Types *)

LEMMA SweepType ==
  ASSUME NEW q \in Request, NEW tags \in SUBSET Tags, NEW s \in Sweep(q, tags), Tags # {}
  PROVE  /\ s \in Request
         /\ s.adds = q.adds /\ s.todo = q.todo /\ s.item = q.item
         /\ \/ /\ tags \subseteq q.visited
               /\ \/ q.adds /\ s.at = "insert" /\ s.pending = q.item.tags
                  \/ ~q.adds /\ s.at = "await"
            \/ /\ s.at = "sweep" /\ s.tag \in tags \ q.visited
               /\ s.visited = q.visited \cup {s.tag}
  <1>1. AnyTag \in Tags
    BY DEF AnyTag
  <1>2. q.item.tags \in SUBSET Tags
    BY DEF Request, Items
  <1>3. CASE tags \subseteq q.visited
    <2>1. CASE q.adds
      <3>1. s = [q EXCEPT !.visited = {}, !.tag = AnyTag, !.at = "insert", !.pending = q.item.tags]
        BY <1>3, <2>1 DEF Sweep, Request
      <3> QED BY <1>1, <1>2, <1>3, <2>1, <3>1 DEF Request, Awaits
    <2>2. CASE ~q.adds
      <3>1. s = [q EXCEPT !.visited = {}, !.tag = AnyTag, !.at = "await"]
        BY <1>3, <2>2 DEF Sweep, Request
      <3> QED BY <1>1, <1>3, <2>2, <3>1 DEF Request, Awaits
    <2> QED BY <2>1, <2>2
  <1>4. CASE ~(tags \subseteq q.visited)
    <2>1. PICK t \in tags \ q.visited :
            s = [q EXCEPT !.at = "sweep", !.tag = t, !.visited = @ \cup {t}]
      BY <1>4 DEF Sweep
    <2> QED BY <2>1 DEF Request, Awaits
  <1> QED BY <1>3, <1>4

LEMMA ListedType ==
  ASSUME TypeOK, NEW u
  PROVE  Listed(u) \subseteq Uuids /\ (Listed(u) # {} => Tags # {}) /\ \A i \in Listed(u) : UserOf[i] = u
  BY DEF Listed, TypeOK

LEMMA AddItemsType ==
  ASSUME TypeOK, NEW u, NEW m \in AddItems(u)
  PROVE  m \in Items /\ Tags # {} /\ ItemUser(m) = u /\ UserOf[m.prev] = u
         /\ (Listed(u) # {} => m.prev \in Listed(u))
  <1>1. PICK next \in {i \in Uuids : UserOf[i] = u}, tags \in (SUBSET Tags) \ {{}} :
          m = [prev |-> IF Listed(u) = {} THEN next ELSE CHOOSE i \in Listed(u) : TRUE,
               next |-> next, tags |-> tags]
    BY DEF AddItems
  <1>2. Listed(u) # {} => (CHOOSE i \in Listed(u) : TRUE) \in Listed(u)
    OBVIOUS
  <1> QED BY <1>1, <1>2, ListedType DEF Items, ItemUser

LEMMA RemoveItemsType ==
  ASSUME TypeOK, NEW u, NEW m \in RemoveItems(u)
  PROVE  m \in Items /\ Tags # {} /\ ItemUser(m) = u /\ m.tags = {} /\ m.prev \in Listed(u)
         /\ UserOf[m.prev] = u
  BY ListedType DEF RemoveItems, Items, ItemUser

\* What the items of a new request are like.
Sent(items, adds) ==
    /\ items \subseteq Items /\ items # {} /\ Tags # {}
    /\ \A m, n \in items : ItemUser(m) = ItemUser(n) => m = n
    /\ \A m \in items : /\ ItemUser(m) \in Movable /\ UserOf[m.prev] = ItemUser(m)
                        /\ Listed(ItemUser(m)) # {} => m.prev \in Listed(ItemUser(m))
                        /\ ~adds => m.tags = {}

LEMMA SentType ==
  ASSUME TypeOK
  PROVE  /\ \A items \in OnePerUser(AddItems) : Sent(items, TRUE)
         /\ \A items \in OnePerUser(RemoveItems) : Sent(items, FALSE)
  <1>1. ASSUME NEW items \in OnePerUser(AddItems)
        PROVE  Sent(items, TRUE)
    <2>1. /\ items \subseteq UNION {AddItems(u) : u \in Movable} /\ items # {}
          /\ \A m, n \in items : ItemUser(m) = ItemUser(n) => m = n
      BY <1>1 DEF OnePerUser
    <2>2. \A m \in items : \E u \in Movable : m \in AddItems(u)
      BY <2>1
    <2> QED BY <2>1, <2>2, AddItemsType DEF Sent
  <1>2. ASSUME NEW items \in OnePerUser(RemoveItems)
        PROVE  Sent(items, FALSE)
    <2>1. /\ items \subseteq UNION {RemoveItems(u) : u \in Movable} /\ items # {}
          /\ \A m, n \in items : ItemUser(m) = ItemUser(n) => m = n
      BY <1>2 DEF OnePerUser
    <2>2. \A m \in items : \E u \in Movable : m \in RemoveItems(u)
      BY <2>1
    <2> QED BY <2>1, <2>2, RemoveItemsType DEF Sent
  <1> QED BY <1>1, <1>2

LEMMA BeginType ==
  ASSUME TypeOK, NEW r \in Requests, NEW adds \in BOOLEAN, NEW items, Sent(items, adds), Begin(r, adds, items)
  PROVE  /\ req' \in [Requests -> {Idle} \cup Request]
         /\ \A s \in Requests \ {r} : req'[s] = req[s]
         /\ req'[r].at = "await" /\ req'[r].todo = items /\ req'[r].item \in items
         /\ req'[r].adds = adds
  <1> DEFINE item == CHOOSE m \in items : TRUE
             q == [at |-> "await", adds |-> adds, todo |-> items, item |-> item,
                   visited |-> {}, tag |-> AnyTag, pending |-> {}]
  <1>1. item \in items /\ AnyTag \in Tags
    BY DEF Sent, AnyTag
  <1>2. q \in Request
    <2> HIDE DEF item
    <2> QED BY <1>1 DEF Sent, Request, Awaits
  <1>3. req' = [req EXCEPT ![r] = q]
    BY DEF Begin
  <1>4. q.at = "await" /\ q.todo = items /\ q.item = item /\ q.adds = adds
    OBVIOUS
  <1> HIDE DEF q, item
  <1> QED BY <1>1, <1>2, <1>3, <1>4 DEF TypeOK

LEMMA WantType ==
  ASSUME TypeOK, NEW items \in SUBSET Items, Want(items)
  PROVE  /\ panel' \in [Tags -> SUBSET Uuids]
         /\ \A t \in Tags, i \in Uuids :
              i \in panel'[t] <=> \/ i \in panel[t] /\ \A m \in items : UserOf[i] # ItemUser(m)
                                  \/ \E m \in items : t \in m.tags /\ i = m.next
  <1>1. panel \in [Tags -> SUBSET Uuids] /\ \A m \in items : m.next \in Uuids
    BY DEF TypeOK, Items
  <1> QED BY <1>1 DEF Want

LEMMA ActiveType ==
  ASSUME TypeOK, NEW r \in Requests
  PROVE  /\ At(r, "idle") <=> req[r] = Idle
         /\ ~At(r, "idle") => /\ req[r] \in Request /\ req[r].item \in Items
                              /\ req[r].todo \subseteq Items /\ Tags # {}
                              /\ req[r].tag \in Tags /\ req[r].visited \subseteq Tags
                              /\ req[r].pending \subseteq Tags /\ req[r].adds \in BOOLEAN
  BY DEF TypeOK, At, Idle, Request

\* How a request goes on with the user it is at: q is what becomes of it.
Goes(r, q) ==
    /\ q \in Request /\ req'[r] = q
    /\ q.adds = req[r].adds /\ q.todo = req[r].todo /\ q.item = req[r].item

\* The others: they may have to visit an inbound again.
OthersStay(r) ==
    /\ DOMAIN req' = Requests /\ req' = [s \in Requests |-> req'[s]]
    /\ \A s \in Requests \ {r} : req'[s] = req[s]

LEMMA NextUserGoes ==
  ASSUME TypeOK, NEW r \in Requests, NextUser(r)
  PROVE  \E item \in req[r].todo, q \in Request :
           /\ req'[r] = q /\ OthersStay(r)
           /\ q.adds = req[r].adds /\ q.todo = req[r].todo \ {item} /\ q.item = item
           /\ \/ /\ xtls = {}
                 /\ \/ q.adds /\ q.at = "insert" /\ q.pending = item.tags
                    \/ ~q.adds /\ q.at = "await"
              \/ q.at = "sweep" /\ q.tag \in xtls /\ q.visited = {q.tag}
  <1>1. PICK item \in req[r].todo :
          \E q \in Sweep([req[r] EXCEPT !.item = item, !.todo = @ \ {item}, !.visited = {}], xtls) :
             req' = [req EXCEPT ![r] = q]
    BY DEF NextUser
  <1> DEFINE p == [req[r] EXCEPT !.item = item, !.todo = @ \ {item}, !.visited = {}]
  <1>2. ~At(r, "idle")
    BY DEF NextUser, At
  <1>3. p \in Request /\ p.adds = req[r].adds /\ p.todo = req[r].todo \ {item} /\ p.item = item
        /\ p.visited = {}
    BY <1>2, ActiveType DEF Request
  <1>4. PICK q \in Sweep(p, xtls) : req' = [req EXCEPT ![r] = q]
    BY <1>1
  <1>5. req'[r] = q /\ OthersStay(r)
    BY <1>4 DEF TypeOK, OthersStay
  <1>6. xtls \in SUBSET Tags /\ Tags # {}
    BY <1>2, ActiveType DEF TypeOK
  <1> HIDE DEF p
  <1> QED BY <1>3, <1>5, <1>6, SweepType

LEMMA RemoveFromCoreGoes ==
  ASSUME TypeOK, NEW r \in Requests, RemoveFromCore(r)
  PROVE  /\ OthersStay(r) /\ Goes(r, req'[r])
         /\ req'[r].at = "swept" /\ req'[r].tag = req[r].tag /\ req'[r].visited = req[r].visited
  <1>1. req[r] \in Request
    BY ActiveType DEF RemoveFromCore, At
  <1> QED BY <1>1 DEF RemoveFromCore, Goes, OthersStay, TypeOK, Request, Awaits

LEMMA RegistryType ==
  ASSUME TypeOK, NEW t \in Tags, NEW i \in Uuids, RemoveUserFromInbound(t, i)
  PROVE  /\ hash' \in [Tags -> SUBSET Uuids] /\ mapped' \subseteq Tags /\ xtls' \subseteq Tags
         /\ \A s \in Tags, j \in Uuids :
              /\ s # t \/ j # i => (j \in hash'[s] <=> j \in hash[s])
              /\ s = t /\ j = i => j \notin hash'[s] \/ t \notin mapped
         /\ \A s \in Tags : \/ (s \in xtls' <=> s \in xtls) /\ (s \in mapped' <=> s \in mapped)
                            \/ s = t /\ hash[s] \ {i} = {}
  <1>1. CASE t \notin mapped
    BY <1>1 DEF RemoveUserFromInbound, registry, TypeOK
  <1>2. CASE t \in mapped
    <2>1. hash' = [hash EXCEPT ![t] = @ \ {i}]
      BY <1>2 DEF RemoveUserFromInbound
    <2>2. CASE hash[t] \ {i} = {}
      <3>1. mapped' = mapped \ {t} /\ xtls' = xtls \ {t}
        BY <1>2, <2>2 DEF RemoveUserFromInbound
      <3> QED BY <2>1, <2>2, <3>1 DEF TypeOK
    <2>3. CASE hash[t] \ {i} # {}
      <3>1. mapped' = mapped /\ xtls' = xtls
        BY <1>2, <2>3 DEF RemoveUserFromInbound
      <3> QED BY <2>1, <3>1 DEF TypeOK
    <2> QED BY <2>2, <2>3
  <1> QED BY <1>1, <1>2

\* What another request sees when the set of inbounds shrinks.
Sees(s) ==
    \/ req'[s] = req[s]
    \/ /\ ~At(s, "idle") /\ req'[s] \in Request
       /\ req'[s] = [req[s] EXCEPT !.visited = @ \cap xtls']

LEMMA RemoveFromRegistryGoes ==
  ASSUME TypeOK, NEW r \in Requests, RemoveFromRegistry(r)
  PROVE  /\ DOMAIN req' = Requests /\ req' = [s \in Requests |-> req'[s]]
         /\ \A s \in Requests \ {r} : Sees(s)
         /\ Goes(r, req'[r])
         /\ \/ /\ xtls' \subseteq req[r].visited
               /\ \/ req[r].adds /\ req'[r].at = "insert" /\ req'[r].pending = req[r].item.tags
                  \/ ~req[r].adds /\ req'[r].at = "await"
            \/ /\ req'[r].at = "sweep" /\ req'[r].tag \in xtls' \ req[r].visited
               /\ req'[r].visited = (req[r].visited \cap xtls') \cup {req'[r].tag}
  <1>1. req[r] \in Request /\ req[r].tag \in Tags /\ req[r].item.prev \in Uuids /\ Tags # {}
        /\ ~At(r, "idle")
    BY ActiveType DEF RemoveFromRegistry, At, Items
  <1>2. xtls' \subseteq Tags
    BY <1>1, RegistryType DEF RemoveFromRegistry
  <1> DEFINE p == [req[r] EXCEPT !.visited = @ \cap xtls']
  <1>3. p \in Request /\ p.adds = req[r].adds /\ p.todo = req[r].todo /\ p.item = req[r].item
        /\ p.visited = req[r].visited \cap xtls'
    BY <1>1 DEF Request
  <1>4. PICK q \in Sweep(p, xtls') : Revisit(r, q, xtls')
    BY DEF RemoveFromRegistry
  <1>5. DOMAIN req' = Requests /\ req' = [s \in Requests |-> req'[s]] /\ req'[r] = q
    BY <1>4 DEF Revisit
  <1>6. ASSUME NEW s \in Requests \ {r}
        PROVE  Sees(s)
    <2>1. CASE At(s, "idle")
      BY <1>4, <2>1 DEF Revisit, Sees
    <2>2. CASE ~At(s, "idle")
      <3>1. req'[s] = [req[s] EXCEPT !.visited = @ \cap xtls']
        BY <1>4, <2>2 DEF Revisit
      <3> QED BY <2>2, <3>1, ActiveType DEF Sees, Request
    <2> QED BY <2>1, <2>2
  <1> HIDE DEF p
  <1>7. q \in Request /\ q.adds = p.adds /\ q.todo = p.todo /\ q.item = p.item
        /\ \/ /\ xtls' \subseteq p.visited
              /\ \/ q.adds /\ q.at = "insert" /\ q.pending = q.item.tags
                 \/ ~q.adds /\ q.at = "await"
           \/ /\ q.at = "sweep" /\ q.tag \in xtls' \ p.visited
              /\ q.visited = p.visited \cup {q.tag}
    BY <1>1, <1>2, <1>3, <1>4, SweepType
  <1> QED BY <1>3, <1>5, <1>6, <1>7 DEF Goes

LEMMA AddToCoreGoes ==
  ASSUME TypeOK, NEW r \in Requests, AddToCore(r)
  PROVE  \E t \in req[r].pending :
           /\ t \in Tags /\ OthersStay(r) /\ Goes(r, req'[r])
           /\ req'[r].pending = req[r].pending \ {t}
           /\ \/ /\ up /\ Without(core[t], ItemUser(req[r].item)) = core[t]
                 /\ core' = [core EXCEPT ![t] = @ \cup {req[r].item.next}]
                 /\ UNCHANGED failed
                 /\ req'[r].at = "inserted" /\ req'[r].tag = t
              \/ /\ ~up \/ Without(core[t], ItemUser(req[r].item)) # core[t] \/ failed'
                 /\ UNCHANGED core /\ (failed' = failed \/ failed' = TRUE)
                 /\ req'[r].at = "insert"
  <1>1. req[r] \in Request /\ Tags # {}
    BY ActiveType DEF AddToCore, At
  <1>2. PICK t \in req[r].pending :
         LET q == [req[r] EXCEPT !.tag = t, !.pending = @ \ {t}]
             accepted == up /\ Without(core[t], ItemUser(q.item)) = core[t]
         IN \/ /\ accepted
               /\ core' = [core EXCEPT ![t] = @ \cup {q.item.next}]
               /\ UNCHANGED failed
               /\ req' = [req EXCEPT ![r] = [q EXCEPT !.at = "inserted"]]
            \/ /\ (~accepted /\ UNCHANGED failed) \/ CallFails
               /\ req' = [req EXCEPT ![r] = [q EXCEPT !.tag = AnyTag]]
               /\ UNCHANGED core
    BY DEF AddToCore
  <1> DEFINE q == [req[r] EXCEPT !.tag = t, !.pending = @ \ {t}]
             accepted == up /\ Without(core[t], ItemUser(q.item)) = core[t]
  <1>3. /\ t \in Tags /\ AnyTag \in Tags
        /\ q \in Request /\ q.adds = req[r].adds /\ q.todo = req[r].todo /\ q.item = req[r].item
        /\ q.pending = req[r].pending \ {t} /\ q.tag = t /\ q.at = "insert"
    BY <1>1 DEF Request, AnyTag, AddToCore, At
  <1>4. CASE /\ accepted
             /\ core' = [core EXCEPT ![t] = @ \cup {q.item.next}]
             /\ UNCHANGED failed
             /\ req' = [req EXCEPT ![r] = [q EXCEPT !.at = "inserted"]]
    <2>1. OthersStay(r) /\ req'[r] = [q EXCEPT !.at = "inserted"]
      BY <1>4 DEF OthersStay, TypeOK
    <2> HIDE DEF q
    <2>2. /\ req'[r] \in Request /\ req'[r].adds = q.adds /\ req'[r].todo = q.todo
          /\ req'[r].item = q.item /\ req'[r].at = "inserted" /\ req'[r].tag = t
          /\ req'[r].pending = q.pending
      BY <1>3, <2>1 DEF Request, Awaits
    <2> QED BY <1>3, <1>4, <2>1, <2>2 DEF Goes
  <1>5. CASE /\ (~accepted /\ UNCHANGED failed) \/ CallFails
             /\ req' = [req EXCEPT ![r] = [q EXCEPT !.tag = AnyTag]]
             /\ UNCHANGED core
    <2>1. OthersStay(r) /\ req'[r] = [q EXCEPT !.tag = AnyTag]
      BY <1>5 DEF OthersStay, TypeOK
    <2>2. ~up \/ Without(core[t], ItemUser(q.item)) # core[t] \/ failed'
      BY <1>5 DEF CallFails
    <2>3. failed' = failed \/ failed' = TRUE
      BY <1>5 DEF CallFails
    <2> HIDE DEF q
    <2>4. /\ req'[r] \in Request /\ req'[r].adds = q.adds /\ req'[r].todo = q.todo
          /\ req'[r].item = q.item /\ req'[r].at = "insert" /\ req'[r].pending = q.pending
      BY <1>3, <2>1 DEF Request, Awaits
    <2> QED BY <1>3, <1>5, <2>1, <2>2, <2>3, <2>4 DEF Goes
  <1> QED BY <1>2, <1>4, <1>5

LEMMA AddToRegistryGoes ==
  ASSUME TypeOK, NEW r \in Requests, AddToRegistry(r)
  PROVE  /\ OthersStay(r) /\ Goes(r, req'[r])
         /\ req'[r].at = "insert" /\ req'[r].pending = req[r].pending
         /\ req[r].tag \in Tags /\ req[r].item.next \in Uuids
         /\ hash' = [hash EXCEPT ![req[r].tag] = @ \cup {req[r].item.next}]
         /\ mapped' = mapped \cup {req[r].tag}
  <1>1. req[r] \in Request /\ req[r].tag \in Tags /\ req[r].item.next \in Uuids /\ Tags # {}
    BY ActiveType DEF AddToRegistry, At, Items
  <1>2. AnyTag \in Tags
    BY <1>1 DEF AnyTag
  <1>3. req' = [req EXCEPT ![r] = [req[r] EXCEPT !.at = "insert", !.tag = AnyTag]]
    BY DEF AddToRegistry
  <1>4. OthersStay(r) /\ req'[r] = [req[r] EXCEPT !.at = "insert", !.tag = AnyTag]
    BY <1>3 DEF OthersStay, TypeOK
  <1>5. Goes(r, req'[r]) /\ req'[r].at = "insert" /\ req'[r].pending = req[r].pending
    BY <1>1, <1>2, <1>4 DEF Goes, Request, Awaits
  <1> QED BY <1>1, <1>4, <1>5 DEF AddToRegistry, AddUserToInbound

LEMMA UserInsertedGoes ==
  ASSUME TypeOK, NEW r \in Requests, UserInserted(r)
  PROVE  OthersStay(r) /\ Goes(r, req'[r]) /\ req'[r].at = "await"
  <1>1. req[r] \in Request
    BY ActiveType DEF UserInserted, At
  <1> QED BY <1>1 DEF UserInserted, Goes, OthersStay, TypeOK, Request, Awaits

LEMMA TypesInit == Init => TypeOK
  <1> SUFFICES ASSUME Init PROVE TypeOK
    OBVIOUS
  <1>1. NoUsers \in [Tags -> SUBSET Uuids]
    BY DEF NoUsers
  <1>2. start \in [at : {"idle", "extracted", "stopped"}, config : [Tags -> SUBSET Uuids],
                  raced : SUBSET Users]
    BY <1>1 DEF Init
  <1> QED BY <1>1, <1>2, PanelAssumption DEF Init, TypeOK

LEMMA ReqType ==
  ASSUME TypeOK, NEW r \in Requests, req'[r] \in {Idle} \cup Request,
         DOMAIN req' = Requests, req' = [s \in Requests |-> req'[s]],
         \A s \in Requests \ {r} : Sees(s)
  PROVE  req' \in [Requests -> {Idle} \cup Request]
  <1>1. \A s \in Requests : req'[s] \in {Idle} \cup Request
    BY DEF TypeOK, Sees
  <1> QED BY <1>1

\* A request received while a start is in progress overlaps it.
LEMMA OverlapType ==
  ASSUME TypeOK, NEW items \in SUBSET Items, Overlap(items)
  PROVE  /\ start' \in [at : {"idle", "extracted", "stopped"}, config : [Tags -> SUBSET Uuids],
                        raced : SUBSET Users]
         /\ start'.at = start.at /\ start'.config = start.config
         /\ start.at = "idle" => UNCHANGED start
         /\ start.at # "idle" =>
              start'.raced = start.raced \cup {ItemUser(m) : m \in items}
  <1>1. {ItemUser(m) : m \in items} \subseteq Users
    BY DEF ItemUser, Users, Items
  <1> DEFINE more == {ItemUser(m) : m \in items}
  <1> HIDE DEF more
  <1>2. start' = IF start.at = "idle" THEN start ELSE [start EXCEPT !.raced = @ \cup more]
    BY DEF Overlap, more
  <1>3. more \subseteq Users
    BY <1>1 DEF more
  <1> QED BY <1>2, <1>3 DEF TypeOK, more

LEMMA BusyType ==
  ASSUME TypeOK, NEW r \in Requests
  PROVE  Busy(r) \subseteq Users
  <1>1. CASE At(r, "idle")
    BY <1>1 DEF Busy
  <1>2. CASE ~At(r, "idle")
    <2>1. \A m \in req[r].todo \cup {req[r].item} : m \in Items
      BY <1>2, ActiveType
    <2>2. \A m \in Items : ItemUser(m) \in Users
      BY DEF ItemUser, Items, Users
    <2> QED BY <2>1, <2>2 DEF Busy
  <1> QED BY <1>1, <1>2

LEMMA TypesStep == TypeOK /\ [Next]_vars => TypeOK'
  <1> SUFFICES ASSUME TypeOK, [Next]_vars PROVE TypeOK'
    OBVIOUS
  <1>1. CASE UNCHANGED vars
    BY <1>1 DEF vars, registry, TypeOK
  <1>2. CASE ExtractUsersFromConfig
    <2>1. req' \in [Requests -> {Idle} \cup Request]
      <3>1. \A r \in Requests : ~At(r, "idle") => [req[r] EXCEPT !.visited = {}] \in Request
        BY ActiveType DEF Request
      <3> QED BY <1>2, <3>1 DEF ExtractUsersFromConfig
    <2>2. (UNION {Busy(r) : r \in Requests}) \subseteq Users
      BY BusyType
    <2>3. start' \in [at : {"idle", "extracted", "stopped"}, config : [Tags -> SUBSET Uuids],
                      raced : SUBSET Users]
      BY <1>2, <2>2 DEF ExtractUsersFromConfig, TypeOK
    <2> QED BY <1>2, <2>1, <2>3 DEF ExtractUsersFromConfig, TypeOK
  <1>3. CASE StopCore \/ StartCore
    BY <1>3 DEF StopCore, StartCore, registry, NoUsers, TypeOK
  <1>4. ASSUME NEW r \in Requests, ReceiveAdd(r)
        PROVE  TypeOK'
    <2>1. PICK items \in OnePerUser(AddItems) :
            /\ Want(items) /\ Overlap(items)
            /\ xtls' = xtls \cup UNION {m.tags : m \in items}
            /\ Begin(r, TRUE, items)
            /\ UNCHANGED <<hash, mapped, up, core, failed>>
      BY <1>4 DEF ReceiveAdd
    <2>2. Sent(items, TRUE)
      BY SentType
    <2>3. xtls' \subseteq Tags
      BY <2>1, <2>2 DEF Sent, Items, TypeOK
    <2>4. req' \in [Requests -> {Idle} \cup Request]
      BY <2>1, <2>2, BeginType
    <2>5. panel' \in [Tags -> SUBSET Uuids]
      BY <2>1, <2>2, WantType DEF Sent
    <2> QED BY <2>1, <2>2, <2>3, <2>4, <2>5, OverlapType DEF TypeOK, Sent
  <1>5. ASSUME NEW r \in Requests, ReceiveRemove(r)
        PROVE  TypeOK'
    <2>1. PICK items \in OnePerUser(RemoveItems) :
            /\ Want(items) /\ Overlap(items)
            /\ UNCHANGED req \/ Begin(r, FALSE, items)
            /\ UNCHANGED <<registry, up, core, failed>>
      BY <1>5 DEF ReceiveRemove
    <2>2. Sent(items, FALSE)
      BY SentType
    <2>3. req' \in [Requests -> {Idle} \cup Request]
      BY <2>1, <2>2, BeginType DEF TypeOK
    <2>4. panel' \in [Tags -> SUBSET Uuids]
      BY <2>1, <2>2, WantType DEF Sent
    <2> QED BY <2>1, <2>2, <2>3, <2>4, OverlapType DEF TypeOK, registry, Sent
  <1>6. ASSUME NEW r \in Requests, NextUser(r)
        PROVE  TypeOK'
    <2>1. req'[r] \in Request /\ OthersStay(r)
      BY <1>6, NextUserGoes
    <2>2. req' \in [Requests -> {Idle} \cup Request]
      BY <2>1, ReqType DEF OthersStay, Sees
    <2> QED BY <1>6, <2>2 DEF NextUser, TypeOK, registry
  <1>7. ASSUME NEW r \in Requests, RemoveFromCore(r)
        PROVE  TypeOK'
    <2>1. req' \in [Requests -> {Idle} \cup Request]
      BY <1>7, RemoveFromCoreGoes, ReqType DEF OthersStay, Sees, Goes
    <2>2. core' \in [Tags -> SUBSET Uuids] /\ failed' \in BOOLEAN
      BY <1>7 DEF RemoveFromCore, Without, CallFails, TypeOK
    <2> QED BY <1>7, <2>1, <2>2 DEF RemoveFromCore, TypeOK, registry
  <1>8. ASSUME NEW r \in Requests, RemoveFromRegistry(r)
        PROVE  TypeOK'
    <2>1. req' \in [Requests -> {Idle} \cup Request]
      BY <1>8, RemoveFromRegistryGoes, ReqType DEF Goes
    <2>2. hash' \in [Tags -> SUBSET Uuids] /\ mapped' \subseteq Tags /\ xtls' \subseteq Tags
      <3>1. req[r].tag \in Tags /\ req[r].item.prev \in Uuids
        BY <1>8, ActiveType DEF RemoveFromRegistry, At, Items
      <3> QED BY <1>8, <3>1, RegistryType DEF RemoveFromRegistry
    <2> QED BY <1>8, <2>1, <2>2 DEF RemoveFromRegistry, TypeOK
  <1>9. ASSUME NEW r \in Requests, AddToCore(r)
        PROVE  TypeOK'
    <2>1. PICK t \in req[r].pending :
            /\ t \in Tags /\ OthersStay(r) /\ Goes(r, req'[r])
            /\ \/ core' = [core EXCEPT ![t] = @ \cup {req[r].item.next}]
               \/ UNCHANGED core
            /\ failed' = failed \/ failed' = TRUE
      BY <1>9, AddToCoreGoes
    <2>2. req' \in [Requests -> {Idle} \cup Request]
      BY <2>1, ReqType DEF OthersStay, Sees, Goes
    <2>3. req[r].item.next \in Uuids
      BY <1>9, ActiveType DEF AddToCore, At, Items
    <2>4. core' \in [Tags -> SUBSET Uuids]
      <3>1. core \in [Tags -> SUBSET Uuids]
        BY DEF TypeOK
      <3> QED BY <2>1, <2>3, <3>1
    <2>5. failed' \in BOOLEAN
      BY <2>1 DEF TypeOK
    <2> QED BY <1>9, <2>2, <2>4, <2>5 DEF AddToCore, TypeOK, registry
  <1>10. ASSUME NEW r \in Requests, AddToRegistry(r)
         PROVE  TypeOK'
    <2>1. req' \in [Requests -> {Idle} \cup Request]
      BY <1>10, AddToRegistryGoes, ReqType DEF OthersStay, Sees, Goes
    <2>2. hash' \in [Tags -> SUBSET Uuids] /\ mapped' \subseteq Tags
      BY <1>10, AddToRegistryGoes DEF TypeOK
    <2> QED BY <1>10, <2>1, <2>2 DEF AddToRegistry, TypeOK
  <1>11. ASSUME NEW r \in Requests, UserInserted(r)
         PROVE  TypeOK'
    <2>1. req' \in [Requests -> {Idle} \cup Request]
      BY <1>11, UserInsertedGoes, ReqType DEF OthersStay, Sees, Goes
    <2> QED BY <1>11, <2>1 DEF UserInserted, TypeOK, registry
  <1>12. ASSUME NEW r \in Requests, Answer(r)
         PROVE  TypeOK'
    BY <1>12 DEF Answer, TypeOK, registry
  <1> QED
    BY <1>1, <1>2, <1>3, <1>4, <1>5, <1>6, <1>7, <1>8, <1>9, <1>10, <1>11, <1>12 DEF Next

\* The variables keep their types, for any number of requests and users.
THEOREM RequestsTypeCorrect == Spec => []TypeOK
  BY TypesInit, TypesStep, PTL DEF Spec

-----------------------------------------------------------------------------
(* Requests and the panel: a user is in one request, which has what the panel *)
(* wants of it.                                                              *)

\* The panel gives a user one uuid.
OneUuid ==
    \A t, s \in Tags : \A i \in panel[t], j \in panel[s] : UserOf[i] = UserOf[j] => i = j

Wanted(m) ==
    \A t \in Tags, i \in Uuids :
        UserOf[i] = ItemUser(m) => (i \in panel[t] <=> t \in m.tags /\ i = m.next)

ItemsOK(q) ==
    LET items == q.todo \cup {q.item} IN
    /\ \A m \in items : /\ UserOf[m.prev] = ItemUser(m) /\ ItemUser(m) \in Movable
                        /\ ~q.adds => m.tags = {}
    /\ \A m, n \in items : ItemUser(m) = ItemUser(n) => m = n
    /\ q.at # "await" => q.item \notin q.todo
    /\ q.at \in {"insert", "inserted"} => q.pending \subseteq q.item.tags
    /\ q.at = "inserted" => q.tag \in q.item.tags \ q.pending

ItemsKept ==
    \A r \in Requests : ~At(r, "idle") =>
        /\ ItemsOK(req[r])
        /\ \A m \in req[r].todo \cup {req[r].item} : Wanted(m)

Disjoint == \A r, q \in Requests : r # q => Busy(r) \cap Busy(q) = {}

PanelInv == OneUuid /\ ItemsKept /\ Disjoint

LEMMA PanelInit == Init => PanelInv
  <1> SUFFICES ASSUME Init PROVE PanelInv
    OBVIOUS
  <1>1. \A r \in Requests : At(r, "idle") /\ Busy(r) = {}
    BY DEF Init, At, Busy, Idle
  <1> QED BY <1>1, CredentialsAssumption DEF Init, PanelInv, OneUuid, ItemsKept, Disjoint

\* A step that changes no request's users.
Walks ==
    /\ UNCHANGED panel
    /\ \A r \in Requests :
         /\ At(r, "idle")' <=> At(r, "idle")
         /\ ~At(r, "idle") => /\ req'[r].adds = req[r].adds /\ req'[r].todo = req[r].todo
                              /\ req'[r].item = req[r].item

LEMMA WalksBusy ==
  ASSUME Walks
  PROVE  /\ \A r \in Requests : Busy(r)' = Busy(r)
         /\ \A i \in Uuids : Settled(i)' <=> Settled(i)
  <1>1. \A r \in Requests : Busy(r)' = Busy(r)
    BY DEF Walks, Busy, ItemUser
  <1> QED BY <1>1 DEF Settled

LEMMA WalksPanel ==
  ASSUME PanelInv, Walks,
         \A r \in Requests : ~At(r, "idle") => ItemsOK(req'[r])
  PROVE  PanelInv'
  <1>1. OneUuid'
    BY DEF PanelInv, OneUuid, Walks
  <1>2. ItemsKept'
    <2>1. \A m : Wanted(m) => Wanted(m)'
      BY DEF Walks, Wanted, ItemUser
    <2>2. \A q : ItemsOK(q) => ItemsOK(q)'
      BY DEF ItemsOK, ItemUser
    <2> SUFFICES ASSUME NEW r \in Requests, ~At(r, "idle")'
                 PROVE  ItemsOK(req[r])' /\ \A m \in (req[r].todo \cup {req[r].item})' : Wanted(m)'
      BY DEF ItemsKept
    <2>3. ~At(r, "idle") /\ req'[r].todo = req[r].todo /\ req'[r].item = req[r].item
      BY DEF Walks
    <2> QED BY <2>1, <2>3 DEF PanelInv, ItemsKept, ItemsOK, ItemUser
  <1>3. Disjoint'
    BY WalksBusy DEF PanelInv, Disjoint
  <1> QED BY <1>1, <1>2, <1>3 DEF PanelInv

LEMMA OthersWalk ==
  ASSUME TypeOK, PanelInv, UNCHANGED panel, NEW r \in Requests, ~At(r, "idle"),
         \A s \in Requests \ {r} : Sees(s),
         Goes(r, req'[r]), ItemsOK(req'[r])
  PROVE  Walks /\ \A s \in Requests : ~At(s, "idle") => ItemsOK(req'[s])
  <1>1. ASSUME NEW s \in Requests \ {r}
        PROVE  /\ At(s, "idle")' <=> At(s, "idle")
               /\ ~At(s, "idle") => /\ req'[s].adds = req[s].adds /\ req'[s].todo = req[s].todo
                                    /\ req'[s].item = req[s].item /\ ItemsOK(req'[s])
    <2>1. CASE req'[s] = req[s]
      BY <2>1 DEF PanelInv, ItemsKept, At
    <2>2. CASE ~At(s, "idle") /\ req'[s] = [req[s] EXCEPT !.visited = @ \cap xtls']
      <3>1. /\ req'[s].at = req[s].at /\ req'[s].adds = req[s].adds /\ req'[s].todo = req[s].todo
            /\ req'[s].item = req[s].item /\ req'[s].pending = req[s].pending /\ req'[s].tag = req[s].tag
        BY <2>2, ActiveType DEF Request
      <3>2. ItemsOK(req[s])
        BY <2>2 DEF PanelInv, ItemsKept
      <3> QED BY <2>2, <3>1, <3>2 DEF ItemsOK, At
    <2> QED BY <2>1, <2>2 DEF Sees
  <1>2. ~At(r, "idle")'
    BY DEF Goes, At, Request
  <1> QED BY <1>1, <1>2 DEF Walks, Goes

LEMMA OthersSee ==
  ASSUME NEW r \in Requests, OthersStay(r)
  PROVE  \A s \in Requests \ {r} : Sees(s)
  BY DEF OthersStay, Sees

LEMMA StepWalks ==
  ASSUME TypeOK, PanelInv, NEW r \in Requests,
         \/ RemoveFromCore(r) \/ RemoveFromRegistry(r) \/ AddToCore(r)
         \/ AddToRegistry(r) \/ UserInserted(r)
  PROVE  Walks /\ PanelInv' /\ ~At(r, "idle") /\ req[r].item \notin req[r].todo
  <1>1. UNCHANGED panel /\ ~At(r, "idle") /\ ~At(r, "await")
    BY DEF RemoveFromCore, RemoveFromRegistry, AddToCore, AddToRegistry, UserInserted, At
  <1>2. ItemsOK(req[r])
    BY <1>1 DEF PanelInv, ItemsKept
  <1>3. /\ \A s \in Requests \ {r} : Sees(s)
        /\ Goes(r, req'[r]) /\ ItemsOK(req'[r])
    <2>1. CASE RemoveFromCore(r)
      BY <1>1, <1>2, <2>1, RemoveFromCoreGoes, OthersSee DEF Goes, ItemsOK, At
    <2>2. CASE RemoveFromRegistry(r)
      BY <1>1, <1>2, <2>2, RemoveFromRegistryGoes DEF Goes, ItemsOK, At
    <2>3. CASE AddToCore(r)
      <3>1. At(r, "insert")
        BY <2>3 DEF AddToCore
      <3>2. PICK t \in req[r].pending :
               /\ OthersStay(r) /\ Goes(r, req'[r])
               /\ req'[r].pending = req[r].pending \ {t}
               /\ \/ req'[r].at = "inserted" /\ req'[r].tag = t
                  \/ req'[r].at = "insert"
        BY <2>3, AddToCoreGoes
      <3> QED BY <1>1, <1>2, <3>1, <3>2, OthersSee DEF Goes, ItemsOK, At
    <2>4. CASE AddToRegistry(r)
      <3>1. At(r, "inserted")
        BY <2>4 DEF AddToRegistry
      <3> QED BY <1>1, <1>2, <2>4, <3>1, AddToRegistryGoes, OthersSee DEF Goes, ItemsOK, At
    <2>5. CASE UserInserted(r)
      BY <1>1, <1>2, <2>5, UserInsertedGoes, OthersSee DEF Goes, ItemsOK, At
    <2> QED BY <2>1, <2>2, <2>3, <2>4, <2>5
  <1>4. Walks /\ \A s \in Requests : ~At(s, "idle") => ItemsOK(req'[s])
    BY <1>1, <1>3, OthersWalk
  <1> QED BY <1>1, <1>2, <1>4, WalksPanel DEF ItemsOK, At

LEMMA NextUserPanel ==
  ASSUME TypeOK, PanelInv, NEW r \in Requests, NextUser(r)
  PROVE  PanelInv'
  <1>1. PICK item \in req[r].todo, q \in Request :
           /\ req'[r] = q /\ OthersStay(r)
           /\ q.adds = req[r].adds /\ q.todo = req[r].todo \ {item} /\ q.item = item
           /\ q.at \in {"insert", "await", "sweep"} /\ (q.at = "insert" => q.pending = item.tags)
    BY NextUserGoes
  <1>2. UNCHANGED panel /\ ~At(r, "idle") /\ ~At(r, "idle")'
    BY <1>1 DEF NextUser, At
  <1>3. OneUuid'
    BY <1>2 DEF PanelInv, OneUuid
  <1>4. ItemsKept'
    <2>1. \A m : Wanted(m) => Wanted(m)'
      BY <1>2 DEF Wanted, ItemUser
    <2>2. ItemsOK(q)
      BY <1>1, <1>2 DEF PanelInv, ItemsKept, ItemsOK
    <2>3. ASSUME NEW s \in Requests, ~At(s, "idle")'
          PROVE  ItemsOK(req'[s]) /\ \A m \in req'[s].todo \cup {req'[s].item} : Wanted(m)'
      <3>1. CASE s = r
        BY <1>1, <1>2, <2>1, <2>2, <3>1 DEF PanelInv, ItemsKept
      <3>2. CASE s # r
        BY <1>1, <2>1, <2>3, <3>2 DEF PanelInv, ItemsKept, OthersStay, At
      <3> QED BY <3>1, <3>2
    <2> QED BY <2>3 DEF ItemsKept, ItemsOK, ItemUser
  <1>5. Disjoint'
    <2>1. Busy(r)' \subseteq Busy(r)
      BY <1>1, <1>2 DEF Busy, ItemUser
    <2>2. \A s \in Requests \ {r} : Busy(s)' = Busy(s)
      BY <1>1 DEF Busy, ItemUser, OthersStay, At
    <2> QED BY <2>1, <2>2 DEF PanelInv, Disjoint
  <1> QED BY <1>3, <1>4, <1>5 DEF PanelInv

LEMMA AnswerPanel ==
  ASSUME TypeOK, PanelInv, NEW r \in Requests, Answer(r)
  PROVE  PanelInv'
  <1>1. UNCHANGED panel /\ req'[r] = Idle /\ \A s \in Requests \ {r} : req'[s] = req[s]
    BY DEF Answer, TypeOK
  <1>2. At(r, "idle")' /\ Busy(r)' = {}
    BY <1>1 DEF At, Idle, Busy
  <1>3. \A s \in Requests \ {r} : Busy(s)' = Busy(s)
    BY <1>1 DEF Busy, ItemUser, At
  <1> QED BY <1>1, <1>2, <1>3
          DEF PanelInv, OneUuid, ItemsKept, ItemsOK, Wanted, ItemUser, Disjoint, At

LEMMA WantPanel ==
  ASSUME TypeOK, PanelInv, NEW adds \in BOOLEAN, NEW items, Sent(items, adds),
         NotBusy(items), Want(items)
  PROVE  /\ OneUuid'
         /\ \A m \in items : Wanted(m)'
         /\ \A r \in Requests : ~At(r, "idle") =>
              \A m \in req[r].todo \cup {req[r].item} : Wanted(m)'
  <1>1. \A t \in Tags, i \in Uuids :
          i \in panel'[t] <=> \/ i \in panel[t] /\ \A m \in items : UserOf[i] # ItemUser(m)
                              \/ \E m \in items : t \in m.tags /\ i = m.next
    BY WantType DEF Sent
  <1>2. \A m, n \in items : ItemUser(m) = ItemUser(n) => m = n
    BY DEF Sent
  <1>3. panel' \in [Tags -> SUBSET Uuids]
    BY WantType DEF Sent
  <1>4. OneUuid'
    <2> SUFFICES ASSUME NEW t \in Tags, NEW s \in Tags, NEW i \in panel'[t], NEW j \in panel'[s],
                        UserOf[i] = UserOf[j]
                 PROVE  i = j
      BY DEF OneUuid
    <2>1. i \in Uuids /\ j \in Uuids
      BY <1>3
    <2> QED BY <1>1, <1>2, <2>1 DEF PanelInv, OneUuid, ItemUser
  <1>5. ASSUME NEW m \in items
        PROVE  Wanted(m)'
    <2> SUFFICES ASSUME NEW t \in Tags, NEW i \in Uuids, UserOf[i] = ItemUser(m)
                 PROVE  i \in panel'[t] <=> t \in m.tags /\ i = m.next
      BY DEF Wanted, ItemUser
    <2> QED BY <1>1, <1>2, <1>5 DEF ItemUser
  <1>6. ASSUME NEW r \in Requests, ~At(r, "idle"), NEW m \in req[r].todo \cup {req[r].item}
        PROVE  Wanted(m)'
    <2>1. ItemUser(m) \in Busy(r)
      BY <1>6 DEF Busy
    <2>2. \A n \in items : ItemUser(n) # ItemUser(m)
      BY <2>1 DEF NotBusy
    <2>3. Wanted(m)
      BY <1>6 DEF PanelInv, ItemsKept
    <2> SUFFICES ASSUME NEW t \in Tags, NEW i \in Uuids, UserOf[i] = ItemUser(m)
                 PROVE  i \in panel'[t] <=> t \in m.tags /\ i = m.next
      BY DEF Wanted, ItemUser
    <2> QED BY <1>1, <2>2, <2>3 DEF Wanted, ItemUser
  <1> QED BY <1>4, <1>5, <1>6

LEMMA BeginPanel ==
  ASSUME TypeOK, PanelInv, NEW r \in Requests, NEW adds \in BOOLEAN, NEW items, Sent(items, adds),
         At(r, "idle"), NotBusy(items), Want(items), Begin(r, adds, items)
  PROVE  PanelInv'
  <1>1. /\ \A s \in Requests \ {r} : req'[s] = req[s]
        /\ req'[r].at = "await" /\ req'[r].todo = items /\ req'[r].item \in items
        /\ req'[r].adds = adds
    BY BeginType
  <1>2. ItemsKept'
    <2> SUFFICES ASSUME NEW s \in Requests, ~At(s, "idle")'
                 PROVE  ItemsOK(req[s])' /\ \A m \in (req[s].todo \cup {req[s].item})' : Wanted(m)'
      BY DEF ItemsKept
    <2>1. CASE s = r
      BY <1>1, <2>1, WantPanel DEF Sent, ItemsOK, ItemUser
    <2>2. CASE s # r
      BY <1>1, <2>2, WantPanel DEF PanelInv, ItemsKept, ItemsOK, ItemUser, At
    <2> QED BY <2>1, <2>2
  <1>3. Disjoint'
    <2>1. Busy(r)' = {ItemUser(m) : m \in items}
      BY <1>1 DEF Busy, ItemUser, At
    <2>2. \A s \in Requests \ {r} : Busy(s)' = Busy(s)
      BY <1>1 DEF Busy, ItemUser, At
    <2> QED BY <2>1, <2>2 DEF PanelInv, Disjoint, NotBusy
  <1> QED BY <1>2, <1>3, WantPanel DEF PanelInv

LEMMA ReceivePanel ==
  ASSUME TypeOK, PanelInv, NEW r \in Requests, ReceiveAdd(r) \/ ReceiveRemove(r)
  PROVE  PanelInv'
  <1>1. At(r, "idle")
    BY DEF ReceiveAdd, ReceiveRemove
  <1>2. CASE ReceiveAdd(r)
    <2>1. PICK items \in OnePerUser(AddItems) :
            NotBusy(items) /\ Want(items) /\ Begin(r, TRUE, items)
      BY <1>2 DEF ReceiveAdd
    <2> QED BY <1>1, <2>1, SentType, BeginPanel
  <1>3. CASE ReceiveRemove(r)
    <2>1. PICK items \in OnePerUser(RemoveItems) :
            NotBusy(items) /\ Want(items) /\ (UNCHANGED req \/ Begin(r, FALSE, items))
      BY <1>3 DEF ReceiveRemove
    <2>2. Sent(items, FALSE)
      BY SentType
    <2>3. CASE UNCHANGED req
      <3>1. /\ OneUuid'
            /\ \A s \in Requests : ~At(s, "idle") =>
                 \A m \in req[s].todo \cup {req[s].item} : Wanted(m)'
        BY <2>1, <2>2, WantPanel
      <3>2. ItemsKept'
        BY <2>3, <3>1 DEF PanelInv, ItemsKept, ItemsOK, ItemUser, At
      <3>3. Disjoint'
        BY <2>3 DEF PanelInv, Disjoint, Busy, ItemUser, At
      <3> QED BY <3>1, <3>2, <3>3 DEF PanelInv
    <2> QED BY <1>1, <2>1, <2>2, <2>3, BeginPanel
  <1> QED BY <1>2, <1>3

LEMMA StartWalks ==
  ASSUME TypeOK, PanelInv, ExtractUsersFromConfig \/ StopCore \/ StartCore \/ UNCHANGED vars
  PROVE  Walks /\ PanelInv'
  <1>1. UNCHANGED panel
    BY DEF ExtractUsersFromConfig, StopCore, StartCore, vars
  <1>2. ASSUME NEW r \in Requests
        PROVE  /\ At(r, "idle")' <=> At(r, "idle")
               /\ ~At(r, "idle") => /\ req'[r].adds = req[r].adds /\ req'[r].todo = req[r].todo
                                    /\ req'[r].item = req[r].item /\ req'[r].at = req[r].at
                                    /\ req'[r].tag = req[r].tag /\ req'[r].pending = req[r].pending
    <2>1. CASE ExtractUsersFromConfig
      <3>1. req'[r] = IF At(r, "idle") THEN Idle ELSE [req[r] EXCEPT !.visited = {}]
        BY <2>1 DEF ExtractUsersFromConfig
      <3> QED BY <3>1, ActiveType DEF At, Idle, Request
    <2>2. CASE StopCore \/ StartCore \/ UNCHANGED vars
      BY <2>2 DEF StopCore, StartCore, vars, At
    <2> QED BY <2>1, <2>2
  <1>3. Walks
    BY <1>1, <1>2 DEF Walks
  <1>4. \A r \in Requests : ~At(r, "idle") => ItemsOK(req'[r])
    BY <1>2 DEF PanelInv, ItemsKept, ItemsOK
  <1> QED BY <1>3, <1>4, WalksPanel

LEMMA PanelStep == TypeOK /\ PanelInv /\ [Next]_vars => PanelInv'
  BY StartWalks, StepWalks, NextUserPanel, AnswerPanel, ReceivePanel DEF Next

-----------------------------------------------------------------------------
(* Kept inbounds: the user who stays keeps them registered. *)

Ready == up \/ start.at # "idle"
Stays(users) == \E i \in users : UserOf[i] \notin Movable

KeptStay ==
    \A t \in Kept :
        /\ t \in Tags
        /\ Stays(panel[t])
        /\ Ready => t \in mapped /\ t \in xtls /\ Stays(hash[t])

LEMMA KeptInit == Init => KeptStay
  BY DEF Init, KeptStay, Kept, Stays, Ready

\* The users of a request are movable ones, so the panel keeps the others.
LEMMA WantStays ==
  ASSUME TypeOK, NEW adds \in BOOLEAN, NEW items, Sent(items, adds), Want(items), NEW t \in Tags,
         Stays(panel[t])
  PROVE  Stays(panel'[t])
  <1>1. PICK i \in panel[t] : UserOf[i] \notin Movable
    BY DEF Stays
  <1>2. i \in Uuids /\ \A m \in items : UserOf[i] # ItemUser(m)
    BY <1>1 DEF TypeOK, Sent
  <1>3. i \in panel'[t]
    BY <1>1, <1>2, WantType DEF Sent
  <1> QED BY <1>1, <1>3 DEF Stays

LEMMA KeptStep == TypeOK /\ PanelInv /\ KeptStay /\ [Next]_vars => KeptStay'
  <1> SUFFICES ASSUME TypeOK, PanelInv, KeptStay, [Next]_vars, NEW t \in Kept
               PROVE  /\ t \in Tags
                      /\ Stays(panel'[t])
                      /\ Ready' => t \in mapped' /\ t \in xtls' /\ Stays(hash'[t])
    BY DEF KeptStay, Stays
  <1>1. t \in Tags /\ Stays(panel[t]) /\ (Ready => t \in mapped /\ t \in xtls /\ Stays(hash[t]))
    BY DEF KeptStay
  <1>2. CASE UNCHANGED vars
    BY <1>1, <1>2 DEF vars, registry, Ready
  <1>3. CASE ExtractUsersFromConfig
    <2>1. UNCHANGED panel /\ hash' = panel /\ mapped' = Tags /\ xtls' = Tags
      BY <1>3 DEF ExtractUsersFromConfig
    <2> QED BY <1>1, <2>1
  <1>4. CASE StopCore \/ StartCore
    BY <1>1, <1>4 DEF StopCore, StartCore, registry, Ready
  <1>5. ASSUME NEW r \in Requests, ReceiveAdd(r)
        PROVE  Stays(panel'[t]) /\ (Ready' => t \in mapped' /\ t \in xtls' /\ Stays(hash'[t]))
    <2>1. PICK items \in OnePerUser(AddItems) :
            /\ Want(items) /\ xtls' = xtls \cup UNION {m.tags : m \in items}
            /\ Overlap(items) /\ UNCHANGED <<hash, mapped, up>>
      BY <1>5 DEF ReceiveAdd
    <2>2. start'.at = start.at
      BY <2>1, SentType, OverlapType DEF Sent
    <2> QED BY <1>1, <2>1, <2>2, SentType, WantStays DEF Ready
  <1>6. ASSUME NEW r \in Requests, ReceiveRemove(r)
        PROVE  Stays(panel'[t]) /\ (Ready' => t \in mapped' /\ t \in xtls' /\ Stays(hash'[t]))
    <2>1. PICK items \in OnePerUser(RemoveItems) :
            Want(items) /\ Overlap(items) /\ UNCHANGED <<registry, up>>
      BY <1>6 DEF ReceiveRemove
    <2>2. start'.at = start.at
      BY <2>1, SentType, OverlapType DEF Sent
    <2> QED BY <1>1, <2>1, <2>2, SentType, WantStays DEF Ready, registry
  <1>7. ASSUME NEW r \in Requests,
               NextUser(r) \/ RemoveFromCore(r) \/ AddToCore(r) \/ UserInserted(r) \/ Answer(r)
        PROVE  Stays(panel'[t]) /\ (Ready' => t \in mapped' /\ t \in xtls' /\ Stays(hash'[t]))
    <2>1. UNCHANGED <<panel, hash, mapped, xtls, up, start>>
      BY <1>7 DEF NextUser, RemoveFromCore, AddToCore, UserInserted, Answer, registry
    <2> QED BY <1>1, <2>1 DEF Ready
  <1>8. ASSUME NEW r \in Requests, RemoveFromRegistry(r)
        PROVE  Stays(panel'[t]) /\ (Ready' => t \in mapped' /\ t \in xtls' /\ Stays(hash'[t]))
    <2> DEFINE prev == req[r].item.prev
    <2>1. /\ req[r].tag \in Tags /\ prev \in Uuids /\ ~At(r, "idle")
          /\ RemoveUserFromInbound(req[r].tag, prev) /\ UNCHANGED <<panel, up, start>>
      BY <1>8, ActiveType DEF RemoveFromRegistry, At, Items
    <2>2. UserOf[prev] \in Movable
      BY <2>1 DEF PanelInv, ItemsKept, ItemsOK
    <2> SUFFICES ASSUME Ready
                 PROVE  t \in mapped' /\ t \in xtls' /\ Stays(hash'[t])
      BY <1>1, <2>1 DEF Ready
    <2>3. PICK i \in hash[t] : UserOf[i] \notin Movable
      BY <1>1 DEF Stays
    <2>4. i \in Uuids /\ i # prev
      BY <1>1, <2>2, <2>3 DEF TypeOK
    <2> HIDE DEF prev
    <2>5. i \in hash'[t]
      BY <1>1, <2>1, <2>3, <2>4, RegistryType
    <2>6. t \in mapped' /\ t \in xtls'
      BY <1>1, <2>1, <2>3, <2>4, RegistryType
    <2> QED BY <2>3, <2>5, <2>6 DEF Stays
  <1>9. ASSUME NEW r \in Requests, AddToRegistry(r)
        PROVE  Stays(panel'[t]) /\ (Ready' => t \in mapped' /\ t \in xtls' /\ Stays(hash'[t]))
    <2>1. /\ hash' = [hash EXCEPT ![req[r].tag] = @ \cup {req[r].item.next}]
          /\ mapped' = mapped \cup {req[r].tag} /\ UNCHANGED <<panel, xtls, up, start>>
      BY <1>9, AddToRegistryGoes DEF AddToRegistry
    <2>2. hash[t] \subseteq hash'[t]
      BY <1>1, <2>1 DEF TypeOK
    <2> QED BY <1>1, <2>1, <2>2 DEF Ready, Stays
  <1> QED BY <1>1, <1>2, <1>3, <1>4, <1>5, <1>6, <1>7, <1>8, <1>9 DEF Next

-----------------------------------------------------------------------------
(* What holds of a user in an inbound, by where the requests are with it. *)

\* No request is about the user.
Good(t, i) ==
    /\ t \in Kept /\ i \in hash[t] => i \in core[t] /\ i \in panel[t]
    /\ ~failed => (i \in panel[t] => i \in core[t]) /\ (i \in core[t] => i \in hash[t])

\* Request item m is about the user, and did not change the inbound yet.
Untouched(m, t, i) ==
    /\ t \in Kept /\ i \in hash[t] => i \in core[t] /\ i = m.prev
    /\ ~failed /\ i \in core[t] => i \in hash[t]

\* Nor did it visit the inbound, and will if the user is to be added there.
Reachable(m, t, i) ==
    /\ Untouched(m, t, i)
    /\ ~failed /\ i \in core[t] /\ t \in m.tags => t \in xtls

\* Where a request is with an inbound, for the user it is at.
Stage(q, t) ==
    IF q.at = "await" THEN "done"
    ELSE IF q.at \in {"sweep", "swept"}
         THEN IF q.tag = t THEN q.at ELSE IF t \in q.visited THEN "cleared" ELSE "before"
         ELSE IF q.at = "inserted" /\ q.tag = t THEN "inserted"
              ELSE IF t \in q.pending THEN "cleared" ELSE "done"

AtStage(s, m, t, i) ==
    /\ s = "before" => Reachable(m, t, i)
    /\ s = "sweep" => Untouched(m, t, i)
    /\ s = "swept" => /\ t \in Kept /\ i \in hash[t] => i = m.prev
                      /\ ~failed => i \notin core[t]
    /\ s = "cleared" => /\ t \in Kept => i \notin hash[t]
                        /\ ~failed => i \notin core[t]
    /\ s = "inserted" => /\ t \in Kept => i \notin hash[t]
                         /\ m.next \in core[t]
                         /\ ~failed /\ i \in core[t] => i = m.next
    /\ s = "done" => Good(t, i)

\* The users of request q: those it did not come to yet, and the one it is at.
Served(q, t, i) ==
    /\ \A m \in q.todo : ItemUser(m) = UserOf[i] => Reachable(m, t, i)
    /\ q.item \notin q.todo /\ ItemUser(q.item) = UserOf[i] => AtStage(Stage(q, t), q.item, t, i)

\* It holds of the users whose requests did not overlap the last start.
Serving ==
    Running =>
        \A t \in Tags, i \in Uuids : UserOf[i] \notin start.raced =>
            /\ Settled(i) => Good(t, i)
            /\ \A r \in Requests, q \in Request : req[r] = q => Served(q, t, i)

\* During a start no request is about the others: what xray will run is what
\* the panel wants of them, and so are the hashes.
StartApart ==
    start.at # "idle" =>
        /\ \A r \in Requests : Busy(r) \subseteq start.raced
        /\ \A t \in Tags, i \in Uuids : UserOf[i] \notin start.raced =>
             /\ i \in start.config[t] <=> i \in panel[t]
             /\ i \in hash[t] <=> i \in panel[t]

UsersInv == PanelInv /\ KeptStay /\ StartApart /\ Serving

\* A step that leaves a user alone in an inbound.
Same(t, i) ==
    /\ i \in core'[t] <=> i \in core[t]
    /\ i \in hash'[t] <=> i \in hash[t]
    /\ i \in panel'[t] <=> i \in panel[t]
    /\ failed => failed'
    /\ t \in xtls /\ i \in hash[t] => t \in xtls'

LEMMA SameHolds ==
  ASSUME NEW t, NEW i, Same(t, i)
  PROVE  /\ Good(t, i) => Good(t, i)'
         /\ \A m : Untouched(m, t, i) => Untouched(m, t, i)'
         /\ \A m : Reachable(m, t, i) => Reachable(m, t, i)'
  <1>1. Good(t, i) => Good(t, i)'
    BY DEF Same, Good
  <1>2. \A m : Untouched(m, t, i) => Untouched(m, t, i)'
    BY DEF Same, Untouched
  <1>3. \A m : Reachable(m, t, i) => Reachable(m, t, i)'
    BY DEF Same, Reachable, Untouched
  <1> QED BY <1>1, <1>2, <1>3

LEMMA SameStage ==
  ASSUME NEW s, NEW m, NEW t, NEW i, Same(t, i), Same(t, m.next), AtStage(s, m, t, i)
  PROVE  AtStage(s, m, t, i)'
  <1>1. /\ s = "before" => Reachable(m, t, i)'
        /\ s = "sweep" => Untouched(m, t, i)'
        /\ s = "done" => Good(t, i)'
    BY SameHolds DEF AtStage
  <1>2. s = "swept" => /\ t \in Kept /\ i \in hash'[t] => i = m.prev
                       /\ ~failed' => i \notin core'[t]
    BY DEF AtStage, Same
  <1>3. s = "cleared" => /\ t \in Kept => i \notin hash'[t]
                         /\ ~failed' => i \notin core'[t]
    BY DEF AtStage, Same
  <1>4. s = "inserted" => /\ t \in Kept => i \notin hash'[t]
                          /\ m.next \in core'[t]
                          /\ ~failed' /\ i \in core'[t] => i = m.next
    BY DEF AtStage, Same
  <1> QED BY <1>1, <1>2, <1>3, <1>4 DEF AtStage

\* A request that does nothing to a user may have to visit an inbound again.
LEMMA OthersServed ==
  ASSUME TypeOK, NEW s \in Requests, Sees(s), NEW q \in Request, req'[s] = q,
         NEW t \in Tags, NEW i \in Uuids, t \in Kept => t \in xtls',
         \A j \in Uuids : UserOf[j] = UserOf[i] => Same(t, j),
         \A p \in Request : req[s] = p => Served(p, t, i)
  PROVE  Served(q, t, i)'
  <1>1. Same(t, i)
    OBVIOUS
  <1>2. PICK p \in Request : req[s] = p
    BY DEF Sees, TypeOK, At, Idle, Request
  <1>3. Served(p, t, i)
    BY <1>2
  <1>4. /\ q.at = p.at /\ q.todo = p.todo /\ q.item = p.item /\ q.tag = p.tag
        /\ q.pending = p.pending
        /\ \A x \in Tags : x \in q.visited => x \in p.visited
        /\ t \in p.visited => t \in q.visited \/ t \notin xtls'
    BY <1>2 DEF Sees, Request
  <1>5. ASSUME NEW m \in q.todo, ItemUser(m) = UserOf[i]
        PROVE  Reachable(m, t, i)'
    <2>1. Reachable(m, t, i)
      BY <1>3, <1>4, <1>5 DEF Served
    <2> QED BY <1>1, <2>1, SameHolds
  <1>6. ASSUME q.item \notin q.todo, ItemUser(q.item) = UserOf[i]
        PROVE  AtStage(Stage(q, t), q.item, t, i)'
    <2>1. AtStage(Stage(p, t), q.item, t, i)
      BY <1>3, <1>4, <1>6 DEF Served
    <2>2. Same(t, q.item.next)
      BY <1>6 DEF ItemUser, Request, Items
    <2>3. AtStage(Stage(p, t), q.item, t, i)'
      <3>1. ASSUME NEW st, AtStage(st, q.item, t, i)
            PROVE  AtStage(st, q.item, t, i)'
        BY <1>1, <2>2, <3>1, SameStage
      <3>2. PICK st : st = Stage(p, t)
        OBVIOUS
      <3>3. AtStage(st, q.item, t, i)
        BY <2>1, <3>2
      <3>4. AtStage(st, q.item, t, i)'
        BY <3>1, <3>3
      <3> QED BY <3>2, <3>4 DEF Stage, AtStage
    <2>4. CASE Stage(q, t) = Stage(p, t)
      BY <2>3, <2>4 DEF Stage, AtStage
    <2>5. CASE Stage(q, t) # Stage(p, t)
      <3>1. Stage(p, t) = "cleared" /\ Stage(q, t) = "before" /\ t \notin xtls'
        BY <1>4, <2>5 DEF Stage
      <3>2. ~failed' => i \notin core'[t]
        BY <2>3, <3>1 DEF AtStage, Stage
      <3>3. t \notin Kept
        BY <3>1
      <3>4. Reachable(q.item, t, i)'
        BY <3>2, <3>3 DEF Reachable, Untouched
      <3> QED BY <3>1, <3>4 DEF AtStage, Stage
    <2> QED BY <2>4, <2>5
  <1> QED BY <1>5, <1>6 DEF Served, ItemUser

\* A step of a request at user m, which does nothing to the other users.
LEMMA WalkServes ==
  ASSUME TypeOK, PanelInv, KeptStay', Serving, Walks, up', start'.at = "idle", UNCHANGED <<up, start>>,
         NEW r \in Requests, ~At(r, "idle"), req[r].item \notin req[r].todo,
         \A s \in Requests \ {r} : Sees(s), Goes(r, req'[r]),
         \A t \in Tags, i \in Uuids : UserOf[i] # ItemUser(req[r].item) => Same(t, i),
         ItemUser(req[r].item) \notin start.raced =>
           \A q \in Request, t \in Tags, i \in Uuids :
             req'[r] = q /\ UserOf[i] = ItemUser(req[r].item) => AtStage(Stage(q, t), q.item, t, i)'
  PROVE  Serving'
  <1> SUFFICES ASSUME NEW t \in Tags, NEW i \in Uuids, UserOf[i] \notin start.raced
               PROVE  /\ Settled(i)' => Good(t, i)'
                      /\ \A s \in Requests, q \in Request : req'[s] = q => Served(q, t, i)'
    BY DEF Serving, Running
  <1>1. /\ Settled(i) => Good(t, i)
        /\ \A s \in Requests, q \in Request : req[s] = q => Served(q, t, i)
    BY DEF Serving, Running
  <1>2. t \in Kept => t \in xtls'
    BY DEF KeptStay, Ready
  <1>3. Settled(i)' <=> Settled(i)
    BY WalksBusy
  <1>4. ItemUser(req[r].item) \in Busy(r)
    BY DEF Busy
  <1>5. CASE UserOf[i] # ItemUser(req[r].item)
    <2>1. \A j \in Uuids : UserOf[j] = UserOf[i] => Same(t, j)
      BY <1>5
    <2>2. Settled(i)' => Good(t, i)'
      BY <1>1, <1>3, <2>1, SameHolds
    <2>3. ASSUME NEW s \in Requests, NEW q \in Request, req'[s] = q
          PROVE  Served(q, t, i)'
      <3>1. CASE s # r
        <4>1. Sees(s)
          BY <3>1
        <4> QED BY <1>1, <1>2, <2>1, <2>3, <4>1, OthersServed
      <3>2. CASE s = r
        <4>1. q.todo = req[r].todo /\ q.item = req[r].item
          BY <2>3, <3>2 DEF Goes
        <4>2. req[r] \in Request
          BY ActiveType
        <4>3. Served(req[r], t, i)
          BY <1>1, <4>2
        <4>4. \A m \in q.todo : ItemUser(m) = UserOf[i] => Reachable(m, t, i)'
          BY <2>1, <4>1, <4>3, SameHolds DEF Served
        <4> QED BY <1>5, <4>1, <4>4 DEF Served, ItemUser
      <3> QED BY <3>1, <3>2
    <2> QED BY <2>2, <2>3
  <1>6. CASE UserOf[i] = ItemUser(req[r].item)
    <2>1. ~Settled(i)
      BY <1>4, <1>6 DEF Settled
    <2>2. ASSUME NEW s \in Requests, NEW q \in Request, req'[s] = q
          PROVE  Served(q, t, i)'
      <3>1. q.todo = req[s].todo /\ q.item = req[s].item /\ ~At(s, "idle")
        BY <2>2 DEF Walks, At, Request
      <3>2. CASE s # r
        <4>1. UserOf[i] \notin Busy(s)
          BY <1>4, <1>6, <3>2 DEF PanelInv, Disjoint
        <4>2. \A m \in q.todo \cup {q.item} : ItemUser(m) # UserOf[i]
          BY <3>1, <4>1 DEF Busy
        <4> QED BY <4>2 DEF Served, ItemUser
      <3>3. CASE s = r
        <4>1. \A m \in q.todo : ItemUser(m) # UserOf[i]
          BY <1>6, <3>1, <3>3 DEF PanelInv, ItemsKept, ItemsOK
        <4>2. AtStage(Stage(q, t), q.item, t, i)'
          BY <1>6, <2>2, <3>3
        <4> QED BY <4>1, <4>2 DEF Served, ItemUser
      <3> QED BY <3>2, <3>3
    <2> QED BY <1>3, <2>1, <2>2
  <1> QED BY <1>5, <1>6

LEMMA ActingStage ==
  ASSUME TypeOK, Serving, up, start.at = "idle", NEW r \in Requests, ~At(r, "idle"),
         req[r].item \notin req[r].todo, ItemUser(req[r].item) \notin start.raced
  PROVE  \A t \in Tags, i \in Uuids : UserOf[i] = ItemUser(req[r].item) =>
            AtStage(Stage(req[r], t), req[r].item, t, i)
  BY ActiveType DEF Serving, Running, Served

LEMMA RemoveFromCoreServes ==
  ASSUME TypeOK, PanelInv, KeptStay', Serving, up', start'.at = "idle",
         NEW r \in Requests, RemoveFromCore(r)
  PROVE  Serving'
  <1> DEFINE m == req[r].item
             tag == req[r].tag
  <1>1. /\ Walks /\ ~At(r, "idle") /\ m \notin req[r].todo
        /\ OthersStay(r) /\ Goes(r, req'[r])
        /\ req'[r].at = "swept" /\ req'[r].tag = tag /\ req'[r].visited = req[r].visited
    BY StepWalks, RemoveFromCoreGoes
  <1>2. /\ UNCHANGED <<panel, hash, mapped, xtls, up, start>> /\ req[r].at = "sweep"
        /\ \/ core' = [core EXCEPT ![tag] = Without(@, ItemUser(m))] /\ UNCHANGED failed
           \/ failed' /\ UNCHANGED core
    BY DEF RemoveFromCore, registry, CallFails, At
  <1>3. tag \in Tags /\ core \in [Tags -> SUBSET Uuids]
    BY <1>1, ActiveType DEF TypeOK
  <1> HIDE DEF m, tag
  <1>4. \A t \in Tags, i \in Uuids : t # tag \/ UserOf[i] # ItemUser(m) => Same(t, i)
    BY <1>2, <1>3 DEF Same, Without
  <1>5. ASSUME NEW q \in Request, NEW t \in Tags, NEW i \in Uuids,
               req'[r] = q, UserOf[i] = ItemUser(m), ItemUser(m) \notin start.raced
        PROVE  AtStage(Stage(q, t), q.item, t, i)'
    <2>1. PICK n : n = q.item
      OBVIOUS
    <2>2. n = m /\ n.next \in Uuids
      BY <1>1, <1>5, <2>1 DEF Goes, m, Request, Items
    <2>3. AtStage(Stage(req[r], t), n, t, i)
      BY <1>1, <1>2, <1>5, <2>2, ActingStage DEF m
    <2>4. CASE t # tag
      <3>1. Stage(q, t) = Stage(req[r], t)
        BY <1>1, <1>2, <1>5, <2>4 DEF Stage, tag
      <3>2. PICK st : st = Stage(q, t)
        OBVIOUS
      <3>3. AtStage(st, n, t, i)'
        BY <1>4, <2>2, <2>3, <2>4, <3>1, <3>2, SameStage
      <3> QED BY <2>1, <3>2, <3>3 DEF Stage, AtStage
    <2>5. CASE t = tag
      <3>1. Stage(req[r], t) = "sweep" /\ Stage(q, t) = "swept"
        BY <1>1, <1>2, <1>5, <2>5 DEF Stage, tag
      <3>2. Untouched(n, t, i)
        BY <2>3, <3>1 DEF AtStage
      <3>3. /\ t \in Kept /\ i \in hash'[t] => i = n.prev
            /\ ~failed' => i \notin core'[t]
        BY <1>2, <1>3, <1>5, <2>5, <3>2 DEF Untouched, Without
      <3> QED BY <2>1, <3>1, <3>3 DEF AtStage, Stage
    <2> QED BY <2>4, <2>5
  <1>6. \A s \in Requests \ {r} : Sees(s)
    BY <1>1, OthersSee
  <1> QED BY <1>1, <1>2, <1>4, <1>5, <1>6, WalkServes DEF m

LEMMA AddToCoreServes ==
  ASSUME TypeOK, PanelInv, KeptStay', Serving, up', start'.at = "idle",
         NEW r \in Requests, AddToCore(r)
  PROVE  Serving'
  <1> DEFINE m == req[r].item
  <1>1. Walks /\ ~At(r, "idle") /\ m \notin req[r].todo
    BY StepWalks
  <1>2. PICK tag \in req[r].pending :
           /\ tag \in Tags /\ OthersStay(r) /\ Goes(r, req'[r])
           /\ req'[r].pending = req[r].pending \ {tag}
           /\ \/ /\ up /\ Without(core[tag], ItemUser(m)) = core[tag]
                 /\ core' = [core EXCEPT ![tag] = @ \cup {m.next}]
                 /\ UNCHANGED failed
                 /\ req'[r].at = "inserted" /\ req'[r].tag = tag
              \/ /\ ~up \/ Without(core[tag], ItemUser(m)) # core[tag] \/ failed'
                 /\ UNCHANGED core /\ (failed' = failed \/ failed' = TRUE)
                 /\ req'[r].at = "insert"
    BY AddToCoreGoes
  <1>3. UNCHANGED <<panel, hash, mapped, xtls, up, start>> /\ req[r].at = "insert"
    BY DEF AddToCore, registry, At
  <1>4. core \in [Tags -> SUBSET Uuids] /\ m.next \in Uuids
    BY <1>1, ActiveType DEF TypeOK, Items
  <1>5. ItemUser(m) \notin start.raced => \A t \in Tags, i \in Uuids :
          UserOf[i] = ItemUser(m) => AtStage(Stage(req[r], t), m, t, i)
    BY <1>1, <1>3, ActingStage
  <1>6. ItemUser(m) \notin start.raced => \A i \in Uuids : UserOf[i] = ItemUser(m) =>
          /\ tag \in Kept => i \notin hash[tag]
          /\ ~failed => i \notin core[tag]
    <2>1. Stage(req[r], tag) = "cleared"
      BY <1>3 DEF Stage
    <2> QED BY <1>2, <1>5, <2>1 DEF AtStage
  <1> HIDE DEF m
  <1>7. \A t \in Tags, i \in Uuids : t # tag \/ UserOf[i] # ItemUser(m) => Same(t, i)
    BY <1>2, <1>3, <1>4 DEF Same, ItemUser
  <1>8. ASSUME NEW q \in Request, NEW t \in Tags, NEW i \in Uuids,
               req'[r] = q, UserOf[i] = ItemUser(m), ItemUser(m) \notin start.raced
        PROVE  AtStage(Stage(q, t), q.item, t, i)'
    <2>1. PICK n : n = q.item
      OBVIOUS
    <2>2. n = m
      BY <1>2, <1>8, <2>1 DEF Goes, m
    <2>3. AtStage(Stage(req[r], t), n, t, i)
      BY <1>5, <1>8, <2>2
    <2>4. CASE t # tag
      <3>1. Stage(q, t) = Stage(req[r], t)
        BY <1>2, <1>3, <1>8, <2>4 DEF Stage
      <3>2. PICK st : st = Stage(q, t)
        OBVIOUS
      <3>3. AtStage(st, n, t, i)'
        BY <1>4, <1>7, <2>2, <2>3, <2>4, <3>1, <3>2, SameStage
      <3> QED BY <2>1, <3>2, <3>3 DEF Stage, AtStage
    <2>5. CASE t = tag /\ q.at = "inserted"
      <3>1. Stage(q, t) = "inserted"
        BY <1>2, <1>8, <2>5 DEF Stage
      <3>2. /\ t \in Kept => i \notin hash'[t]
            /\ n.next \in core'[t]
            /\ ~failed' /\ i \in core'[t] => i = n.next
        BY <1>2, <1>3, <1>4, <1>6, <1>8, <2>2, <2>5
      <3> QED BY <2>1, <3>1, <3>2 DEF AtStage, Stage
    <2>6. CASE t = tag /\ q.at = "insert"
      <3>1. Stage(q, t) = "done"
        BY <1>2, <1>8, <2>6 DEF Stage
      <3>2. failed'
        <4>1. Without(core[t], ItemUser(m)) # core[t] \/ failed'
          BY <1>2, <1>3, <1>8, <2>6
        <4>2. ~failed => Without(core[t], ItemUser(m)) = core[t]
          BY <1>4, <1>6, <1>8, <2>6 DEF Without
        <4> QED BY <1>2, <1>8, <2>6, <4>1, <4>2
      <3>3. Good(t, i)'
        BY <1>3, <1>6, <1>8, <2>6, <3>2 DEF Good
      <3> QED BY <2>1, <3>1, <3>3 DEF AtStage, Stage
    <2> QED BY <1>2, <1>8, <2>4, <2>5, <2>6
  <1>9. \A s \in Requests \ {r} : Sees(s)
    BY <1>2, OthersSee
  <1> QED BY <1>1, <1>2, <1>3, <1>7, <1>8, <1>9, WalkServes DEF m

LEMMA AddToRegistryServes ==
  ASSUME TypeOK, PanelInv, KeptStay', Serving, up', start'.at = "idle",
         NEW r \in Requests, AddToRegistry(r)
  PROVE  Serving'
  <1> DEFINE m == req[r].item
             tag == req[r].tag
  <1>1. /\ Walks /\ ~At(r, "idle") /\ m \notin req[r].todo
        /\ OthersStay(r) /\ Goes(r, req'[r])
        /\ req'[r].at = "insert" /\ req'[r].pending = req[r].pending
        /\ tag \in Tags /\ m.next \in Uuids
        /\ hash' = [hash EXCEPT ![tag] = @ \cup {m.next}]
    BY StepWalks, AddToRegistryGoes
  <1>2. UNCHANGED <<panel, xtls, up, core, failed, start>> /\ req[r].at = "inserted"
    BY DEF AddToRegistry, At
  <1>3. /\ tag \in m.tags /\ tag \notin req[r].pending /\ Wanted(m)
        /\ hash \in [Tags -> SUBSET Uuids]
    BY <1>1, <1>2 DEF PanelInv, ItemsKept, ItemsOK, TypeOK
  <1>4. ItemUser(m) \notin start.raced => \A t \in Tags, i \in Uuids :
          UserOf[i] = ItemUser(m) => AtStage(Stage(req[r], t), m, t, i)
    BY <1>1, <1>2, ActingStage
  <1>5. ItemUser(m) \notin start.raced => \A i \in Uuids : UserOf[i] = ItemUser(m) =>
          /\ tag \in Kept => i \notin hash[tag]
          /\ m.next \in core[tag]
          /\ ~failed /\ i \in core[tag] => i = m.next
    <2>1. Stage(req[r], tag) = "inserted"
      BY <1>2 DEF Stage
    <2> QED BY <1>1, <1>4, <2>1 DEF AtStage
  <1> HIDE DEF m, tag
  <1>6. \A t \in Tags, i \in Uuids : t # tag \/ UserOf[i] # ItemUser(m) => Same(t, i)
    BY <1>1, <1>2, <1>3 DEF Same, ItemUser
  <1>7. ASSUME NEW q \in Request, NEW t \in Tags, NEW i \in Uuids,
               req'[r] = q, UserOf[i] = ItemUser(m), ItemUser(m) \notin start.raced
        PROVE  AtStage(Stage(q, t), q.item, t, i)'
    <2>1. PICK n : n = q.item
      OBVIOUS
    <2>2. n = m
      BY <1>1, <1>7, <2>1 DEF Goes, m
    <2>3. AtStage(Stage(req[r], t), n, t, i)
      BY <1>4, <1>7, <2>2
    <2>4. CASE t # tag
      <3>1. Stage(q, t) = Stage(req[r], t)
        BY <1>1, <1>2, <1>7, <2>4 DEF Stage, tag
      <3>2. PICK st : st = Stage(q, t)
        OBVIOUS
      <3>3. AtStage(st, n, t, i)'
        BY <1>1, <1>6, <2>2, <2>3, <2>4, <3>1, <3>2, <1>7, SameStage
      <3> QED BY <2>1, <3>2, <3>3 DEF Stage, AtStage
    <2>5. CASE t = tag
      <3>1. Stage(q, t) = "done"
        BY <1>1, <1>3, <1>7, <2>5 DEF Stage
      <3>2. Good(t, i)'
        <4>1. i \in panel[t] <=> i = m.next
          BY <1>1, <1>3, <1>7, <2>5 DEF Wanted
        <4>2. i \in hash'[t] <=> i \in hash[t] \/ i = m.next
          BY <1>1, <1>3, <2>5
        <4> QED BY <1>2, <1>5, <1>7, <2>5, <4>1, <4>2 DEF Good
      <3> QED BY <2>1, <3>1, <3>2 DEF AtStage, Stage
    <2> QED BY <2>4, <2>5
  <1>8. \A s \in Requests \ {r} : Sees(s)
    BY <1>1, OthersSee
  <1> QED BY <1>1, <1>2, <1>6, <1>7, <1>8, WalkServes DEF m

LEMMA UserInsertedServes ==
  ASSUME TypeOK, PanelInv, KeptStay', Serving, up', start'.at = "idle",
         NEW r \in Requests, UserInserted(r)
  PROVE  Serving'
  <1> DEFINE m == req[r].item
  <1>1. /\ Walks /\ ~At(r, "idle") /\ m \notin req[r].todo
        /\ OthersStay(r) /\ Goes(r, req'[r]) /\ req'[r].at = "await"
    BY StepWalks, UserInsertedGoes
  <1>2. /\ UNCHANGED <<panel, hash, mapped, xtls, up, core, failed, start>>
        /\ req[r].at = "insert" /\ req[r].pending = {}
    BY DEF UserInserted, registry, At
  <1>3. ItemUser(m) \notin start.raced => \A t \in Tags, i \in Uuids :
          UserOf[i] = ItemUser(m) => AtStage(Stage(req[r], t), m, t, i)
    BY <1>1, <1>2, ActingStage
  <1> HIDE DEF m
  <1>4. \A t \in Tags, i \in Uuids : Same(t, i)
    BY <1>2 DEF Same
  <1>5. ASSUME NEW q \in Request, NEW t \in Tags, NEW i \in Uuids,
               req'[r] = q, UserOf[i] = ItemUser(m), ItemUser(m) \notin start.raced
        PROVE  AtStage(Stage(q, t), q.item, t, i)'
    <2>1. Stage(req[r], t) = "done" /\ Stage(q, t) = "done"
      BY <1>1, <1>2, <1>5 DEF Stage
    <2>2. Good(t, i)'
      BY <1>3, <1>4, <1>5, <2>1, SameHolds DEF AtStage
    <2> QED BY <2>1, <2>2 DEF AtStage, Stage
  <1>6. \A s \in Requests \ {r} : Sees(s)
    BY <1>1, OthersSee
  <1> QED BY <1>1, <1>2, <1>4, <1>5, <1>6, WalkServes DEF m

LEMMA RemoveFromRegistryServes ==
  ASSUME TypeOK, PanelInv, KeptStay, KeptStay', Serving, up', start'.at = "idle",
         NEW r \in Requests, RemoveFromRegistry(r)
  PROVE  Serving'
  <1> DEFINE m == req[r].item
             tag == req[r].tag
  <1>1. Walks /\ ~At(r, "idle") /\ m \notin req[r].todo
    BY StepWalks
  <1>2. /\ \A s \in Requests \ {r} : Sees(s)
        /\ Goes(r, req'[r])
        /\ \/ /\ xtls' \subseteq req[r].visited
              /\ \/ req[r].adds /\ req'[r].at = "insert" /\ req'[r].pending = m.tags
                 \/ ~req[r].adds /\ req'[r].at = "await"
           \/ /\ req'[r].at = "sweep" /\ req'[r].tag \in xtls' \ req[r].visited
              /\ req'[r].visited = (req[r].visited \cap xtls') \cup {req'[r].tag}
    BY RemoveFromRegistryGoes
  <1>3. /\ UNCHANGED <<panel, up, core, failed, start>> /\ req[r].at = "swept"
        /\ RemoveUserFromInbound(tag, m.prev)
    BY DEF RemoveFromRegistry, At
  <1>4. tag \in Tags /\ m.prev \in Uuids
    BY <1>1, ActiveType DEF Items
  <1>5. UserOf[m.prev] = ItemUser(m) /\ Wanted(m) /\ (~req[r].adds => m.tags = {})
    BY <1>1 DEF PanelInv, ItemsKept, ItemsOK
  <1>6. ItemUser(m) \notin start.raced => \A t \in Tags, i \in Uuids :
          UserOf[i] = ItemUser(m) => AtStage(Stage(req[r], t), m, t, i)
    BY <1>1, <1>3, ActingStage
  <1>7. \A t \in Kept : t \in mapped /\ t \in xtls'
    BY <1>3 DEF KeptStay, Ready
  <1> HIDE DEF m, tag
  <1>8. /\ \A t \in Tags, i \in Uuids : t # tag \/ i # m.prev => (i \in hash'[t] <=> i \in hash[t])
        /\ tag \in Kept => m.prev \notin hash'[tag]
        /\ \A t \in Tags : \/ t \in xtls' <=> t \in xtls
                           \/ t = tag /\ hash[t] \ {m.prev} = {}
    BY <1>3, <1>4, <1>7, RegistryType
  <1>9. \A t \in Tags, i \in Uuids : t # tag \/ UserOf[i] # ItemUser(m) => Same(t, i)
    <2> SUFFICES ASSUME NEW t \in Tags, NEW i \in Uuids, t # tag \/ UserOf[i] # ItemUser(m)
                 PROVE  Same(t, i)
      OBVIOUS
    <2>1. i \in hash'[t] <=> i \in hash[t]
      BY <1>5, <1>8
    <2>2. t \in xtls /\ i \in hash[t] => t \in xtls'
      BY <1>5, <1>8
    <2> QED BY <1>3, <2>1, <2>2 DEF Same
  <1>10. ASSUME NEW q \in Request, NEW t \in Tags, NEW i \in Uuids,
                req'[r] = q, UserOf[i] = ItemUser(m), ItemUser(m) \notin start.raced
         PROVE  AtStage(Stage(q, t), q.item, t, i)'
    <2>1. PICK n : n = q.item
      OBVIOUS
    <2>2. n = m
      BY <1>2, <1>10, <2>1 DEF Goes, m
    <2>3. AtStage(Stage(req[r], t), n, t, i)
      BY <1>6, <1>10, <2>2
    <2>4. i \in panel[t] => t \in m.tags
      BY <1>5, <1>10 DEF Wanted
    \* Where the user is gone from, any stage the sweep goes on to holds.
    <2>5. ASSUME t \in Kept => i \notin hash'[t], ~failed => i \notin core[t]
          PROVE  AtStage(Stage(q, t), q.item, t, i)'
      <3>1. Reachable(n, t, i)' /\ Untouched(n, t, i)'
        BY <1>3, <2>5 DEF Reachable, Untouched
      <3>2. t \notin m.tags => Good(t, i)'
        BY <1>3, <2>4, <2>5 DEF Good
      <3>3. /\ Stage(q, t) \in {"before", "sweep", "cleared", "done"}
            /\ Stage(q, t) = "done" => t \notin m.tags
        BY <1>2, <1>5, <1>10 DEF Stage, m
      <3>4. PICK st : st = Stage(q, t)
        OBVIOUS
      <3>5. AtStage(st, n, t, i)'
        BY <1>3, <2>5, <3>1, <3>2, <3>3, <3>4 DEF AtStage
      <3> QED BY <2>1, <3>4, <3>5 DEF AtStage, Stage
    <2>6. CASE t = tag
      <3>1. Stage(req[r], t) = "swept"
        BY <1>3, <2>6 DEF Stage, tag
      <3>2. /\ t \in Kept /\ i \in hash[t] => i = m.prev
            /\ ~failed => i \notin core[t]
        BY <2>2, <2>3, <3>1 DEF AtStage
      <3>3. t \in Kept => i \notin hash'[t]
        BY <1>8, <2>6, <3>2
      <3> QED BY <2>5, <3>2, <3>3
    <2>7. CASE t # tag /\ t \in req[r].visited
      <3>1. Stage(req[r], t) = "cleared"
        BY <1>3, <2>7 DEF Stage, tag
      <3>2. (t \in Kept => i \notin hash[t]) /\ (~failed => i \notin core[t])
        BY <2>3, <3>1 DEF AtStage
      <3>3. t \in Kept => i \notin hash'[t]
        BY <1>8, <2>7, <3>2
      <3> QED BY <2>5, <3>2, <3>3
    <2>8. CASE t # tag /\ t \notin req[r].visited
      <3>1. Stage(req[r], t) = "before"
        BY <1>3, <2>8 DEF Stage, tag
      <3>2. Reachable(n, t, i)'
        BY <1>9, <2>3, <2>8, <3>1, SameHolds DEF AtStage
      <3>3. CASE q.at = "sweep"
        <4>1. Stage(q, t) \in {"before", "sweep"}
          BY <1>2, <1>10, <2>8, <3>3 DEF Stage
        <4>2. PICK st : st = Stage(q, t)
          OBVIOUS
        <4>3. AtStage(st, n, t, i)'
          BY <3>2, <4>1, <4>2 DEF AtStage, Reachable
        <4> QED BY <2>1, <4>2, <4>3 DEF AtStage, Stage
      <3>4. CASE q.at # "sweep"
        <4>1. t \notin xtls' /\ t \notin Kept
          BY <1>2, <1>7, <1>10, <2>8, <3>4
        <4>2. CASE t \in m.tags
          <5>1. ~failed => i \notin core[t]
            BY <1>3, <2>2, <3>2, <4>1, <4>2 DEF Reachable
          <5> QED BY <2>5, <4>1, <5>1
        <4>3. CASE t \notin m.tags
          <5>1. Stage(q, t) = "done"
            BY <1>2, <1>10, <3>4, <4>3 DEF Stage
          <5>2. Good(t, i)'
            BY <1>3, <2>4, <3>2, <4>1, <4>3 DEF Good, Reachable, Untouched
          <5> QED BY <2>1, <5>1, <5>2 DEF AtStage, Stage
        <4> QED BY <4>2, <4>3
      <3> QED BY <3>3, <3>4
    <2> QED BY <2>6, <2>7, <2>8
  <1> QED BY <1>1, <1>2, <1>3, <1>9, <1>10, WalkServes DEF m

\* A request between two users is done with the one it was at.
LEMMA NextUserServes ==
  ASSUME TypeOK, PanelInv, KeptStay, Serving, up', start'.at = "idle",
         NEW r \in Requests, NextUser(r)
  PROVE  Serving'
  <1>1. PICK item \in req[r].todo, q0 \in Request :
           /\ req'[r] = q0 /\ OthersStay(r)
           /\ q0.adds = req[r].adds /\ q0.todo = req[r].todo \ {item} /\ q0.item = item
           /\ \/ /\ xtls = {}
                 /\ \/ q0.adds /\ q0.at = "insert" /\ q0.pending = item.tags
                    \/ ~q0.adds /\ q0.at = "await"
              \/ q0.at = "sweep" /\ q0.tag \in xtls /\ q0.visited = {q0.tag}
    BY NextUserGoes
  <1>2. /\ UNCHANGED <<panel, hash, mapped, xtls, up, core, failed, start>>
        /\ req[r].at = "await" /\ ~At(r, "idle")
    BY DEF NextUser, registry, At
  <1>3. req[r] \in Request
    BY <1>2, ActiveType
  <1>4. \A t \in Tags, i \in Uuids : Same(t, i)
    BY <1>2 DEF Same
  <1> SUFFICES ASSUME NEW t \in Tags, NEW i \in Uuids, UserOf[i] \notin start.raced
               PROVE  /\ Settled(i)' => Good(t, i)'
                      /\ \A s \in Requests, q \in Request : req'[s] = q => Served(q, t, i)'
    BY <1>2 DEF Serving, Running
  <1>5. /\ Settled(i) => Good(t, i)
        /\ \A s \in Requests, q \in Request : req[s] = q => Served(q, t, i)
    BY <1>2 DEF Serving, Running
  <1>6. Settled(i)' => Good(t, i)'
    <2>1. SUFFICES ASSUME Settled(i)' PROVE Good(t, i)
      BY <1>4, SameHolds
    <2>2. CASE Settled(i)
      BY <1>5, <2>2
    <2>3. CASE ~Settled(i)
      <3>1. PICK s \in Requests : UserOf[i] \in Busy(s) /\ UserOf[i] \notin Busy(s)'
        BY <2>1, <2>3 DEF Settled
      <3>2. s = r
        BY <1>1, <3>1 DEF Busy, At, ItemUser, OthersStay
      <3>3. UserOf[i] = ItemUser(req[r].item) /\ req[r].item \notin req[r].todo
        BY <1>1, <1>2, <3>1, <3>2 DEF Busy, At, ItemUser, Request
      <3>4. AtStage(Stage(req[r], t), req[r].item, t, i)
        BY <1>3, <1>5, <3>3 DEF Served
      <3> QED BY <1>2, <3>4 DEF Stage, AtStage
    <2> QED BY <2>2, <2>3
  <1>7. ASSUME NEW s \in Requests, NEW q \in Request, req'[s] = q
        PROVE  Served(q, t, i)'
    <2>1. CASE s # r
      <3>1. Sees(s)
        BY <1>1, <2>1, OthersSee
      <3>2. t \in Kept => t \in xtls'
        BY <1>2 DEF KeptStay, Ready
      <3> QED BY <1>4, <1>5, <1>7, <3>1, <3>2, OthersServed
    <2>2. CASE s = r
      <3>1. q = q0 /\ Served(req[r], t, i)
        BY <1>1, <1>3, <1>5, <1>7, <2>2
      <3>2. \A m \in q.todo : ItemUser(m) = UserOf[i] => Reachable(m, t, i)'
        BY <1>1, <1>4, <3>1, SameHolds DEF Served
      <3>3. ASSUME ItemUser(q.item) = UserOf[i]
            PROVE  AtStage(Stage(q, t), q.item, t, i)'
        <4>1. PICK m : m = q.item
          OBVIOUS
        <4>2. Reachable(m, t, i)'
          BY <1>1, <1>4, <3>1, <3>3, <4>1, SameHolds DEF Served
        <4>3. Wanted(m) /\ (~q.adds => m.tags = {})
          BY <1>1, <1>2, <3>1, <4>1 DEF PanelInv, ItemsKept, ItemsOK
        <4>4. PICK st : st = Stage(q, t)
          OBVIOUS
        <4>5. CASE xtls = {}
          <5>1. t \notin Kept
            BY <1>2, <4>5 DEF KeptStay, Ready
          <5>2. t \in m.tags => (~failed' => i \notin core'[t])
            BY <1>2, <4>2, <4>5 DEF Reachable
          <5>3. t \notin m.tags => Good(t, i)'
            BY <1>2, <3>3, <4>1, <4>2, <4>3, <5>1 DEF Good, Reachable, Untouched, Wanted
          <5>4. (st = "cleared" /\ t \in m.tags) \/ (st = "done" /\ t \notin m.tags)
            BY <1>1, <3>1, <4>1, <4>3, <4>4, <4>5 DEF Stage
          <5>5. AtStage(st, m, t, i)'
            BY <5>1, <5>2, <5>3, <5>4 DEF AtStage
          <5> QED BY <4>1, <4>4, <5>5 DEF AtStage, Stage
        <4>6. CASE xtls # {}
          <5>1. st \in {"sweep", "before"}
            BY <1>1, <3>1, <4>4, <4>6 DEF Stage
          <5>2. AtStage(st, m, t, i)'
            BY <4>2, <5>1 DEF AtStage, Reachable
          <5> QED BY <4>1, <4>4, <5>2 DEF AtStage, Stage
        <4> QED BY <4>5, <4>6
      <3> QED BY <3>2, <3>3 DEF Served, ItemUser
    <2> QED BY <2>1, <2>2
  <1> QED BY <1>6, <1>7

LEMMA AnswerServes ==
  ASSUME TypeOK, KeptStay, Serving, up', start'.at = "idle", NEW r \in Requests, Answer(r)
  PROVE  Serving'
  <1>1. /\ UNCHANGED <<panel, hash, mapped, xtls, up, core, failed, start>>
        /\ req[r].at = "await" /\ req[r].todo = {} /\ ~At(r, "idle")
        /\ req'[r] = Idle /\ OthersStay(r)
    BY DEF Answer, registry, At, TypeOK, OthersStay
  <1>2. \A t \in Tags, i \in Uuids : Same(t, i)
    BY <1>1 DEF Same
  <1> SUFFICES ASSUME NEW t \in Tags, NEW i \in Uuids, UserOf[i] \notin start.raced
               PROVE  /\ Settled(i)' => Good(t, i)'
                      /\ \A s \in Requests, q \in Request : req'[s] = q => Served(q, t, i)'
    BY <1>1 DEF Serving, Running
  <1>3. /\ Settled(i) => Good(t, i)
        /\ \A s \in Requests, q \in Request : req[s] = q => Served(q, t, i)
    BY <1>1 DEF Serving, Running
  <1>4. Settled(i)' => Good(t, i)'
    <2>1. SUFFICES ASSUME ~Settled(i), Settled(i)' PROVE Good(t, i)
      BY <1>2, <1>3, SameHolds
    <2>2. PICK s \in Requests : UserOf[i] \in Busy(s) /\ UserOf[i] \notin Busy(s)'
      BY <2>1 DEF Settled
    <2>3. s = r
      BY <1>1, <2>2 DEF Busy, At, ItemUser, OthersStay
    <2>4. UserOf[i] = ItemUser(req[r].item) /\ req[r].item \notin req[r].todo
      BY <1>1, <2>2, <2>3 DEF Busy, At, ItemUser
    <2>5. AtStage(Stage(req[r], t), req[r].item, t, i)
      BY <1>1, <1>3, <2>4, ActiveType DEF Served
    <2> QED BY <1>1, <2>5 DEF Stage, AtStage
  <1>5. ASSUME NEW s \in Requests, NEW q \in Request, req'[s] = q
        PROVE  Served(q, t, i)'
    <2>1. Sees(s)
      BY <1>1, <1>5, OthersSee DEF Idle, Request
    <2>2. t \in Kept => t \in xtls'
      BY <1>1 DEF KeptStay, Ready
    <2> QED BY <1>2, <1>3, <1>5, <2>1, <2>2, OthersServed
  <1> QED BY <1>4, <1>5

\* The panel wants something of users that no request is about.
LEMMA WantSame ==
  ASSUME TypeOK, NEW adds \in BOOLEAN, NEW items, Sent(items, adds), Want(items),
         UNCHANGED <<hash, core, failed>>, xtls \subseteq xtls',
         NEW t \in Tags, NEW i \in Uuids, \A m \in items : ItemUser(m) # UserOf[i]
  PROVE  Same(t, i)
  BY WantType DEF Sent, Same, ItemUser

LEMMA BeginServes ==
  ASSUME TypeOK, PanelInv, KeptStay, Serving, up', start'.at = "idle",
         NEW r \in Requests, NEW adds \in BOOLEAN, NEW items, Sent(items, adds),
         At(r, "idle"), NotBusy(items), Want(items), Begin(r, adds, items),
         UNCHANGED <<hash, up, core, failed, start>>, xtls \subseteq xtls',
         \A m \in items : m.tags \subseteq xtls'
  PROVE  Serving'
  <1>1. /\ OthersStay(r) /\ req'[r] \in {Idle} \cup Request
        /\ req'[r].at = "await" /\ req'[r].todo = items /\ req'[r].item \in items
    BY BeginType DEF OthersStay
  <1>2. ~At(r, "idle")' /\ req'[r] \in Request
    BY <1>1 DEF At, Idle
  <1> SUFFICES ASSUME NEW t \in Tags, NEW i \in Uuids, UserOf[i] \notin start.raced
               PROVE  /\ Settled(i)' => Good(t, i)'
                      /\ \A s \in Requests, q \in Request : req'[s] = q => Served(q, t, i)'
    BY DEF Serving, Running
  <1>3. /\ Settled(i) => Good(t, i)
        /\ \A s \in Requests, q \in Request : req[s] = q => Served(q, t, i)
    BY DEF Serving, Running
  <1>4. t \in Kept => t \in xtls'
    BY DEF KeptStay, Ready
  <1>5. CASE \A m \in items : ItemUser(m) # UserOf[i]
    <2>1. \A j \in Uuids : UserOf[j] = UserOf[i] => Same(t, j)
      BY <1>5, WantSame
    <2>2. Settled(i)' => Settled(i)
      <3>1. \A s \in Requests \ {r} : Busy(s)' = Busy(s)
        BY <1>1 DEF OthersStay, Busy, At, ItemUser
      <3> QED BY <3>1 DEF Settled, Busy
    <2>3. Settled(i)' => Good(t, i)'
      BY <1>3, <2>1, <2>2, SameHolds
    <2>4. ASSUME NEW s \in Requests, NEW q \in Request, req'[s] = q
          PROVE  Served(q, t, i)'
      <3>1. CASE s # r
        <4>1. Sees(s)
          BY <1>1, <3>1, OthersSee
        <4> QED BY <1>3, <1>4, <2>1, <2>4, <4>1, OthersServed
      <3>2. CASE s = r
        <4>1. \A m \in q.todo \cup {q.item} : ItemUser(m) # UserOf[i]
          BY <1>1, <1>5, <2>4, <3>2
        <4> QED BY <4>1 DEF Served, ItemUser
      <3> QED BY <3>1, <3>2
    <2> QED BY <2>3, <2>4
  <1>6. CASE \E m \in items : ItemUser(m) = UserOf[i]
    <2>1. PICK m \in items : ItemUser(m) = UserOf[i]
      BY <1>6
    <2>2. Settled(i)
      BY <2>1 DEF Settled, NotBusy
    <2>3. ~Settled(i)'
      BY <1>1, <1>2, <2>1 DEF Settled, Busy, ItemUser
    <2>4. Reachable(m, t, i)'
      <3>1. i \in panel[t] => i = m.prev
        <4>1. SUFFICES ASSUME i \in panel[t] PROVE i = m.prev
          OBVIOUS
        <4>2. i \in Listed(ItemUser(m))
          BY <2>1, <4>1 DEF Listed, TypeOK
        <4>3. m.prev \in Listed(ItemUser(m))
          BY <4>2 DEF Sent
        <4>4. PICK s \in Tags : m.prev \in panel[s] /\ UserOf[m.prev] = ItemUser(m)
          BY <4>3 DEF Listed
        <4> QED BY <2>1, <4>1, <4>4 DEF PanelInv, OneUuid
      <3>2. Good(t, i)
        BY <1>3, <2>2
      <3> QED BY <3>1, <3>2 DEF Good, Reachable, Untouched
    <2>5. ASSUME NEW s \in Requests, NEW q \in Request, req'[s] = q
          PROVE  Served(q, t, i)'
      <3>1. CASE s # r
        <4>1. req[s] = q
          BY <1>1, <2>5, <3>1 DEF OthersStay
        <4>2. UserOf[i] \notin Busy(s) /\ ~At(s, "idle")
          BY <2>2, <4>1 DEF Settled, At, Request
        <4>3. \A n \in q.todo \cup {q.item} : ItemUser(n) # UserOf[i]
          BY <4>1, <4>2 DEF Busy
        <4> QED BY <4>3 DEF Served, ItemUser
      <3>2. CASE s = r
        <4>1. q.todo = items /\ q.item \in items
          BY <1>1, <2>5, <3>2
        <4>2. \A n \in items : ItemUser(n) = UserOf[i] => n = m
          BY <2>1 DEF Sent
        <4> QED BY <2>4, <4>1, <4>2 DEF Served, ItemUser
      <3> QED BY <3>1, <3>2
    <2> QED BY <2>3, <2>5
  <1> QED BY <1>5, <1>6

LEMMA ReceiveServes ==
  ASSUME TypeOK, PanelInv, KeptStay, Serving, up', start'.at = "idle",
         NEW r \in Requests, ReceiveAdd(r) \/ ReceiveRemove(r)
  PROVE  Serving'
  <1>1. At(r, "idle")
    BY DEF ReceiveAdd, ReceiveRemove
  <1>2. CASE ReceiveAdd(r)
    <2>1. PICK items \in OnePerUser(AddItems) :
            /\ NotBusy(items) /\ Want(items) /\ Begin(r, TRUE, items) /\ Overlap(items)
            /\ xtls' = xtls \cup UNION {m.tags : m \in items}
            /\ UNCHANGED <<hash, up, core, failed>>
      BY <1>2 DEF ReceiveAdd
    <2>2. xtls \subseteq xtls' /\ \A m \in items : m.tags \subseteq xtls'
      BY <2>1
    <2>3. UNCHANGED start
      BY <2>1, SentType, OverlapType DEF Sent
    <2> QED BY <1>1, <2>1, <2>2, <2>3, SentType, BeginServes
  <1>3. CASE ReceiveRemove(r)
    <2>1. PICK items \in OnePerUser(RemoveItems) :
            /\ NotBusy(items) /\ Want(items)
            /\ (xtls = {} /\ UNCHANGED req) \/ Begin(r, FALSE, items)
            /\ UNCHANGED <<hash, xtls, up, core, failed, start>>
      BY <1>3, SentType, OverlapType DEF ReceiveRemove, registry, Sent
    <2>2. Sent(items, FALSE)
      BY SentType
    <2>3. CASE Begin(r, FALSE, items)
      <3>1. xtls \subseteq xtls' /\ \A m \in items : m.tags \subseteq xtls'
        BY <2>1, <2>2 DEF Sent
      <3> QED BY <1>1, <2>1, <2>2, <2>3, <3>1, BeginServes
    <2>4. CASE xtls = {} /\ UNCHANGED req
      <3> SUFFICES ASSUME NEW t \in Tags, NEW i \in Uuids, UserOf[i] \notin start.raced
                   PROVE  /\ Settled(i)' => Good(t, i)'
                          /\ \A s \in Requests, q \in Request : req'[s] = q => Served(q, t, i)'
        BY <2>1 DEF Serving, Running
      <3>1. /\ Settled(i) => Good(t, i)
            /\ \A s \in Requests, q \in Request : req[s] = q => Served(q, t, i)
        BY <2>1 DEF Serving, Running
      <3>2. t \notin Kept
        BY <2>1, <2>4 DEF KeptStay, Ready
      <3>3. Settled(i)' <=> Settled(i)
        BY <2>4 DEF Settled, Busy, ItemUser, At
      <3>4. i \in panel'[t] => i \in panel[t]
        BY <2>1, <2>2, WantType DEF Sent
      <3>5. Settled(i)' => Good(t, i)'
        BY <2>1, <3>1, <3>2, <3>3, <3>4 DEF Good
      <3>6. ASSUME NEW s \in Requests, NEW q \in Request, req'[s] = q
            PROVE  Served(q, t, i)'
        <4>1. CASE \A m \in items : ItemUser(m) # UserOf[i]
          <5>1. \A j \in Uuids : UserOf[j] = UserOf[i] => Same(t, j)
            BY <2>1, <2>2, <4>1, WantSame
          <5> QED BY <2>4, <3>1, <3>2, <3>6, <5>1, OthersServed DEF Sees
        <4>2. CASE \E m \in items : ItemUser(m) = UserOf[i]
          <5>1. UserOf[i] \notin Busy(s) /\ ~At(s, "idle") /\ req[s] = q
            BY <2>1, <2>4, <3>6, <4>2 DEF NotBusy, At, Request
          <5>2. \A n \in q.todo \cup {q.item} : ItemUser(n) # UserOf[i]
            BY <5>1 DEF Busy
          <5> QED BY <5>2 DEF Served, ItemUser
        <4> QED BY <4>1, <4>2
      <3> QED BY <3>5, <3>6
    <2> QED BY <2>1, <2>3, <2>4
  <1> QED BY <1>2, <1>3

LEMMA StartCoreServes ==
  ASSUME TypeOK, StartApart, StartCore
  PROVE  Serving'
  <1>1. /\ UNCHANGED <<panel, registry, req>> /\ start.at = "stopped"
        /\ core' = start.config /\ failed' = FALSE /\ start'.raced = start.raced
    BY DEF StartCore, TypeOK
  <1> SUFFICES ASSUME NEW t \in Tags, NEW i \in Uuids, UserOf[i] \notin start.raced
               PROVE  /\ Good(t, i)'
                      /\ \A r \in Requests, q \in Request : req'[r] = q => Served(q, t, i)'
    BY <1>1 DEF Serving
  <1>2. /\ i \in start.config[t] <=> i \in panel[t]
        /\ i \in hash[t] <=> i \in panel[t]
        /\ \A r \in Requests : UserOf[i] \notin Busy(r)
    BY <1>1 DEF StartApart
  <1>3. Good(t, i)'
    BY <1>1, <1>2 DEF Good, registry
  <1>4. ASSUME NEW r \in Requests, NEW q \in Request, req'[r] = q
        PROVE  Served(q, t, i)'
    <2>1. \A m \in q.todo \cup {q.item} : ItemUser(m) # UserOf[i]
      BY <1>1, <1>2, <1>4 DEF Busy, At, Request, Awaits
    <2> QED BY <2>1 DEF Served, ItemUser
  <1> QED BY <1>3, <1>4

LEMMA ServingStep ==
  ASSUME TypeOK, UsersInv, KeptStay', [Next]_vars
  PROVE  Serving'
  <1> SUFFICES ASSUME up', start'.at = "idle" PROVE Serving'
    BY DEF Serving, Running
  <1>1. CASE UNCHANGED vars
    <2>1. UNCHANGED <<panel, hash, mapped, xtls, up, core, failed, start, req>>
      BY <1>1 DEF vars, registry
    <2>2. \A t \in Tags, i \in Uuids : Same(t, i)
      BY <2>1 DEF Same
    <2>3. \A i \in Uuids : Settled(i)' <=> Settled(i)
      BY <2>1 DEF Settled, Busy, ItemUser, At
    <2>4. ASSUME NEW t \in Tags, NEW i \in Uuids, UserOf[i] \notin start.raced
          PROVE  /\ Settled(i)' => Good(t, i)'
                 /\ \A s \in Requests, q \in Request : req'[s] = q => Served(q, t, i)'
      <3>1. /\ Settled(i) => Good(t, i)
            /\ \A s \in Requests, q \in Request : req[s] = q => Served(q, t, i)
        BY <2>1, <2>4 DEF UsersInv, Serving, Running
      <3>2. t \in Kept => t \in xtls'
        BY DEF KeptStay, Ready
      <3>3. \A s \in Requests : Sees(s)
        BY <2>1 DEF Sees
      <3>4. Settled(i)' => Good(t, i)'
        BY <2>2, <2>3, <3>1, SameHolds
      <3> QED BY <2>2, <3>1, <3>2, <3>3, <3>4, OthersServed
    <2> QED BY <2>1, <2>4 DEF Serving
  <1>2. CASE ExtractUsersFromConfig \/ StopCore
    BY <1>2 DEF ExtractUsersFromConfig, StopCore, TypeOK
  <1>3. CASE StartCore
    BY <1>3, StartCoreServes DEF UsersInv
  <1>4. ASSUME NEW r \in Requests,
               \/ ReceiveAdd(r) \/ ReceiveRemove(r) \/ NextUser(r)
               \/ RemoveFromCore(r) \/ RemoveFromRegistry(r)
               \/ AddToCore(r) \/ AddToRegistry(r) \/ UserInserted(r) \/ Answer(r)
        PROVE  Serving'
    BY <1>4, ReceiveServes, NextUserServes, RemoveFromCoreServes, RemoveFromRegistryServes,
       AddToCoreServes, AddToRegistryServes, UserInsertedServes, AnswerServes DEF UsersInv
  <1> QED BY <1>1, <1>2, <1>3, <1>4 DEF Next

LEMMA StartApartStep ==
  ASSUME TypeOK, PanelInv, StartApart, [Next]_vars
  PROVE  StartApart'
  <1> DEFINE Apart(t, i) == /\ i \in start.config[t] <=> i \in panel[t]
                            /\ i \in hash[t] <=> i \in panel[t]
  <1> SUFFICES ASSUME start'.at # "idle"
               PROVE  /\ \A r \in Requests : Busy(r)' \subseteq start'.raced
                      /\ \A t \in Tags, i \in Uuids :
                           UserOf[i] \notin start'.raced => Apart(t, i)'
    BY DEF StartApart
  <1>1. start.at # "idle" =>
          /\ \A r \in Requests : Busy(r) \subseteq start.raced
          /\ \A t \in Tags, i \in Uuids : UserOf[i] \notin start.raced => Apart(t, i)
    BY DEF StartApart
  <1>2. CASE ExtractUsersFromConfig
    <2>1. \A r \in Requests : Busy(r)' = Busy(r)
      BY <1>2, StartWalks, WalksBusy
    <2> QED BY <1>2, <2>1 DEF ExtractUsersFromConfig
  <1>3. CASE StopCore
    <2>1. start'.raced = start.raced /\ start'.config = start.config /\ start.at # "idle"
      BY <1>3 DEF StopCore, TypeOK
    <2>2. \A r \in Requests : Busy(r)' = Busy(r)
      BY <1>3, StartWalks, WalksBusy
    <2> QED BY <1>1, <1>3, <2>1, <2>2 DEF StopCore, registry
  <1>4. CASE StartCore
    BY <1>4 DEF StartCore, TypeOK
  <1>5. ASSUME NEW r \in Requests, ReceiveAdd(r) \/ ReceiveRemove(r)
        PROVE  /\ \A s \in Requests : Busy(s)' \subseteq start'.raced
               /\ \A t \in Tags, i \in Uuids : UserOf[i] \notin start'.raced => Apart(t, i)'
    <2>1. PICK adds \in BOOLEAN, items \in SUBSET Items :
            /\ Sent(items, adds) /\ Want(items) /\ Overlap(items) /\ UNCHANGED hash
            /\ UNCHANGED req \/ Begin(r, adds, items)
      <3>1. CASE ReceiveAdd(r)
        <4>1. PICK items \in OnePerUser(AddItems) :
                Want(items) /\ Overlap(items) /\ UNCHANGED hash /\ Begin(r, TRUE, items)
          BY <3>1 DEF ReceiveAdd
        <4> QED BY <4>1, SentType DEF Sent
      <3>2. CASE ReceiveRemove(r)
        <4>1. PICK items \in OnePerUser(RemoveItems) :
                /\ Want(items) /\ Overlap(items) /\ UNCHANGED hash
                /\ UNCHANGED req \/ Begin(r, FALSE, items)
          BY <3>2 DEF ReceiveRemove, registry
        <4> QED BY <4>1, SentType DEF Sent
      <3> QED BY <1>5, <3>1, <3>2
    <2>2. /\ start.at # "idle" /\ start'.config = start.config
          /\ start'.raced = start.raced \cup {ItemUser(m) : m \in items}
      BY <2>1, OverlapType DEF Sent
    <2>3. ASSUME NEW s \in Requests
          PROVE  Busy(s)' \subseteq start'.raced
      <3>1. CASE req'[s] = req[s]
        BY <1>1, <2>2, <3>1 DEF Busy, At, ItemUser
      <3>2. CASE req'[s] # req[s]
        <4>1. s = r /\ req'[s].at = "await" /\ req'[s].todo = items /\ req'[s].item \in items
          BY <2>1, <3>2, BeginType
        <4> QED BY <2>2, <4>1 DEF Busy, At, ItemUser
      <3> QED BY <3>1, <3>2
    <2>4. ASSUME NEW t \in Tags, NEW i \in Uuids, UserOf[i] \notin start'.raced
          PROVE  Apart(t, i)'
      <3>1. \A m \in items : UserOf[i] # ItemUser(m) /\ (i = m.next => UserOf[i] = ItemUser(m))
        BY <2>2, <2>4 DEF ItemUser
      <3>2. i \in panel'[t] <=> i \in panel[t]
        BY <2>1, <3>1, WantType DEF Sent
      <3> QED BY <1>1, <2>1, <2>2, <2>4, <3>2
    <2> QED BY <2>3, <2>4
  <1>6. ASSUME NEW r \in Requests, NextUser(r) \/ Answer(r)
        PROVE  /\ \A s \in Requests : Busy(s)' \subseteq start'.raced
               /\ \A t \in Tags, i \in Uuids : UserOf[i] \notin start'.raced => Apart(t, i)'
    <2>1. UNCHANGED <<panel, hash, start>>
      BY <1>6 DEF NextUser, Answer, registry
    <2>2. \A s \in Requests : Busy(s)' \subseteq Busy(s)
      <3>1. CASE NextUser(r)
        <4>1. PICK item \in req[r].todo, q \in Request :
                 /\ req'[r] = q /\ OthersStay(r)
                 /\ q.todo = req[r].todo \ {item} /\ q.item = item
          BY <3>1, NextUserGoes
        <4>2. ~At(r, "idle")
          BY <3>1 DEF NextUser, At
        <4> QED BY <4>1, <4>2 DEF Busy, At, ItemUser, OthersStay
      <3>2. CASE Answer(r)
        BY <3>2 DEF Answer, Busy, At, ItemUser, Idle, TypeOK
      <3> QED BY <1>6, <3>1, <3>2
    <2> QED BY <1>1, <2>1, <2>2
  <1>7. ASSUME NEW r \in Requests,
               \/ RemoveFromCore(r) \/ RemoveFromRegistry(r) \/ AddToCore(r)
               \/ AddToRegistry(r) \/ UserInserted(r)
        PROVE  /\ \A s \in Requests : Busy(s)' \subseteq start'.raced
               /\ \A t \in Tags, i \in Uuids : UserOf[i] \notin start'.raced => Apart(t, i)'
    <2>1. Walks /\ ~At(r, "idle")
      BY <1>7, StepWalks
    <2>2. \A s \in Requests : Busy(s)' = Busy(s)
      BY <2>1, WalksBusy
    <2>3. UNCHANGED <<panel, start>>
      BY <1>7 DEF RemoveFromCore, RemoveFromRegistry, AddToCore, AddToRegistry, UserInserted
    <2>4. ItemUser(req[r].item) \in Busy(r) /\ UserOf[req[r].item.prev] = ItemUser(req[r].item)
      BY <2>1 DEF Busy, PanelInv, ItemsKept, ItemsOK
    <2>5. ASSUME NEW t \in Tags, NEW i \in Uuids, UserOf[i] # ItemUser(req[r].item)
          PROVE  i \in hash'[t] <=> i \in hash[t]
      <3>1. CASE RemoveFromRegistry(r)
        <4>1. req[r].tag \in Tags /\ req[r].item.prev \in Uuids
          BY <2>1, ActiveType DEF Items
        <4> QED BY <2>4, <2>5, <3>1, <4>1, RegistryType DEF RemoveFromRegistry
      <3>2. CASE AddToRegistry(r)
        <4>1. hash' = [hash EXCEPT ![req[r].tag] = @ \cup {req[r].item.next}]
          BY <3>2, AddToRegistryGoes
        <4> QED BY <2>5, <4>1 DEF TypeOK, ItemUser
      <3>3. CASE UNCHANGED hash
        BY <3>3
      <3> QED BY <1>7, <3>1, <3>2, <3>3 DEF RemoveFromCore, AddToCore, UserInserted, registry
    <2> QED BY <1>1, <2>2, <2>3, <2>4, <2>5
  <1>8. CASE UNCHANGED vars
    BY <1>1, <1>8 DEF vars, registry, Busy, At, ItemUser
  <1> QED BY <1>2, <1>3, <1>4, <1>5, <1>6, <1>7, <1>8 DEF Next

LEMMA UsersInvHolds == Spec => [](TypeOK /\ UsersInv)
  <1>1. Init => UsersInv
    BY PanelInit, KeptInit DEF Init, UsersInv, StartApart, Serving, Running
  <1>2. TypeOK /\ UsersInv /\ [Next]_vars => UsersInv'
    BY PanelStep, KeptStep, ServingStep, StartApartStep DEF UsersInv
  <1> QED BY <1>1, <1>2, TypesInit, TypesStep, PTL DEF Spec

\* Once the requests about a user are answered, xray serves that user as the
\* panel wants it, in the inbounds that keep a user, whatever requests about
\* other users do meanwhile: only a user whose request overlapped the last start
\* is left out.
THEOREM CoreServed == Spec => []CoreServesPanel
  <1>1. ASSUME TypeOK, UsersInv
        PROVE  CoreServesPanel
    <2>1. \A t \in Kept : t \in Tags
      BY DEF Kept
    <2> QED BY <1>1, <2>1 DEF CoreServesPanel, UsersInv, Undisturbed, Serving, Good
  <1> QED BY <1>1, UsersInvHolds, PTL

\* The hashes of those inbounds are those of the users xray serves.
THEOREM RegistryMatches == Spec => []RegistryKnowsCore
  <1>1. ASSUME UsersInv
        PROVE  RegistryKnowsCore
    <2>1. \A t \in Kept : t \in Tags
      BY DEF Kept
    <2> QED BY <1>1, <2>1 DEF RegistryKnowsCore, UsersInv, Undisturbed, Serving, Good
  <1> QED BY <1>1, UsersInvHolds, PTL

\* A user whose addition was answered is served in every inbound, those that
\* lost their last user in between included.
THEOREM AddedServed == Spec => []AddedUsersServed
  <1>1. ASSUME TypeOK, UsersInv
        PROVE  AddedUsersServed
    <2>1. \A t \in Tags : panel[t] \subseteq Uuids
      BY <1>1 DEF TypeOK
    <2> QED BY <1>1, <2>1 DEF AddedUsersServed, UsersInv, Undisturbed, Serving, Good
  <1> QED BY <1>1, UsersInvHolds, PTL

\* Whatever calls fail, the hashes promise no user xray does not serve, but for
\* the users of requests that overlapped the last start.
THEOREM HashedServed == Spec => []HashedUsersServed
  <1>1. ASSUME TypeOK, UsersInv
        PROVE  HashedUsersServed
    <2>1. \A t \in Kept : t \in Tags /\ hash[t] \subseteq Uuids
      BY <1>1 DEF Kept, TypeOK
    <2> QED BY <1>1, <2>1 DEF HashedUsersServed, UsersInv, Undisturbed, Serving, Good
  <1> QED BY <1>1, UsersInvHolds, PTL
=============================================================================
