------------------------- MODULE SingBoxStatsProofs -------------------------
(* Proofs about SingBoxStats, for any number of calls and any traffic. *)
EXTENDS SingBoxStats, TLAPS

LEMMA TypeInit == Init => TypeOK
  <1> SUFFICES ASSUME Init PROVE TypeOK  OBVIOUS
  <1>1. Idle \in [op : Ops \cup {"none"}, at : {"idle", "query", "answer", "kill"},
                  cats : SUBSET Categories, read : SUBSET Chunks]
    BY DEF Idle
  <1> QED BY <1>1 DEF Init, TypeOK

LEMMA TypeStep ==
  ASSUME TypeOK, [Next]_vars
  PROVE  TypeOK'
  <1> USE DEF TypeOK, Ops, Idle, places, Waits
  <1>1. CASE Transfer  BY <1>1 DEF Transfer
  <1>2. CASE Crash  BY <1>2 DEF Crash
  <1>3. ASSUME NEW r \in Requests, Call(r) PROVE TypeOK'
    BY <1>3 DEF Call, FirstStep
  <1>4. ASSUME NEW r \in Requests, Query(r) PROVE TypeOK'
    BY <1>4 DEF Query
  <1>5. ASSUME NEW r \in Requests, QueryFails(r) PROVE TypeOK'
    BY <1>5 DEF QueryFails, AfterFailure
  <1>6. ASSUME NEW r \in Requests, AnswerLost(r) PROVE TypeOK'
    BY <1>6 DEF AnswerLost, AfterFailure
  <1>7. ASSUME NEW r \in Requests, AccumulateAndReset(r) PROVE TypeOK'
    BY <1>7 DEF AccumulateAndReset
  <1>8. ASSUME NEW r \in Requests, GetView(r) PROVE TypeOK'
    BY <1>8 DEF GetView
  <1>9. ASSUME NEW r \in Requests, GetSnapshot(r) PROVE TypeOK'
    BY <1>9 DEF GetSnapshot
  <1>10. ASSUME NEW r \in Requests, KillCore(r) PROVE TypeOK'
    BY <1>10 DEF KillCore
  <1>11. ASSUME NEW r \in Requests, RestartGivenUp(r) PROVE TypeOK'
    BY <1>11 DEF RestartGivenUp
  <1>12. CASE UNCHANGED vars  BY <1>12 DEF vars
  <1> QED BY <1>1, <1>2, <1>3, <1>4, <1>5, <1>6, <1>7, <1>8, <1>9, <1>10, <1>11,
             <1>12 DEF Next

-----------------------------------------------------------------------------
(* The inductive invariant.  A call that is not between the answer of the   *)
(* core and the code that places it carries nothing: without this a new     *)
(* call could overwrite traffic that an earlier one still carries.          *)

NothingStale == \A r \in Requests : ~Waits(r, "answer") => call[r].read = {}

\* CountedOnce and NothingForgotten, chunk by chunk.
Apart(A, B) == \A k \in Chunks : ~(k \in A /\ k \in B)
InPlace(k) ==
    k \in fresh \/ k \in counters \/ k \in accumulated \/ k \in reported \/ k \in lost
PlacesApart ==
    /\ Apart(fresh, counters) /\ Apart(fresh, accumulated)
    /\ Apart(fresh, reported) /\ Apart(fresh, lost)
    /\ Apart(counters, accumulated) /\ Apart(counters, reported)
    /\ Apart(counters, lost) /\ Apart(accumulated, reported)
    /\ Apart(accumulated, lost) /\ Apart(reported, lost)
CarriedApart ==
    \A r \in Requests, k \in Chunks :
        k \in Carried(r) => /\ ~InPlace(k)
                            /\ \A q \in Requests : k \in Carried(q) => q = r
Accounted == \A k \in Chunks : InPlace(k) \/ \E r \in Requests : k \in Carried(r)

StatsInv == TypeOK /\ NothingStale /\ PlacesApart /\ CarriedApart /\ Accounted

\* What a step does to what its request carries; the others keep theirs.
Carries(r, S) ==
    /\ Carried(r)' = S
    /\ \A q \in Requests : q # r => Carried(q)' = Carried(q)

LEMMA CarriedStep ==
  ASSUME TypeOK, NothingStale, NEW r \in Requests
  PROVE  /\ Call(r) => Carries(r, {}) /\ Carried(r) = {}
         /\ Query(r) => /\ Carried(r) = {}
                        /\ Carries(r, IF call[r].op = "view" THEN {} ELSE counters)
         /\ QueryFails(r) => Carries(r, {}) /\ Carried(r) = {}
         /\ AnswerLost(r) => Carries(r, {})
         /\ AccumulateAndReset(r) => Carries(r, {}) /\ Carried(r) = call[r].read
         /\ GetView(r) => Carries(r, {}) /\ Carried(r) = {}
         /\ GetSnapshot(r) => Carries(r, {}) /\ Carried(r) = call[r].read
         /\ KillCore(r) => Carries(r, {}) /\ Carried(r) = {}
         /\ RestartGivenUp(r) => Carries(r, {}) /\ Carried(r) = {}
  <1> USE DEF TypeOK, NothingStale, Carries, Carried, Waits, Idle, AfterFailure
  <1>1. Call(r) => Carries(r, {}) /\ Carried(r) = {}
    BY DEF Call, FirstStep
  <1>2. Query(r) => /\ Carried(r) = {}
                    /\ Carries(r, IF call[r].op = "view" THEN {} ELSE counters)
    BY DEF Query
  <1>3. QueryFails(r) => Carries(r, {}) /\ Carried(r) = {}
    BY DEF QueryFails
  <1>4. AnswerLost(r) => Carries(r, {})
    BY DEF AnswerLost
  <1>5. AccumulateAndReset(r) => Carries(r, {}) /\ Carried(r) = call[r].read
    BY DEF AccumulateAndReset
  <1>6. GetView(r) => Carries(r, {}) /\ Carried(r) = {}
    BY DEF GetView
  <1>7. GetSnapshot(r) => Carries(r, {}) /\ Carried(r) = call[r].read
    BY DEF GetSnapshot
  <1>8. KillCore(r) => Carries(r, {}) /\ Carried(r) = {}
    BY DEF KillCore
  <1>9. RestartGivenUp(r) => Carries(r, {}) /\ Carried(r) = {}
    BY DEF RestartGivenUp
  <1> QED BY <1>1, <1>2, <1>3, <1>4, <1>5, <1>6, <1>7, <1>8, <1>9

LEMMA StaleStep ==
  ASSUME TypeOK, NothingStale, [Next]_vars
  PROVE  NothingStale'
  <1> USE DEF TypeOK, NothingStale, Waits, Idle
  <1>1. CASE UNCHANGED call  BY <1>1
  <1>2. ASSUME NEW r \in Requests, Call(r) PROVE NothingStale'
    BY <1>2 DEF Call, FirstStep
  <1>3. ASSUME NEW r \in Requests, Query(r) PROVE NothingStale'
    BY <1>3 DEF Query
  <1>4. ASSUME NEW r \in Requests, QueryFails(r) PROVE NothingStale'
    BY <1>4 DEF QueryFails, AfterFailure
  <1>5. ASSUME NEW r \in Requests, AnswerLost(r) PROVE NothingStale'
    BY <1>5 DEF AnswerLost, AfterFailure
  <1>6. ASSUME NEW r \in Requests, AccumulateAndReset(r) PROVE NothingStale'
    BY <1>6 DEF AccumulateAndReset
  <1>7. ASSUME NEW r \in Requests, GetView(r) PROVE NothingStale'
    BY <1>7 DEF GetView
  <1>8. ASSUME NEW r \in Requests, GetSnapshot(r) PROVE NothingStale'
    BY <1>8 DEF GetSnapshot
  <1>9. ASSUME NEW r \in Requests, KillCore(r) PROVE NothingStale'
    BY <1>9 DEF KillCore
  <1>10. ASSUME NEW r \in Requests, RestartGivenUp(r) PROVE NothingStale'
    BY <1>10 DEF RestartGivenUp
  <1> QED BY <1>1, <1>2, <1>3, <1>4, <1>5, <1>6, <1>7, <1>8, <1>9, <1>10
          DEF Next, vars, Transfer, Crash

-----------------------------------------------------------------------------
(* Each action keeps traffic accounted for, once.                           *)

Placed == PlacesApart /\ CarriedApart /\ Accounted

LEMMA InitPlaced == Init => Placed
  BY DEF Init, Placed, PlacesApart, Apart, CarriedApart, Accounted, InPlace, Carried, Idle

LEMMA CoreStep ==
  ASSUME StatsInv, Transfer \/ Crash \/ UNCHANGED vars
  PROVE  Placed'
  <1>1. \A r \in Requests : Carried(r)' = Carried(r)
    BY DEF Carried, Transfer, Crash, vars
  <1> USE DEF StatsInv, TypeOK, Placed, PlacesApart, Apart, CarriedApart, Accounted, InPlace
  <1>2. CASE Transfer
    BY <1>1, <1>2 DEF Transfer
  <1>3. CASE Crash
    BY <1>1, <1>3 DEF Crash
  <1>4. CASE UNCHANGED vars
    BY <1>1, <1>4 DEF vars, places
  <1> QED BY <1>2, <1>3, <1>4

LEMMA CallStep ==
  ASSUME StatsInv, NEW r \in Requests,
         Call(r) \/ Query(r) \/ QueryFails(r) \/ AnswerLost(r)
         \/ AccumulateAndReset(r) \/ GetView(r) \/ GetSnapshot(r)
         \/ KillCore(r) \/ RestartGivenUp(r)
  PROVE  Placed'
  <1> USE DEF StatsInv, TypeOK, Placed, PlacesApart, Apart, CarriedApart, Accounted, InPlace
  <1>1. CASE Call(r)
    <2>1. Carries(r, {}) /\ Carried(r) = {}
      BY <1>1, CarriedStep
    <2> QED BY <1>1, <2>1 DEF Call, Carries, places
  <1>2. CASE Query(r)
    <2>1. /\ Carried(r) = {}
           /\ Carries(r, IF call[r].op = "view" THEN {} ELSE counters)
      BY <1>2, CarriedStep
    <2> QED BY <1>2, <2>1 DEF Query, Carries, places
  <1>3. CASE QueryFails(r)
    <2>1. Carries(r, {}) /\ Carried(r) = {}
      BY <1>3, CarriedStep
    <2> QED BY <1>3, <2>1 DEF QueryFails, Carries, places
  <1>4. CASE AnswerLost(r)
    <2>1. Carries(r, {})
      BY <1>4, CarriedStep
    <2> QED BY <1>4, <2>1 DEF AnswerLost, Carries, places, Carried
  <1>5. CASE AccumulateAndReset(r)
    <2>1. Carries(r, {}) /\ Carried(r) = call[r].read
      BY <1>5, CarriedStep
    <2> QED BY <1>5, <2>1 DEF AccumulateAndReset, Carries, places
  <1>6. CASE GetView(r)
    <2>1. Carries(r, {}) /\ Carried(r) = {}
      BY <1>6, CarriedStep
    <2> QED BY <1>6, <2>1 DEF GetView, Carries, places
  <1>7. CASE GetSnapshot(r)
    <2>1. Carries(r, {}) /\ Carried(r) = call[r].read
      BY <1>7, CarriedStep
    <2> QED BY <1>7, <2>1 DEF GetSnapshot, Carries, places
  <1>8. CASE KillCore(r)
    <2>1. Carries(r, {}) /\ Carried(r) = {}
      BY <1>8, CarriedStep
    <2> QED BY <1>8, <2>1 DEF KillCore, Carries, places
  <1>9. CASE RestartGivenUp(r)
    <2>1. Carries(r, {}) /\ Carried(r) = {}
      BY <1>9, CarriedStep
    <2> QED BY <1>9, <2>1 DEF RestartGivenUp, Carries, places
  <1> QED BY <1>1, <1>2, <1>3, <1>4, <1>5, <1>6, <1>7, <1>8, <1>9

LEMMA StatsInvStep ==
  ASSUME StatsInv, [Next]_vars
  PROVE  StatsInv'
  <1>1. TypeOK' /\ NothingStale'
    BY TypeStep, StaleStep DEF StatsInv
  <1>2. Placed'
    BY CoreStep, CallStep DEF Next
  <1> QED BY <1>1, <1>2 DEF StatsInv, Placed

LEMMA StatsInvInit == Init => StatsInv
  <1>1. Init => NothingStale
    BY DEF Init, NothingStale, Idle
  <1> QED BY <1>1, TypeInit, InitPlaced DEF StatsInv, Placed

-----------------------------------------------------------------------------
(* Back to the properties, which speak of places by their number.           *)

LEMMA PlacesNumbered ==
  /\ places[1] = fresh /\ places[2] = counters /\ places[3] = accumulated
  /\ places[4] = reported /\ places[5] = lost
  /\ 1..5 = {1, 2, 3, 4, 5}
  BY DEF places

LEMMA PlacesTyped == TypeOK => \A i \in 1..5 : places[i] \subseteq Chunks
  BY PlacesNumbered DEF TypeOK

LEMMA InvCountedOnce == StatsInv => CountedOnce
  <1> SUFFICES ASSUME StatsInv PROVE CountedOnce  OBVIOUS
  <1>1. \A i, j \in 1..5 : i # j => places[i] \cap places[j] = {}
    BY PlacesNumbered DEF StatsInv, TypeOK, PlacesApart, Apart
  <1>2. \A r \in Requests : Carried(r) \subseteq Chunks
    BY DEF StatsInv, TypeOK, Carried
  <1>3. ASSUME NEW r \in Requests, NEW i \in 1..5 PROVE Carried(r) \cap places[i] = {}
    BY <1>2, PlacesNumbered DEF StatsInv, CarriedApart, InPlace
  <1>4. ASSUME NEW r \in Requests, NEW q \in Requests, q # r
        PROVE  Carried(r) \cap Carried(q) = {}
    BY <1>2, <1>4 DEF StatsInv, CarriedApart
  <1> QED BY <1>1, <1>3, <1>4 DEF CountedOnce

LEMMA InvNothingForgotten == StatsInv => NothingForgotten
  <1> SUFFICES ASSUME StatsInv PROVE NothingForgotten  OBVIOUS
  <1> DEFINE Somewhere == (UNION {places[i] : i \in 1..5})
                            \cup (UNION {Carried(r) : r \in Requests})
  <1>1. ASSUME NEW k \in Chunks PROVE k \in Somewhere
    <2>1. InPlace(k) => \E i \in 1..5 : k \in places[i]
      BY PlacesNumbered DEF InPlace
    <2>2. InPlace(k) \/ \E r \in Requests : k \in Carried(r)
      BY DEF StatsInv, Accounted
    <2>3. CASE \E i \in 1..5 : k \in places[i]
      <3>1. PICK i \in 1..5 : k \in places[i]  BY <2>3
      <3>2. places[i] \in {places[j] : j \in 1..5}  OBVIOUS
      <3>3. k \in UNION {places[j] : j \in 1..5}  BY <3>1, <3>2
      <3> QED BY <3>3
    <2>4. CASE \E r \in Requests : k \in Carried(r)
      <3>1. PICK r \in Requests : k \in Carried(r)  BY <2>4
      <3>2. Carried(r) \in {Carried(q) : q \in Requests}  OBVIOUS
      <3>3. k \in UNION {Carried(q) : q \in Requests}  BY <3>1, <3>2
      <3> QED BY <3>3
    <2> QED BY <2>1, <2>2, <2>3, <2>4
  <1>2. \A r \in Requests : Carried(r) \subseteq Chunks
    BY DEF StatsInv, TypeOK, Carried
  <1>3. \A i \in 1..5 : places[i] \subseteq Chunks
    BY PlacesTyped DEF StatsInv
  <1>4. Somewhere \subseteq Chunks
    <2>1. UNION {places[i] : i \in 1..5} \subseteq Chunks  BY <1>3
    <2>2. UNION {Carried(r) : r \in Requests} \subseteq Chunks  BY <1>2
    <2> QED BY <2>1, <2>2
  <1> QED BY <1>1, <1>4 DEF NothingForgotten

LEMMA StatsInvariant == Spec => []StatsInv
  BY StatsInvInit, StatsInvStep, PTL DEF Spec

\* The state of SingBoxStatsService and of its callers stays well formed.
THEOREM StatsTypeCorrect == Spec => []TypeOK
  <1>1. StatsInv => TypeOK  BY DEF StatsInv
  <1> QED BY <1>1, StatsInvariant, PTL

\* accumulateAndReset and getSnapshot never count a chunk of traffic twice,
\* for any number of concurrent calls, whatever fails.
THEOREM TrafficCountedOnce == Spec => []CountedOnce
  BY StatsInvariant, InvCountedOnce, PTL

\* Traffic is lost only with a core process or with an answer of the core,
\* never in the hands of the node.
THEOREM TrafficAccountedFor == Spec => []NothingForgotten
  BY StatsInvariant, InvNothingForgotten, PTL
=============================================================================
