-------------------------- MODULE MonitoringProofs --------------------------
(***************************************************************************)
(* Proofs about Monitoring for any number of requests, counters and        *)
(* interfaces.                                                             *)
(***************************************************************************)
EXTENDS Monitoring, FiniteSetTheorems, WellFoundedInduction, NaturalsInduction, TLAPS

-----------------------------------------------------------------------------
(* Types: a function on some of the counters, or of the interfaces. *)

Partial(keys) == UNION {[some -> Nat] : some \in SUBSET keys}

Asking ==
    [at : {"ask", "answer"}, calls : Seq(SUBSET Counters), read : Partial(Counters), ok : BOOLEAN]

TrafficTypes ==
    /\ counter \in [Counters -> Nat] /\ carried \in [Counters -> 0..MaxTraffic]
    /\ \A c \in Counters : counter[c] <= carried[c]
    /\ reported \in [Counters -> Nat] /\ lost \subseteq Counters

RequestTypes ==
    /\ req \in [Requests -> {Idle} \cup [at : {"geocheck"}] \cup Asking]
    /\ \A r \in Requests : req[r].at = "ask" => req[r].calls # <<>>
    /\ isRunning \in BOOLEAN

\* An interface has counted no more than it carried since the last reading,
\* on top of what it had counted then.
NetworkTypes ==
    /\ {clock, readAt, passed} \subseteq 0..MaxTime
    /\ bytes \in Partial(Interfaces) /\ \A i \in DOMAIN bytes : bytes[i] <= MaxTraffic
    /\ previous \in Partial(Interfaces)
    /\ DOMAIN rates \subseteq Interfaces
    /\ \A i \in DOMAIN rates : rates[i] \in [bytes : 0..MaxTraffic, over : Int]
    /\ since \in [Interfaces -> 0..MaxTraffic]
    /\ \A i \in DOMAIN bytes : bytes[i] <= Of(previous, i) + since[i]

Types == TrafficTypes /\ RequestTypes /\ NetworkTypes

LEMMA PartialType ==
  ASSUME NEW keys, NEW f
  PROVE  f \in Partial(keys) <=> /\ DOMAIN f \subseteq keys
                                 /\ f = [k \in DOMAIN f |-> f[k]]
                                 /\ \A k \in DOMAIN f : f[k] \in Nat
  <1>1. ASSUME f \in Partial(keys)
        PROVE  /\ DOMAIN f \subseteq keys
               /\ f = [k \in DOMAIN f |-> f[k]]
               /\ \A k \in DOMAIN f : f[k] \in Nat
    <2>1. PICK some \in SUBSET keys : f \in [some -> Nat]
      BY <1>1 DEF Partial
    <2> QED BY <2>1
  <1>2. ASSUME DOMAIN f \subseteq keys, f = [k \in DOMAIN f |-> f[k]],
               \A k \in DOMAIN f : f[k] \in Nat
        PROVE  f \in Partial(keys)
    <2>1. f \in [DOMAIN f -> Nat]
      BY <1>2
    <2> QED BY <1>2, <2>1 DEF Partial
  <1> QED BY <1>1, <1>2

LEMMA MaxOfZero ==
  ASSUME NEW x \in Int
  PROVE  Max({0, x}) = IF x > 0 THEN x ELSE 0
  <1> DEFINE m == Max({0, x})
  <1>1. \E y \in {0, x} : \A z \in {0, x} : y >= z
    OBVIOUS
  <1>2. m \in {0, x} /\ \A z \in {0, x} : m >= z
    BY <1>1 DEF Max
  <1> QED BY <1>2

LEMMA GrownBounds ==
  ASSUME NetworkTypes, NEW i \in DOMAIN bytes
  PROVE  Grown(i) \in Nat /\ Grown(i) <= since[i] /\ Grown(i) <= MaxTraffic
  <1>1. i \in Interfaces /\ bytes[i] \in Nat /\ bytes[i] <= MaxTraffic
    BY PartialType DEF NetworkTypes
  <1>2. Of(previous, i) \in Nat
    BY PartialType DEF NetworkTypes, Of
  <1>3. since[i] \in Nat /\ bytes[i] <= Of(previous, i) + since[i]
    BY <1>1, BoundAssumption DEF NetworkTypes
  <1>4. Grown(i) = IF bytes[i] - Of(previous, i) > 0 THEN bytes[i] - Of(previous, i) ELSE 0
    BY <1>1, <1>2, MaxOfZero DEF Grown
  <1> QED BY <1>1, <1>2, <1>3, <1>4, BoundAssumption

-----------------------------------------------------------------------------

LEMMA TypesInit == Init => Types
  <1> SUFFICES ASSUME Init PROVE Types
    OBVIOUS
  <1>1. TrafficTypes
    BY BoundAssumption DEF Init, TrafficTypes, Zero
  <1>2. RequestTypes
    BY DEF Init, RequestTypes, Idle
  <1>3. NetworkTypes
    <2>1. PICK there \in SUBSET Interfaces : bytes = Zero(there)
      BY DEF Init
    <2>2. bytes \in Partial(Interfaces) /\ \A i \in DOMAIN bytes : bytes[i] = 0
      BY <2>1, PartialType DEF Zero
    <2>3. DOMAIN rates = {}
      BY DEF Init, Nothing
    <2>4. since \in [Interfaces -> 0..MaxTraffic] /\ \A i \in Interfaces : since[i] = 0
      BY BoundAssumption DEF Init, Zero
    <2>5. \A i \in DOMAIN bytes : bytes[i] <= Of(previous, i) + since[i]
      BY <2>1, <2>2, <2>4 DEF Init, Of, Zero
    <2>6. previous = bytes /\ {clock, readAt, passed} \subseteq 0..MaxTime
      BY BoundAssumption DEF Init
    <2>7. \A i \in DOMAIN bytes : bytes[i] <= MaxTraffic
      BY <2>2, BoundAssumption
    <2> QED BY <2>2, <2>3, <2>4, <2>5, <2>6, <2>7 DEF NetworkTypes
  <1> QED BY <1>1, <1>2, <1>3 DEF Types

\* Statistics requests.
LEMMA CallType ==
  ASSUME Types, NEW r \in Requests, req[r].at = "ask"
  PROVE  /\ req[r] \in Asking /\ req[r].calls \in Seq(SUBSET Counters) /\ req[r].calls # <<>>
         /\ Head(req[r].calls) \in SUBSET Counters /\ Tail(req[r].calls) \in Seq(SUBSET Counters)
  BY DEF Types, RequestTypes, Idle, Asking

LEMMA CalledType ==
  ASSUME Types, NEW r \in Requests, req[r].at = "ask", NEW q \in Asking,
         q.calls = req[r].calls, Called(r, q), UNCHANGED isRunning
  PROVE  RequestTypes'
  <1> DEFINE x == [q EXCEPT !.calls = Tail(@), !.at = IF Len(q.calls) = 1 THEN "answer" ELSE "ask"]
  <1>1. q.calls \in Seq(SUBSET Counters) /\ q.calls # <<>> /\ Tail(q.calls) \in Seq(SUBSET Counters)
    BY CallType
  <1>2. x \in Asking
    BY <1>1 DEF Asking
  <1>3. x.at = "ask" => x.calls # <<>>
    <2>1. x.at = (IF Len(q.calls) = 1 THEN "answer" ELSE "ask") /\ x.calls = Tail(q.calls)
      BY DEF Asking
    <2>2. \A s \in Seq(SUBSET Counters) : s # <<>> /\ Len(s) # 1 => Tail(s) # <<>>
      <3> SUFFICES ASSUME NEW s \in Seq(SUBSET Counters), s # <<>>, Len(s) # 1, Tail(s) = <<>>
                   PROVE  FALSE
        OBVIOUS
      <3>1. Len(Tail(s)) = Len(s) - 1 /\ Len(s) \in Nat /\ Len(<<>>) = 0
        OBVIOUS
      <3> QED BY <3>1
    <2> QED BY <1>1, <2>1, <2>2
  <1>4. req' = [req EXCEPT ![r] = x]
    BY DEF Called
  <1> QED
    <2> HIDE DEF x
    <2> QED BY <1>2, <1>3, <1>4 DEF Types, RequestTypes

LEMMA ResetType ==
  ASSUME TrafficTypes, NEW q, NEW names, Reset(q, names), UNCHANGED <<carried, reported>>,
         lost' \subseteq Counters
  PROVE  TrafficTypes'
  BY BoundAssumption DEF TrafficTypes, Reset

LEMMA TypesStep == Types /\ [Next]_vars => Types'
  <1> SUFFICES ASSUME Types, [Next]_vars PROVE Types'
    OBVIOUS
  <1>1. /\ UNCHANGED traffic => TrafficTypes'
        /\ UNCHANGED <<req, isRunning>> => RequestTypes'
        /\ UNCHANGED network => NetworkTypes'
    BY DEF Types, traffic, TrafficTypes, RequestTypes, network, NetworkTypes, Of
  <1>2. CASE UNCHANGED vars
    BY <1>1, <1>2 DEF vars, Types
  <1>3. ASSUME NEW r \in Requests, NEW calls \in Asks, Ask(r, calls)
        PROVE  Types'
    <2>1. calls \in Seq(SUBSET Counters) /\ calls # <<>>
      <3>1. \A names \in SUBSET Counters :
              <<names>> \in Seq(SUBSET Counters) /\ <<names>> # <<>>
        OBVIOUS
      <3>2. <<Inbounds, Outbounds>> \in Seq(SUBSET Counters) /\ <<Inbounds, Outbounds>> # <<>>
        BY DEF Counters
      <3>3. calls = <<Inbounds, Outbounds>> \/ \E names \in SUBSET Counters : calls = <<names>>
        BY DEF Asks, Counters
      <3> QED BY <3>1, <3>2, <3>3
    <2>2. Nothing \in Partial(Counters)
      BY PartialType DEF Nothing
    <2>3. [at |-> "ask", calls |-> calls, read |-> Nothing, ok |-> TRUE] \in Asking
      BY <2>1, <2>2 DEF Asking
    <2>4. RequestTypes'
      BY <1>3, <2>1, <2>3 DEF Ask, Types, RequestTypes
    <2> QED BY <1>1, <1>3, <2>4 DEF Ask, Types
  <1>4. ASSUME NEW r \in Requests, Read(r)
        PROVE  Types'
    <2> DEFINE q == req[r]
               names == Head(q.calls)
               read == [c \in DOMAIN q.read \cup names |-> IF c \in names THEN counter[c] ELSE q.read[c]]
    <2>1. /\ q \in Asking /\ names \in SUBSET Counters /\ q.at = "ask"
          /\ Called(r, [q EXCEPT !.read = read]) /\ Reset(q, names)
          /\ UNCHANGED <<carried, reported, lost, isRunning, network>>
      BY <1>4, CallType DEF Read
    <2>2. q.read \in Partial(Counters)
      BY <2>1 DEF Asking
    <2>3. read \in Partial(Counters)
      <3>1. DOMAIN q.read \subseteq Counters /\ \A c \in DOMAIN q.read : q.read[c] \in Nat
        BY <2>2, PartialType
      <3>2. \A c \in DOMAIN read : read[c] \in Nat
        BY <2>1, <3>1 DEF Types, TrafficTypes
      <3>3. DOMAIN read \subseteq Counters /\ read = [c \in DOMAIN read |-> read[c]]
        BY <2>1, <3>1
      <3> HIDE DEF read
      <3> QED BY <3>2, <3>3, PartialType
    <2>4. [q EXCEPT !.read = read] \in Asking /\ [q EXCEPT !.read = read].calls = q.calls
      <3> HIDE DEF read
      <3> QED BY <2>1, <2>3 DEF Asking
    <2>5. RequestTypes'
      <3> HIDE DEF read
      <3> QED BY <2>1, <2>4, CalledType
    <2>6. TrafficTypes'
      BY <2>1, ResetType DEF Types, TrafficTypes
    <2> QED BY <1>1, <2>1, <2>5, <2>6 DEF Types
  <1>5. ASSUME NEW r \in Requests, ReadFails(r)
        PROVE  Types'
    <2> DEFINE q == req[r]
               names == Head(q.calls)
    <2>1. /\ q \in Asking /\ names \in SUBSET Counters /\ q.at = "ask"
          /\ Called(r, [q EXCEPT !.ok = FALSE])
          /\ UNCHANGED <<carried, reported, isRunning, network>>
          /\ UNCHANGED <<counter, lost>> \/ (Reset(q, names) /\ lost' = lost \cup names)
      BY <1>5, CallType DEF ReadFails
    <2>2. [q EXCEPT !.ok = FALSE] \in Asking /\ [q EXCEPT !.ok = FALSE].calls = q.calls
      BY <2>1 DEF Asking
    <2>3. RequestTypes'
      BY <2>1, <2>2, CalledType
    <2>4. TrafficTypes'
      BY <1>1, <2>1, ResetType DEF Types, TrafficTypes, traffic
    <2> QED BY <1>1, <2>1, <2>3, <2>4 DEF Types
  <1>6. ASSUME NEW r \in Requests, Answer(r)
        PROVE  Types'
    <2>1. req[r] \in Asking /\ req[r].read \in Partial(Counters)
      BY <1>6 DEF Answer, Types, RequestTypes, Idle, Asking
    <2>2. DOMAIN req[r].read \subseteq Counters /\ \A c \in Counters : Of(req[r].read, c) \in Nat
      BY <2>1, PartialType DEF Of
    <2>3. reported' \in [Counters -> Nat] /\ lost' \subseteq Counters
      BY <1>6, <2>2 DEF Answer, Types, TrafficTypes
    <2>4. TrafficTypes'
      BY <1>6, <2>3 DEF Answer, Types, TrafficTypes
    <2>5. RequestTypes'
      BY <1>6 DEF Answer, Types, RequestTypes, Idle
    <2> QED BY <1>1, <1>6, <2>4, <2>5 DEF Answer, Types
  <1>7. ASSUME NEW r \in Requests, Geocheck(r) \/ GeocheckEnds(r)
        PROVE  Types'
    <2>1. RequestTypes'
      <3>1. PICK x \in {Idle, [at |-> "geocheck"]} : req' = [req EXCEPT ![r] = x]
        BY <1>7 DEF Geocheck, GeocheckEnds
      <3>2. x.at # "ask" /\ x \in {Idle} \cup [at : {"geocheck"}]
        BY DEF Idle
      <3>3. isRunning' \in BOOLEAN
        BY <1>7 DEF Geocheck, GeocheckEnds
      <3> QED BY <3>1, <3>2, <3>3 DEF Types, RequestTypes
    <2> QED BY <1>1, <1>7, <2>1 DEF Geocheck, GeocheckEnds, Types
  <1>8. ASSUME NEW c \in Counters, Carry(c)
        PROVE  Types'
    <2>1. TrafficTypes'
      BY <1>8, BoundAssumption DEF Carry, Types, TrafficTypes
    <2> QED BY <1>1, <1>8, <2>1 DEF Carry, Types
  <1>9. CASE XrayRestarts
    <2>1. TrafficTypes'
      BY <1>9, BoundAssumption DEF XrayRestarts, Zero, Types, TrafficTypes
    <2> QED BY <1>1, <1>9, <2>1 DEF XrayRestarts, Types
  <1>10. ASSUME NEW i \in Interfaces, Transfer(i)
         PROVE  Types'
    <2>1. NetworkTypes'
      <3>2. \A j \in DOMAIN bytes : j \in Interfaces /\ bytes[j] \in Nat
        BY PartialType DEF Types, NetworkTypes
      <3>1. bytes' \in Partial(Interfaces) /\ DOMAIN bytes' = DOMAIN bytes
        <4>1. bytes' = [bytes EXCEPT ![i] = @ + 1]
          BY <1>10 DEF Transfer
        <4>2. DOMAIN bytes' = DOMAIN bytes /\ bytes' = [j \in DOMAIN bytes' |-> bytes'[j]]
          BY <4>1
        <4>3. \A j \in DOMAIN bytes' : bytes'[j] \in Nat
          BY <3>2, <4>1
        <4> QED BY <3>2, <4>2, <4>3, PartialType
      <3>3. \A j \in DOMAIN bytes : bytes'[j] = IF j = i THEN bytes[j] + 1 ELSE bytes[j]
        BY <1>10 DEF Transfer
      <3>4. \A j \in Interfaces : since'[j] = IF j = i THEN since[j] + 1 ELSE since[j]
        BY <1>10 DEF Transfer, Types, NetworkTypes
      <3>5. since' \in [Interfaces -> 0..MaxTraffic]
        BY <1>10, BoundAssumption DEF Transfer, Types, NetworkTypes
      <3>6. \A j \in DOMAIN bytes : Of(previous, j) \in Nat
        BY PartialType DEF Types, NetworkTypes, Of
      <3>7. \A j \in DOMAIN bytes' : bytes'[j] <= MaxTraffic
        BY <1>10, <3>1, <3>2, <3>3, BoundAssumption DEF Transfer, Types, NetworkTypes
      <3>8. \A j \in DOMAIN bytes' : bytes'[j] <= Of(previous, j) + since'[j]
        <4> SUFFICES ASSUME NEW j \in DOMAIN bytes
                     PROVE  bytes'[j] <= Of(previous, j) + since'[j]
          BY <3>1
        <4>1. bytes[j] <= Of(previous, j) + since[j] /\ since[j] \in Nat
          BY <3>2, BoundAssumption DEF Types, NetworkTypes
        <4> QED BY <3>2, <3>3, <3>4, <3>6, <4>1
      <3>9. UNCHANGED <<clock, previous, readAt, rates, passed>>
        BY <1>10 DEF Transfer
      <3> QED BY <3>1, <3>5, <3>7, <3>8, <3>9 DEF Types, NetworkTypes, Of
    <2> QED BY <1>1, <1>10, <2>1 DEF Transfer, Types
  <1>11. ASSUME NEW i \in Interfaces, InterfaceChanges(i)
         PROVE  Types'
    <2>1. NetworkTypes'
      <3>1. bytes' \in Partial(Interfaces)
        <4>1. DOMAIN bytes \subseteq Interfaces /\ \A j \in DOMAIN bytes : bytes[j] \in Nat
          BY PartialType DEF Types, NetworkTypes
        <4>2. DOMAIN bytes' \subseteq Interfaces /\ bytes' = [j \in DOMAIN bytes' |-> bytes'[j]]
          BY <1>11, <4>1 DEF InterfaceChanges
        <4>3. \A j \in DOMAIN bytes' : bytes'[j] \in Nat
          BY <1>11, <4>1 DEF InterfaceChanges
        <4> QED BY <4>2, <4>3, PartialType
      <3>2. \A j \in DOMAIN bytes' : bytes'[j] = 0 \/ (j \in DOMAIN bytes /\ bytes'[j] = bytes[j])
        <4>1. CASE bytes' = [j \in DOMAIN bytes \ {i} |-> bytes[j]]
          <5>1. DOMAIN bytes' = DOMAIN bytes \ {i}
            BY <4>1
          <5>2. \A j \in DOMAIN bytes \ {i} : bytes'[j] = bytes[j]
            BY <4>1
          <5> QED BY <5>1, <5>2
        <4>2. CASE bytes' = [j \in DOMAIN bytes \cup {i} |-> IF j = i THEN 0 ELSE bytes[j]]
          BY <4>2
        <4> QED BY <1>11, <4>1, <4>2 DEF InterfaceChanges
      <3>3. \A j \in DOMAIN bytes' : j \in Interfaces /\ Of(previous, j) + since[j] \in Nat
        <4>1. DOMAIN bytes' \subseteq Interfaces
          BY <3>1, PartialType
        <4>2. \A j \in Interfaces : Of(previous, j) \in Nat
          BY PartialType DEF Types, NetworkTypes, Of
        <4>3. \A j \in Interfaces : since[j] \in Nat
          BY BoundAssumption DEF Types, NetworkTypes
        <4> QED BY <4>1, <4>2, <4>3
      <3>4. \A j \in DOMAIN bytes' : bytes'[j] <= MaxTraffic /\ bytes'[j] <= Of(previous, j) + since[j]
        <4> SUFFICES ASSUME NEW j \in DOMAIN bytes'
                     PROVE  bytes'[j] <= MaxTraffic /\ bytes'[j] <= Of(previous, j) + since[j]
          OBVIOUS
        <4>1. CASE bytes'[j] = 0
          BY <3>3, <4>1, BoundAssumption
        <4>2. CASE j \in DOMAIN bytes /\ bytes'[j] = bytes[j]
          BY <4>2 DEF Types, NetworkTypes
        <4> QED BY <3>2, <4>1, <4>2
      <3>5. UNCHANGED <<clock, previous, readAt, rates, since, passed>>
        BY <1>11 DEF InterfaceChanges
      <3> QED BY <3>1, <3>4, <3>5 DEF Types, NetworkTypes, Of
    <2> QED BY <1>1, <1>11, <2>1 DEF InterfaceChanges, Types
  <1>12. CASE Tick
    <2>1. NetworkTypes'
      <3>1. Rated \subseteq DOMAIN bytes
        BY DEF Rated
      <3>2. DOMAIN rates \subseteq Interfaces /\ DOMAIN bytes \subseteq Interfaces
        BY PartialType DEF Types, NetworkTypes
      <3>3. DOMAIN rates' \subseteq Interfaces
        BY <1>12, <3>1, <3>2 DEF Tick
      <3>4. \A j \in DOMAIN rates' : rates'[j] \in [bytes : 0..MaxTraffic, over : Int]
        <4>1. \A j \in Rated : Grown(j) \in 0..MaxTraffic
          BY <3>1, GrownBounds, BoundAssumption DEF Types
        <4>2. Elapsed \in Int
          BY BoundAssumption DEF Elapsed, Types, NetworkTypes
        <4>3. \A j \in DOMAIN rates : rates[j] \in [bytes : 0..MaxTraffic, over : Int]
          BY DEF Types, NetworkTypes
        <4> QED BY <1>12, <4>1, <4>2, <4>3 DEF Tick
      <3>6. since' \in [Interfaces -> 0..MaxTraffic] /\ \A j \in Interfaces : since'[j] = 0
        BY <1>12, BoundAssumption DEF Tick, Zero
      <3>7. \A j \in DOMAIN bytes : bytes[j] \in Nat /\ Of(previous', j) = bytes[j]
        BY <1>12, PartialType DEF Tick, Of, Types, NetworkTypes
      <3>8. \A j \in DOMAIN bytes : bytes[j] <= Of(previous', j) + since'[j]
        BY <3>2, <3>6, <3>7
      <3>9. /\ UNCHANGED <<clock, bytes>> /\ previous' = bytes
            /\ readAt' = clock /\ passed' = 0
        BY <1>12 DEF Tick
      <3>10. {clock', readAt', passed'} \subseteq 0..MaxTime
        BY <3>9, BoundAssumption DEF Types, NetworkTypes
      <3> QED BY <3>3, <3>4, <3>6, <3>8, <3>9, <3>10 DEF Types, NetworkTypes, Of
    <2> QED BY <1>1, <1>12, <2>1 DEF Tick, Types
  <1>13. CASE TimePasses \/ ClockSet
    <2>1. {clock', readAt', passed'} \subseteq 0..MaxTime
      BY <1>13, BoundAssumption DEF TimePasses, ClockSet, Types, NetworkTypes
    <2>2. UNCHANGED <<traffic, req, isRunning, bytes, previous, rates, since>>
      BY <1>13 DEF TimePasses, ClockSet
    <2> QED BY <1>1, <2>1, <2>2 DEF Types, NetworkTypes, Of
  <1> QED
    BY <1>2, <1>3, <1>4, <1>5, <1>6, <1>7, <1>8, <1>9, <1>10, <1>11, <1>12, <1>13 DEF Next

LEMMA TypesAlways == Spec => []Types
  BY TypesInit, TypesStep, PTL DEF Spec

\* The variables keep their types: counters and rates never get below 0, nor a
\* counter above what it has counted.
THEOREM MonitoringTypeCorrect == Spec => []TypeOK
  <1>1. Types => TypeOK
    <2> SUFFICES ASSUME Types PROVE TypeOK
      OBVIOUS
    <2>1. counter \in [Counters -> 0..MaxTraffic]
      BY BoundAssumption DEF Types, TrafficTypes
    <2>2. \A r \in Requests : req[r].at \in {"idle", "ask", "answer", "geocheck"}
      BY DEF Types, RequestTypes, Idle, Asking
    <2>3. DOMAIN bytes \cup DOMAIN previous \cup DOMAIN rates \subseteq Interfaces
      BY PartialType DEF Types, NetworkTypes
    <2>4. \A i \in DOMAIN rates : rates[i] \in [bytes : 0..MaxTraffic, over : Int]
      BY DEF Types, NetworkTypes
    <2> QED BY <2>1, <2>2, <2>3, <2>4 DEF Types, TrafficTypes, RequestTypes, NetworkTypes, TypeOK
  <1> QED BY <1>1, TypesAlways, PTL

LEMMA ProductsGrow ==
  ASSUME NEW a \in Nat, NEW b \in Nat, NEW c \in Nat, NEW d \in Nat, a <= b, c <= d
  PROVE  a * c <= b * d
  <1>1. a * c <= b * c
    OBVIOUS
  <1>2. b * c <= b * d
    OBVIOUS
  <1> QED BY <1>1, <1>2

\* A rate is new only when the clock is later than at the reading before, and
\* then the interface has carried what it counts since, also one that was taken
\* down or replaced: over no less time than has passed, it is no more.
THEOREM RatesHonest == Spec => RatesNeverExaggerate
  <1> DEFINE New(i) == /\ rates'[i].over > 0
                       /\ Elapsed >= passed =>
                            rates'[i].bytes * passed <= since[i] * rates'[i].over
             Honest == \A i \in DOMAIN rates' :
                         \/ i \in DOMAIN rates /\ rates'[i] = rates[i]
                         \/ New(i)
  <1>1. Types /\ [Next]_vars => [Honest]_vars
    <2> SUFFICES ASSUME Types, [Next]_vars, ~UNCHANGED vars PROVE Honest
      OBVIOUS
    <2>1. CASE Tick
      <3>1. ASSUME NEW i \in Rated
            PROVE  New(i)
        <4>1. i \in DOMAIN bytes /\ Elapsed > 0
          BY DEF Rated
        <4>2. Elapsed \in Int /\ passed \in Nat
          BY BoundAssumption DEF Elapsed, Types, NetworkTypes
        <4>3. rates'[i].bytes = Grown(i) /\ rates'[i].over = Elapsed
          BY <2>1 DEF Tick
        <4>4. Grown(i) \in Nat /\ since[i] \in Nat /\ Grown(i) <= since[i]
          BY <4>1, GrownBounds, PartialType, BoundAssumption DEF Types, NetworkTypes
        <4>5. ASSUME Elapsed >= passed
              PROVE  Grown(i) * passed <= since[i] * Elapsed
          <5>1. Elapsed \in Nat
            BY <4>1, <4>2
          <5> QED BY <4>2, <4>4, <4>5, <5>1, ProductsGrow
        <4> QED BY <4>1, <4>3, <4>5
      <3>2. ASSUME NEW i \in DOMAIN rates', i \notin Rated
            PROVE  i \in DOMAIN rates /\ rates'[i] = rates[i]
        BY <2>1, <3>2 DEF Tick
      <3> QED BY <3>1, <3>2
    <2>2. CASE UNCHANGED rates
      BY <2>2
    <2> QED
      BY <2>1, <2>2
      DEF Next, network, Ask, Read, ReadFails, Answer, Geocheck, GeocheckEnds, Carry, Transfer,
          InterfaceChanges, XrayRestarts, TimePasses, ClockSet
  <1> QED BY <1>1, TypesAlways, PTL DEF Spec, RatesNeverExaggerate

-----------------------------------------------------------------------------
(* Geocheck *)

\* The flag is set exactly while a run is in progress, and there is one run.
GeocheckGuarded ==
    /\ isRunning <=> GeocheckInside # {}
    /\ \A r, s \in GeocheckInside : r = s

LEMMA GeocheckStep ==
  ASSUME Types, GeocheckGuarded, [Next]_vars
  PROVE  GeocheckGuarded' /\ [GeocheckFlight!Next]_GeocheckInside
  <1>1. CASE UNCHANGED GeocheckInside /\ UNCHANGED isRunning
    BY <1>1 DEF GeocheckGuarded
  <1>2. ASSUME NEW r \in Requests, Geocheck(r)
        PROVE  GeocheckGuarded' /\ [GeocheckFlight!Next]_GeocheckInside
    <2>1. GeocheckInside = {} /\ isRunning'
      BY <1>2 DEF Geocheck, GeocheckGuarded
    <2>2. GeocheckInside' = {r}
      BY <1>2, <2>1 DEF Geocheck, GeocheckInside, Types, RequestTypes
    <2> QED BY <2>1, <2>2 DEF GeocheckGuarded, GeocheckFlight!Next, GeocheckFlight!Enter
  <1>3. ASSUME NEW r \in Requests, GeocheckEnds(r)
        PROVE  GeocheckGuarded' /\ [GeocheckFlight!Next]_GeocheckInside
    <2>1. GeocheckInside = {r}
      BY <1>3 DEF GeocheckEnds, GeocheckInside, GeocheckGuarded
    <2>2. GeocheckInside' = {} /\ isRunning' = FALSE
      BY <1>3, <2>1 DEF GeocheckEnds, GeocheckInside, Types, RequestTypes, Idle
    <2> QED BY <2>1, <2>2 DEF GeocheckGuarded, GeocheckFlight!Next, GeocheckFlight!Leave
  <1>4. ASSUME NEW r \in Requests, NEW x, req' = [req EXCEPT ![r] = x], x.at # "geocheck",
               req[r].at # "geocheck"
        PROVE  GeocheckInside' = GeocheckInside
    BY <1>4 DEF GeocheckInside, Types, RequestTypes
  <1>5. ASSUME NEW r \in Requests, NEW calls \in Asks, Ask(r, calls)
        PROVE  GeocheckInside' = GeocheckInside
    <2> DEFINE x == [at |-> "ask", calls |-> calls, read |-> Nothing, ok |-> TRUE]
    <2>1. x.at # "geocheck"
      OBVIOUS
    <2>2. req' = [req EXCEPT ![r] = x] /\ req[r].at # "geocheck"
      BY <1>5 DEF Ask, Idle
    <2> HIDE DEF x
    <2> QED BY <1>4, <2>1, <2>2
  <1>6. ASSUME NEW r \in Requests, Answer(r)
        PROVE  GeocheckInside' = GeocheckInside
    <2>1. req' = [req EXCEPT ![r] = Idle] /\ req[r].at # "geocheck" /\ Idle.at # "geocheck"
      BY <1>6 DEF Answer, Idle
    <2> QED BY <1>4, <2>1
  <1>7. ASSUME NEW r \in Requests, Read(r) \/ ReadFails(r)
        PROVE  GeocheckInside' = GeocheckInside
    <2>1. \A q : DOMAIN q = {"at", "calls", "read", "ok"} =>
            [q EXCEPT !.calls = Tail(@), !.at = IF Len(q.calls) = 1 THEN "answer" ELSE "ask"].at
              \in {"ask", "answer"}
      <3> SUFFICES ASSUME NEW q, DOMAIN q = {"at", "calls", "read", "ok"}
                   PROVE  [[q EXCEPT !.calls = Tail(@)] EXCEPT !.at = IF Len(q.calls) = 1 THEN "answer" ELSE "ask"].at
                            \in {"ask", "answer"}
        OBVIOUS
      <3>1. "at" \in DOMAIN [q EXCEPT !.calls = Tail(@)]
        OBVIOUS
      <3> QED BY <3>1
    <2>2. req[r].at = "ask" /\ DOMAIN req[r] = {"at", "calls", "read", "ok"}
      <3>1. req[r].at = "ask"
        BY <1>7 DEF Read, ReadFails
      <3>2. req[r] \in Asking
        BY <3>1, CallType
      <3> QED BY <3>1, <3>2 DEF Asking
    <2>3. \A q : DOMAIN q = DOMAIN req[r] /\ Called(r, q) => GeocheckInside' = GeocheckInside
      BY <1>4, <2>1, <2>2 DEF Called
    <2>4. CASE Read(r)
      <3> DEFINE q == req[r]
                 names == Head(q.calls)
                 read == [c \in DOMAIN q.read \cup names |->
                            IF c \in names THEN counter[c] ELSE q.read[c]]
      <3>1. Called(r, [q EXCEPT !.read = read])
        BY <2>4 DEF Read
      <3>2. DOMAIN [q EXCEPT !.read = read] = DOMAIN q
        OBVIOUS
      <3> HIDE DEF read
      <3> QED BY <2>3, <3>1, <3>2
    <2>5. CASE ReadFails(r)
      <3>1. Called(r, [req[r] EXCEPT !.ok = FALSE])
        BY <2>5 DEF ReadFails
      <3>2. DOMAIN [req[r] EXCEPT !.ok = FALSE] = DOMAIN req[r]
        OBVIOUS
      <3> QED BY <2>3, <3>1, <3>2
    <2> QED BY <1>7, <2>4, <2>5
  <1> QED
    BY <1>1, <1>2, <1>3, <1>5, <1>6, <1>7
    DEF Next, vars, Ask, Answer, Read, ReadFails, Carry, Transfer, InterfaceChanges, XrayRestarts,
        Tick, TimePasses, ClockSet, GeocheckInside

\* The guard of geocheck implements the safety part of SingleFlight.
THEOREM GeocheckOnceSafety ==
  Spec => GeocheckFlight!Init /\ [][GeocheckFlight!Next]_GeocheckInside
  <1>1. Init => GeocheckGuarded /\ GeocheckFlight!Init
    BY DEF Init, GeocheckGuarded, GeocheckFlight!Init, GeocheckInside, Idle
  <1> QED BY <1>1, GeocheckStep, TypesAlways, PTL DEF Spec
-----------------------------------------------------------------------------
(* Sums.  Total is a fold: a function on the subsets of the domain that is   *)
(* shown to exist, and of which the sums are shown by induction over their   *)
(* cardinality, which is that < on Nat is well-founded.                      *)

LEMMA UpTo ==
  ASSUME NEW N \in Nat, NEW P, 0 \in P, \A n \in 0..(N - 1) : n \in P => n + 1 \in P
  PROVE  N \in P
  <1> SUFFICES ASSUME N \notin P PROVE FALSE
    OBVIOUS
  <1> DEFINE T == (0..N) \ P
  <1>1. IsWellFoundedOn(OpToRel(<, Nat), Nat)
    BY NatLessThanWellFounded
  <1>2. T \subseteq Nat /\ T # {}
    OBVIOUS
  <1>3. PICK n \in T : \A m \in T : ~(<<m, n>> \in OpToRel(<, Nat))
    <2> HIDE DEF T
    <2> QED BY <1>1, <1>2, WFMin
  <1>4. n # 0 /\ n \in 1..N
    OBVIOUS
  <1>5. <<n - 1, n>> \in OpToRel(<, Nat)
    BY <1>4 DEF OpToRel
  <1>6. n - 1 \in 0..N /\ n - 1 \in 0..(N - 1) /\ (n - 1) + 1 = n
    BY <1>4
  <1>7. n - 1 \notin T
    <2> HIDE DEF T
    <2> QED BY <1>3, <1>5
  <1> QED BY <1>6, <1>7

First(s) == CHOOSE x \in s : TRUE

LEMMA Smaller ==
  ASSUME NEW D, IsFiniteSet(D), NEW s \in SUBSET D, s # {}
  PROVE  /\ First(s) \in s /\ First(s) \in D /\ s \ {First(s)} \in SUBSET D
         /\ Cardinality(s) \in Nat /\ Cardinality(s) # 0
         /\ Cardinality(s \ {First(s)}) = Cardinality(s) - 1
  <1>1. First(s) \in s
    BY DEF First
  <1>2. IsFiniteSet(s)
    BY FS_Subset
  <1>3. Cardinality(s) \in Nat /\ Cardinality(s) # 0
    BY <1>2, FS_CardinalityType, FS_EmptySet
  <1>4. Cardinality(s \ {First(s)}) = Cardinality(s) - 1
    BY <1>1, <1>2, FS_RemoveElement
  <1> QED BY <1>1, <1>3, <1>4

LEMMA SubsetInduction ==
  ASSUME NEW D, IsFiniteSet(D), NEW P, {} \in P,
         \A s \in SUBSET D : s # {} /\ s \ {First(s)} \in P => s \in P
  PROVE  \A s \in SUBSET D : s \in P
  <1> DEFINE Upto(n) == \A s \in SUBSET D : Cardinality(s) <= n => s \in P
             Q == {n \in Nat : Upto(n)}
  <1>1. \A s \in SUBSET D : IsFiniteSet(s) /\ Cardinality(s) \in Nat
    BY FS_Subset, FS_CardinalityType
  <1>2. 0 \in Q
    <2> SUFFICES ASSUME NEW s \in SUBSET D, Cardinality(s) <= 0 PROVE s \in P
      OBVIOUS
    <2>1. Cardinality(s) = 0  BY <1>1
    <2>2. s = {}  BY <1>1, <2>1, FS_EmptySet
    <2> QED BY <2>2
  <1>3. ASSUME NEW n \in Nat, n \in Q PROVE n + 1 \in Q
    <2> SUFFICES ASSUME NEW s \in SUBSET D, Cardinality(s) <= n + 1, s # {} PROVE s \in P
      OBVIOUS
    <2>1. s \ {First(s)} \in SUBSET D /\ Cardinality(s \ {First(s)}) <= n
      BY <1>1, Smaller
    <2>2. s \ {First(s)} \in P
      BY <1>3, <2>1
    <2> QED BY <2>2
  <1>4. ASSUME NEW s \in SUBSET D PROVE s \in P
    <2> DEFINE N == Cardinality(s)
    <2>1. N \in Nat /\ \A n \in 0..(N - 1) : n \in Q => n + 1 \in Q
      <3>1. N \in Nat  BY <1>1
      <3> HIDE DEF N, Q
      <3> QED BY <3>1, <1>3
    <2>2. N \in Q
      <3> HIDE DEF N, Q
      <3> QED BY <1>2, <2>1, UpTo
    <2> QED BY <1>1, <2>2
  <1> QED BY <1>4

Entry(f, g, s) == IF s = {} THEN 0 ELSE f[First(s)] + g[s \ {First(s)}]
Totals(f) == CHOOSE g : g = [s \in SUBSET DOMAIN f |-> Entry(f, g, s)]

LEMMA TotalIs ==
  ASSUME NEW f
  PROVE  Total(f) = Totals(f)[DOMAIN f]
  BY DEF Total, MapThenSumSet, MapThenFoldSet, Totals, Entry, First

LEMMA TotalsDef ==
  ASSUME NEW f, IsFiniteSet(DOMAIN f)
  PROVE  Totals(f) = [s \in SUBSET DOMAIN f |-> Entry(f, Totals(f), s)]
  <1> DEFINE D == DOMAIN f
             Small(n) == {s \in SUBSET D : Cardinality(s) <= n}
             Exists(n) == \E g : g = [s \in Small(n) |-> Entry(f, g, s)]
             Q == {n \in Nat : Exists(n)}
             N == Cardinality(D)
  <1>1. IsFiniteSet(D) /\ \A s \in SUBSET D : IsFiniteSet(s) /\ Cardinality(s) \in Nat
    BY FS_Subset, FS_CardinalityType
  <1>2. 0 \in Q
    <2> DEFINE g == [s \in Small(0) |-> 0]
    <2>1. \A s \in Small(0) : s = {}
      <3> SUFFICES ASSUME NEW s \in SUBSET D, Cardinality(s) <= 0 PROVE s = {}
        OBVIOUS
      <3>1. Cardinality(s) = 0  BY <1>1
      <3> QED BY <1>1, <3>1, FS_EmptySet
    <2>2. g = [s \in Small(0) |-> Entry(f, g, s)]
      BY <2>1 DEF Entry
    <2> QED BY <2>2
  <1>3. ASSUME NEW n \in Nat, n \in Q PROVE n + 1 \in Q
    <2>1. PICK g : g = [s \in Small(n) |-> Entry(f, g, s)]
      BY <1>3
    <2> DEFINE h == [s \in Small(n + 1) |-> Entry(f, g, s)]
    <2>2. ASSUME NEW s \in Small(n + 1) PROVE Entry(f, g, s) = Entry(f, h, s)
      <3>1. CASE s = {}
        BY <3>1 DEF Entry
      <3>2. CASE s # {}
        <4> DEFINE t == s \ {First(s)}
        <4>1. t \in SUBSET D /\ Cardinality(t) <= n /\ Cardinality(t) \in Nat
          BY <1>1, <3>2, Smaller
        <4>2. t \in Small(n) /\ t \in Small(n + 1)
          BY <4>1
        <4>3. h[t] = g[t]
          <5>1. h[t] = Entry(f, g, t)  BY <4>2
          <5>2. g[t] = Entry(f, g, t)
            <6> HIDE DEF t, Small
            <6> QED BY <2>1, <4>2
          <5> QED BY <5>1, <5>2
        <4> HIDE DEF h, t
        <4>4. Entry(f, g, s) = f[First(s)] + g[t] /\ Entry(f, h, s) = f[First(s)] + h[t]
          BY <3>2 DEF Entry, t
        <4> QED BY <4>3, <4>4
      <3> QED BY <3>1, <3>2
    <2>3. h = [s \in Small(n + 1) |-> Entry(f, h, s)]
      <3>1. [s \in Small(n + 1) |-> Entry(f, g, s)] = [s \in Small(n + 1) |-> Entry(f, h, s)]
        <4> HIDE DEF h, Small
        <4> QED BY <2>2
      <3> QED BY <3>1
    <2>4. Exists(n + 1)
      <3> HIDE DEF h, Small
      <3> QED BY <2>3
    <2> QED BY <2>4
  <1>4. N \in Q
    <2>1. N \in Nat
      BY <1>1
    <2> HIDE DEF N, Q
    <2> QED BY <1>2, <1>3, <2>1, UpTo
  <1>5. Small(N) = SUBSET D
    BY <1>1, FS_Subset
  <1>6. \E g : g = [s \in SUBSET D |-> Entry(f, g, s)]
    BY <1>4, <1>5
  <1> QED BY <1>6 DEF Totals

\* What a total is made of, and how it changes with one entry.
LEMMA TotalFacts ==
  ASSUME NEW D, IsFiniteSet(D), NEW f \in [D -> Nat]
  PROVE  /\ Total(f) \in Nat
         /\ (\A x \in D : f[x] = 0) => Total(f) = 0
         /\ \A x \in D, v \in Nat : Total([f EXCEPT ![x] = v]) + f[x] = Total(f) + v
  <1>1. DOMAIN f = D  OBVIOUS
  <1>2. ASSUME NEW g \in [D -> Nat]
        PROVE  /\ Totals(g)[{}] = 0 /\ Total(g) = Totals(g)[D]
               /\ \A s \in SUBSET D : s # {} => Totals(g)[s] = g[First(s)] + Totals(g)[s \ {First(s)}]
    <2>1. DOMAIN g = D  OBVIOUS
    <2>2. Totals(g) = [s \in SUBSET D |-> Entry(g, Totals(g), s)]
      BY <2>1, TotalsDef
    <2> DEFINE G == Totals(g)
    <2>3. \A s \in SUBSET D : G[s] = Entry(g, G, s)
      <3> HIDE DEF G
      <3>1. G = [s \in SUBSET D |-> Entry(g, G, s)]  BY <2>2 DEF G
      <3> QED BY <3>1
    <2> QED BY <2>1, <2>3, TotalIs DEF Entry
  <1>3. ASSUME NEW g \in [D -> Nat] PROVE \A s \in SUBSET D : Totals(g)[s] \in Nat
    <2> DEFINE P == {s \in SUBSET D : Totals(g)[s] \in Nat}
    <2>1. {} \in P  BY <1>2
    <2>2. ASSUME NEW s \in SUBSET D, s # {}, s \ {First(s)} \in P
          PROVE  s \in P
      <3>1. g[First(s)] \in Nat
        BY <2>2, Smaller
      <3>2. Totals(g)[s] = g[First(s)] + Totals(g)[s \ {First(s)}]
        BY <1>2, <2>2
      <3>3. Totals(g)[s \ {First(s)}] \in Nat
        BY <2>2
      <3> QED BY <3>1, <3>2, <3>3
    <2>3. \A s \in SUBSET D : s \in P
      <3> HIDE DEF P
      <3> QED BY <2>1, <2>2, SubsetInduction
    <2> QED BY <2>3
  <1>4. ASSUME \A x \in D : f[x] = 0 PROVE Total(f) = 0
    <2> DEFINE P == {s \in SUBSET D : Totals(f)[s] = 0}
    <2>1. {} \in P  BY <1>2
    <2>2. ASSUME NEW s \in SUBSET D, s # {}, s \ {First(s)} \in P
          PROVE  s \in P
      <3>1. f[First(s)] = 0
        BY <1>4, <2>2, Smaller
      <3>2. Totals(f)[s] = f[First(s)] + Totals(f)[s \ {First(s)}]
        BY <1>2, <2>2
      <3>3. Totals(f)[s \ {First(s)}] = 0
        BY <2>2
      <3> QED BY <3>1, <3>2, <3>3
    <2>3. \A s \in SUBSET D : s \in P
      <3> HIDE DEF P
      <3> QED BY <2>1, <2>2, SubsetInduction
    <2> QED BY <1>2, <2>3
  <1>5. ASSUME NEW x \in D, NEW v \in Nat
        PROVE  Total([f EXCEPT ![x] = v]) + f[x] = Total(f) + v
    <2> DEFINE g == [f EXCEPT ![x] = v]
               P == {s \in SUBSET D : IF x \in s THEN Totals(g)[s] + f[x] = Totals(f)[s] + v
                                      ELSE Totals(g)[s] = Totals(f)[s]}
    <2>1. g \in [D -> Nat] /\ g[x] = v /\ \A y \in D \ {x} : g[y] = f[y]
      OBVIOUS
    <2> HIDE DEF g
    <2>2. {} \in P  BY <1>2, <2>1
    <2>3. ASSUME NEW s \in SUBSET D, s # {}, s \ {First(s)} \in P
          PROVE  s \in P
      <3> DEFINE y == First(s)
                 t == s \ {y}
      <3>1. y \in s /\ y \in D /\ t \in SUBSET D
        BY <2>3, Smaller
      <3>2. /\ Totals(g)[s] = g[y] + Totals(g)[t] /\ Totals(f)[s] = f[y] + Totals(f)[t]
            /\ Totals(g)[t] \in Nat /\ Totals(f)[t] \in Nat
        BY <1>2, <1>3, <2>1, <2>3, <3>1
      <3>3. f[x] \in Nat /\ f[y] \in Nat
        BY <3>1
      <3>4. t \in P
        BY <2>3
      <3> HIDE DEF y
      <3>5. CASE y = x
        BY <2>1, <3>1, <3>2, <3>3, <3>4, <3>5
      <3>6. CASE y # x
        BY <2>1, <3>1, <3>2, <3>3, <3>4, <3>6
      <3> QED BY <3>5, <3>6
    <2>4. \A s \in SUBSET D : s \in P
      <3> HIDE DEF P
      <3> QED BY <2>2, <2>3, SubsetInduction
    <2>5. D \in P  BY <2>4
    <2> QED BY <1>2, <2>1, <2>5 DEF g
  <1>6. Total(f) \in Nat
    BY <1>2, <1>3
  <1> QED BY <1>4, <1>5, <1>6

-----------------------------------------------------------------------------
(* Traffic.  A request keeps what it reads until it answers: each step moves *)
(* traffic from the counter to one request, from there to the panel, or to   *)
(* lost.                                                                     *)

\* No counter is read twice for one answer.
CallsFresh ==
    \A r \in Requests : req[r].at = "ask" =>
        \A n \in 1..Len(req[r].calls) :
            /\ req[r].calls[n] \cap DOMAIN req[r].read = {}
            /\ \A m \in 1..Len(req[r].calls) : m # n => req[r].calls[n] \cap req[r].calls[m] = {}

Value(q, c) == IF q.at \in {"ask", "answer"} THEN Of(q.read, c) ELSE 0

LEMMA HeldType ==
  ASSUME Types, NEW c \in Counters
  PROVE  /\ HeldBy(c) \in [Requests -> Nat] /\ Held(c) \in Nat
         /\ \A r \in Requests : HeldBy(c)[r] = Value(req[r], c)
  <1>1. ASSUME NEW r \in Requests PROVE Value(req[r], c) \in Nat
    <2>1. CASE req[r].at \in {"ask", "answer"}
      <3>1. req[r].read \in Partial(Counters)
        BY <2>1 DEF Types, RequestTypes, Idle, Asking
      <3> QED BY <2>1, <3>1, PartialType DEF Value, Of
    <2>2. CASE req[r].at \notin {"ask", "answer"}
      BY <2>2 DEF Value
    <2> QED BY <2>1, <2>2
  <1>2. HeldBy(c) = [r \in Requests |-> Value(req[r], c)]
    BY DEF HeldBy, Value
  <1>3. HeldBy(c) \in [Requests -> Nat]
    BY <1>1, <1>2
  <1>4. Held(c) \in Nat
    BY <1>3, TotalFacts, RequestsAssumption DEF Held
  <1> QED BY <1>2, <1>3, <1>4

\* What is held changes by what the one request holds more or less.
LEMMA HeldChange ==
  ASSUME Types, Types', NEW c \in Counters, NEW r \in Requests, NEW x, req' = [req EXCEPT ![r] = x]
  PROVE  /\ Held(c) \in Nat /\ Held(c)' \in Nat
         /\ Value(req[r], c) \in Nat /\ Value(x, c) \in Nat
         /\ Held(c)' + Value(req[r], c) = Held(c) + Value(x, c)
  <1> DEFINE f == HeldBy(c)
             v == Value(x, c)
  <1>1. f \in [Requests -> Nat] /\ Held(c) \in Nat /\ f[r] = Value(req[r], c)
    BY HeldType
  <1>2. HeldBy(c)' = [s \in Requests |-> Value(req'[s], c)]
    BY DEF HeldBy, Value
  <1>3. HeldBy(c)' = [f EXCEPT ![r] = v]
    <2>1. \A s \in Requests : req'[s] = IF s = r THEN x ELSE req[s]
      BY DEF Types, RequestTypes
    <2>2. f = [s \in Requests |-> Value(req[s], c)]
      BY DEF HeldBy, Value
    <2> QED BY <1>2, <2>1, <2>2
  <1>4. v \in Nat
    <2>1. req'[r] = x /\ x \in {Idle} \cup [at : {"geocheck"}] \cup Asking
      BY DEF Types, RequestTypes
    <2>2. x.at \in {"ask", "answer"} => x.read \in Partial(Counters)
      BY <2>1 DEF Idle, Asking
    <2>3. CASE x.at \in {"ask", "answer"}
      BY <2>2, <2>3, PartialType DEF Value, Of
    <2>4. CASE x.at \notin {"ask", "answer"}
      BY <2>4 DEF Value
    <2> QED BY <2>3, <2>4
  <1>5. Held(c)' = Total([f EXCEPT ![r] = v]) /\ Held(c) = Total(f)
    BY <1>3 DEF Held
  <1> HIDE DEF f, v
  <1>6. [f EXCEPT ![r] = v] \in [Requests -> Nat]
    BY <1>1, <1>4
  <1>7. Total([f EXCEPT ![r] = v]) \in Nat /\ Total([f EXCEPT ![r] = v]) + f[r] = Total(f) + v
    BY <1>1, <1>4, <1>6, TotalFacts, RequestsAssumption
  <1>8. f[r] \in Nat
    BY <1>1
  <1> QED BY <1>1, <1>4, <1>5, <1>7, <1>8 DEF v

LEMMA CalledRequest ==
  ASSUME Types, NEW r \in Requests, NEW q \in Asking, Called(r, q)
  PROVE  \E x \in [at : {"ask", "answer"}, calls : {Tail(q.calls)}, read : {q.read}, ok : {q.ok}] :
            req' = [req EXCEPT ![r] = x]
  <1> DEFINE x == [q EXCEPT !.calls = Tail(@), !.at = IF Len(q.calls) = 1 THEN "answer" ELSE "ask"]
  <1>1. x \in [at : {"ask", "answer"}, calls : {Tail(q.calls)}, read : {q.read}, ok : {q.ok}]
    BY DEF Asking
  <1>2. req' = [req EXCEPT ![r] = x]
    BY DEF Called
  <1> HIDE DEF x
  <1> QED BY <1>1, <1>2

\* What xray answers to a call, as a request takes it.
Taken(q) == [c \in DOMAIN q.read \cup Head(q.calls) |->
                IF c \in Head(q.calls) THEN counter[c] ELSE q.read[c]]

LEMMA ReadStep ==
  ASSUME Types, NEW r \in Requests, Read(r)
  PROVE  /\ req[r].at = "ask" /\ req[r] \in Asking /\ Head(req[r].calls) \in SUBSET Counters
         /\ Reset(req[r], Head(req[r].calls)) /\ UNCHANGED <<carried, reported, lost>>
         /\ \E x : /\ req' = [req EXCEPT ![r] = x] /\ x.at \in {"ask", "answer"}
                   /\ x.calls = Tail(req[r].calls) /\ x.read = Taken(req[r])
  <1> DEFINE q == req[r]
             names == Head(q.calls)
  <1>1. /\ q \in Asking /\ names \in SUBSET Counters /\ q.at = "ask"
        /\ Called(r, [q EXCEPT !.read = Taken(q)]) /\ Reset(q, names)
        /\ UNCHANGED <<carried, reported, lost>>
    BY CallType DEF Read, Taken
  <1>2. q.read \in Partial(Counters)
    BY <1>1 DEF Asking
  <1>3. Taken(q) \in Partial(Counters)
    <2>1. DOMAIN q.read \subseteq Counters /\ \A c \in DOMAIN q.read : q.read[c] \in Nat
      BY <1>2, PartialType
    <2>2. \A c \in DOMAIN Taken(q) : Taken(q)[c] \in Nat
      BY <1>1, <2>1 DEF Types, TrafficTypes, Taken
    <2>3. DOMAIN Taken(q) \subseteq Counters /\ Taken(q) = [c \in DOMAIN Taken(q) |-> Taken(q)[c]]
      BY <1>1, <2>1 DEF Taken
    <2> QED BY <2>2, <2>3, PartialType
  <1> DEFINE p == [q EXCEPT !.read = Taken(q)]
  <1>4. p \in Asking /\ p.calls = q.calls /\ p.read = Taken(q)
    BY <1>1, <1>3 DEF Asking
  <1> HIDE DEF p
  <1>5. PICK x \in [at : {"ask", "answer"}, calls : {Tail(p.calls)}, read : {p.read}, ok : {p.ok}] :
            req' = [req EXCEPT ![r] = x]
    BY <1>1, <1>4, CalledRequest DEF p
  <1> QED BY <1>1, <1>4, <1>5

LEMMA ReadFailsStep ==
  ASSUME Types, NEW r \in Requests, ReadFails(r)
  PROVE  /\ req[r].at = "ask" /\ req[r] \in Asking /\ Head(req[r].calls) \in SUBSET Counters
         /\ \/ UNCHANGED <<counter, lost>>
            \/ Reset(req[r], Head(req[r].calls)) /\ lost' = lost \cup Head(req[r].calls)
         /\ UNCHANGED <<carried, reported>>
         /\ \E x : /\ req' = [req EXCEPT ![r] = x] /\ x.at \in {"ask", "answer"}
                   /\ x.calls = Tail(req[r].calls) /\ x.read = req[r].read
  <1> DEFINE q == req[r]
             p == [q EXCEPT !.ok = FALSE]
  <1>1. /\ q \in Asking /\ q.at = "ask" /\ Head(q.calls) \in SUBSET Counters
        /\ Called(r, p)
        /\ UNCHANGED <<counter, lost>> \/ (Reset(q, Head(q.calls)) /\ lost' = lost \cup Head(q.calls))
        /\ UNCHANGED <<carried, reported>>
    BY CallType DEF ReadFails
  <1>2. p \in Asking /\ p.calls = q.calls /\ p.read = q.read
    BY <1>1 DEF Asking
  <1> HIDE DEF p
  <1>3. PICK x \in [at : {"ask", "answer"}, calls : {Tail(p.calls)}, read : {p.read}, ok : {p.ok}] :
            req' = [req EXCEPT ![r] = x]
    BY <1>1, <1>2, CalledRequest
  <1> QED BY <1>1, <1>2, <1>3

LEMMA FreshStep ==
  ASSUME Types, CallsFresh, [Next]_vars
  PROVE  CallsFresh'
  <1> DEFINE Fresh(q) ==
        \A n \in 1..Len(q.calls) :
            /\ q.calls[n] \cap DOMAIN q.read = {}
            /\ \A m \in 1..Len(q.calls) : m # n => q.calls[n] \cap q.calls[m] = {}
  <1>1. ASSUME NEW r \in Requests, NEW x, req' = [req EXCEPT ![r] = x], x.at = "ask" => Fresh(x)
        PROVE  CallsFresh'
    BY <1>1 DEF Types, RequestTypes, CallsFresh
  <1>2. ASSUME NEW r \in Requests, req[r].at = "ask", NEW read,
               DOMAIN read \subseteq DOMAIN req[r].read \cup Head(req[r].calls),
               NEW x, x.calls = Tail(req[r].calls), x.read = read
        PROVE  Fresh(x)
    <2> DEFINE s == req[r].calls
    <2>1. s \in Seq(SUBSET Counters) /\ s # <<>>
      BY <1>2, CallType
    <2>2. /\ Len(s) \in Nat /\ 1 \in 1..Len(s) /\ Head(s) = s[1] /\ Len(Tail(s)) = Len(s) - 1
          /\ \A n \in 1..Len(Tail(s)) : Tail(s)[n] = s[n + 1] /\ n + 1 \in 1..Len(s) /\ n + 1 # 1
      BY <2>1
    <2>3. Fresh(req[r])
      BY <1>2 DEF CallsFresh
    <2>4. ASSUME NEW n \in 1..Len(Tail(s))
          PROVE  Tail(s)[n] \cap DOMAIN read = {}
      <3>1. s[n + 1] \cap DOMAIN req[r].read = {} /\ s[n + 1] \cap s[1] = {}
        BY <2>2, <2>3
      <3> QED BY <1>2, <2>2, <3>1
    <2>5. ASSUME NEW n \in 1..Len(Tail(s)), NEW m \in 1..Len(Tail(s)), m # n
          PROVE  Tail(s)[n] \cap Tail(s)[m] = {}
      <3>1. m + 1 # n + 1
        BY <2>5
      <3> QED BY <2>2, <2>3, <3>1
    <2> QED BY <1>2, <2>4, <2>5
  <1>3. ASSUME NEW r \in Requests, NEW calls \in Asks, Ask(r, calls)
        PROVE  CallsFresh'
    <2> DEFINE x == [at |-> "ask", calls |-> calls, read |-> Nothing, ok |-> TRUE]
    <2>1. \A n, m \in 1..Len(calls) : m # n => calls[n] \cap calls[m] = {}
      <3>1. CASE calls = <<Inbounds, Outbounds>>
        BY <3>1, CountersAssumption
      <3>2. CASE \E names : calls = <<names>>
        BY <3>2
      <3> QED BY <3>1, <3>2 DEF Asks
    <2>2. Fresh(x)
      BY <2>1 DEF Nothing
    <2>3. req' = [req EXCEPT ![r] = x]
      BY <1>3 DEF Ask
    <2> HIDE DEF x, Fresh
    <2> QED BY <1>1, <2>2, <2>3
  <1>4. ASSUME NEW r \in Requests, Read(r)
        PROVE  CallsFresh'
    <2>1. PICK x : /\ req' = [req EXCEPT ![r] = x] /\ x.at \in {"ask", "answer"}
                   /\ x.calls = Tail(req[r].calls) /\ x.read = Taken(req[r])
      BY <1>4, ReadStep
    <2>2. req[r].at = "ask"
      BY <1>4 DEF Read
    <2>3. DOMAIN Taken(req[r]) = DOMAIN req[r].read \cup Head(req[r].calls)
      BY DEF Taken
    <2> HIDE DEF Fresh
    <2>4. Fresh(x)
      BY <1>2, <2>1, <2>2, <2>3
    <2> QED BY <1>1, <2>1, <2>4
  <1>5. ASSUME NEW r \in Requests, ReadFails(r)
        PROVE  CallsFresh'
    <2>1. PICK x : /\ req' = [req EXCEPT ![r] = x] /\ x.at \in {"ask", "answer"}
                   /\ x.calls = Tail(req[r].calls) /\ x.read = req[r].read
      BY <1>5, ReadFailsStep
    <2>2. req[r].at = "ask"
      BY <1>5 DEF ReadFails
    <2> HIDE DEF Fresh
    <2>3. Fresh(x)
      BY <1>2, <2>1, <2>2
    <2> QED BY <1>1, <2>1, <2>3
  <1>6. ASSUME NEW r \in Requests, Answer(r) \/ Geocheck(r) \/ GeocheckEnds(r)
        PROVE  CallsFresh'
    <2>1. PICK x \in {Idle, [at |-> "geocheck"]} : req' = [req EXCEPT ![r] = x]
      BY <1>6 DEF Answer, Geocheck, GeocheckEnds
    <2>2. x.at # "ask"
      BY DEF Idle
    <2> HIDE DEF Fresh
    <2> QED BY <1>1, <2>1, <2>2
  <1>7. CASE UNCHANGED req
    BY <1>7 DEF CallsFresh
  <1> QED
    BY <1>3, <1>4, <1>5, <1>6, <1>7
    DEF Next, vars, Carry, Transfer, InterfaceChanges, XrayRestarts, Tick, TimePasses, ClockSet

\* The traffic of one counter.
Balanced(c) ==
    /\ counter[c] + Held(c) + reported[c] <= carried[c]
    /\ c \notin lost => counter[c] + Held(c) + reported[c] = carried[c]

LEMMA TrafficStep ==
  ASSUME Types, Types', CallsFresh, TrafficReportedOnce, [Next]_vars
  PROVE  TrafficReportedOnce'
  <1> SUFFICES ASSUME NEW c \in Counters PROVE Balanced(c)'
    BY DEF TrafficReportedOnce, Balanced
  <1>1. Balanced(c)
    BY DEF TrafficReportedOnce, Balanced
  <1>2. /\ counter[c] \in Nat /\ reported[c] \in Nat /\ carried[c] \in Nat /\ Held(c) \in Nat
        /\ counter'[c] \in Nat /\ reported'[c] \in Nat /\ carried'[c] \in Nat
    BY HeldType, BoundAssumption DEF Types, TrafficTypes
  <1>3. ASSUME UNCHANGED req PROVE Held(c)' = Held(c)
    BY <1>3 DEF Held, HeldBy
  <1>4. ASSUME NEW r \in Requests, NEW x, req' = [req EXCEPT ![r] = x],
               Value(x, c) = Value(req[r], c)
        PROVE  Held(c)' = Held(c)
    <2>1. /\ Held(c) \in Nat /\ Held(c)' \in Nat /\ Value(req[r], c) \in Nat
          /\ Held(c)' + Value(req[r], c) = Held(c) + Value(req[r], c)
      BY <1>4, HeldChange
    <2> QED BY <2>1
  <1>5. ASSUME Held(c)' = Held(c), UNCHANGED traffic
        PROVE  Balanced(c)'
    BY <1>1, <1>5 DEF Balanced, traffic
  <1>6. ASSUME NEW r \in Requests, NEW calls \in Asks, Ask(r, calls)
        PROVE  Balanced(c)'
    <2> DEFINE x == [at |-> "ask", calls |-> calls, read |-> Nothing, ok |-> TRUE]
    <2>1. Value(x, c) = 0 /\ Value(req[r], c) = 0
      BY <1>6 DEF Value, Of, Nothing, Ask, Idle
    <2>2. req' = [req EXCEPT ![r] = x] /\ UNCHANGED traffic
      BY <1>6 DEF Ask
    <2> HIDE DEF x
    <2> QED BY <1>4, <1>5, <2>1, <2>2
  <1>7. ASSUME NEW r \in Requests, Read(r)
        PROVE  Balanced(c)'
    <2> DEFINE q == req[r]
    <2>1. /\ q.at = "ask" /\ q \in Asking /\ Head(q.calls) \in SUBSET Counters
          /\ Reset(q, Head(q.calls)) /\ UNCHANGED <<carried, reported, lost>>
      BY <1>7, ReadStep
    <2>2. PICK x : /\ req' = [req EXCEPT ![r] = x] /\ x.at \in {"ask", "answer"}
                   /\ x.calls = Tail(q.calls) /\ x.read = Taken(q)
      BY <1>7, ReadStep
    <2>3. CASE c \in Head(q.calls)
      <3>1. c \notin DOMAIN q.read
        <4>1. q.calls \in Seq(SUBSET Counters) /\ q.calls # <<>>
          BY <2>1, CallType
        <4>2. 1 \in 1..Len(q.calls) /\ Head(q.calls) = q.calls[1]
          BY <4>1
        <4> QED BY <2>1, <2>3, <4>2 DEF CallsFresh
      <3>2. Value(q, c) = 0
        BY <2>1, <3>1 DEF Value, Of
      <3>3. Value(x, c) = counter[c]
        BY <2>2, <2>3 DEF Value, Of, Taken
      <3>4. Held(c)' = Held(c) + counter[c]
        <4>1. Held(c)' \in Nat /\ Held(c)' + Value(q, c) = Held(c) + Value(x, c)
          BY <2>2, HeldChange
        <4> QED BY <1>2, <3>2, <3>3, <4>1
      <3>5. counter'[c] = 0
        BY <2>1, <2>3 DEF Reset
      <3> QED BY <1>1, <1>2, <2>1, <3>4, <3>5 DEF Balanced
    <2>4. CASE c \notin Head(q.calls)
      <3>1. Value(x, c) = Value(q, c)
        BY <2>1, <2>2, <2>4 DEF Value, Of, Taken
      <3>2. Held(c)' = Held(c)
        BY <1>4, <2>2, <3>1
      <3>3. counter'[c] = counter[c]
        BY <2>1, <2>4 DEF Reset
      <3> QED BY <1>1, <2>1, <3>2, <3>3 DEF Balanced
    <2> QED BY <2>3, <2>4
  <1>8. ASSUME NEW r \in Requests, ReadFails(r)
        PROVE  Balanced(c)'
    <2> DEFINE q == req[r]
    <2>1. /\ q.at = "ask" /\ UNCHANGED <<carried, reported>>
          /\ \/ UNCHANGED <<counter, lost>>
             \/ Reset(q, Head(q.calls)) /\ lost' = lost \cup Head(q.calls)
      BY <1>8, ReadFailsStep
    <2>2. PICK x : /\ req' = [req EXCEPT ![r] = x] /\ x.at \in {"ask", "answer"}
                   /\ x.calls = Tail(q.calls) /\ x.read = q.read
      BY <1>8, ReadFailsStep
    <2>3. Held(c)' = Held(c)
      <3>1. Value(x, c) = Value(q, c)
        BY <2>1, <2>2 DEF Value
      <3> QED BY <1>4, <2>2, <3>1
    <2>4. CASE UNCHANGED <<counter, lost>>
      BY <1>1, <2>1, <2>3, <2>4 DEF Balanced
    <2>5. CASE Reset(q, Head(q.calls)) /\ lost' = lost \cup Head(q.calls)
      <3>1. CASE c \in Head(q.calls)
        <4>1. counter'[c] = 0 /\ c \in lost'
          BY <2>5, <3>1 DEF Reset
        <4> QED BY <1>1, <1>2, <2>1, <2>3, <4>1 DEF Balanced
      <3>2. CASE c \notin Head(q.calls)
        <4>1. counter'[c] = counter[c] /\ (c \in lost' <=> c \in lost)
          BY <2>5, <3>2 DEF Reset
        <4> QED BY <1>1, <2>1, <2>3, <4>1 DEF Balanced
      <3> QED BY <3>1, <3>2
    <2> QED BY <2>1, <2>4, <2>5
  <1>9. ASSUME NEW r \in Requests, Answer(r)
        PROVE  Balanced(c)'
    <2> DEFINE q == req[r]
    <2>1. /\ q.at = "answer" /\ req' = [req EXCEPT ![r] = Idle] /\ UNCHANGED <<counter, carried>>
          /\ reported'[c] = IF q.ok THEN reported[c] + Of(q.read, c) ELSE reported[c]
          /\ lost' = IF q.ok THEN lost ELSE lost \cup DOMAIN q.read
      BY <1>9 DEF Answer
    <2>2. Value(Idle, c) = 0 /\ Value(q, c) = Of(q.read, c)
      BY <2>1 DEF Value, Idle
    <2>3. Held(c)' \in Nat /\ Of(q.read, c) \in Nat /\ Held(c)' + Of(q.read, c) = Held(c)
      <3>1. /\ Held(c)' \in Nat /\ Value(q, c) \in Nat
            /\ Held(c)' + Value(q, c) = Held(c) + Value(Idle, c)
        BY <2>1, HeldChange
      <3> QED BY <1>2, <2>2, <3>1
    <2>4. CASE q.ok
      <3>1. reported'[c] = reported[c] + Of(q.read, c) /\ lost' = lost
        BY <2>1, <2>4
      <3> QED BY <1>1, <1>2, <2>1, <2>3, <3>1 DEF Balanced
    <2>5. CASE ~q.ok
      <3>1. reported'[c] = reported[c] /\ lost' = lost \cup DOMAIN q.read
        BY <2>1, <2>5
      <3>2. c \notin lost' => c \notin lost /\ Of(q.read, c) = 0
        BY <3>1 DEF Of
      <3> QED BY <1>1, <1>2, <2>1, <2>3, <3>1, <3>2 DEF Balanced
    <2> QED BY <2>4, <2>5
  <1>10. ASSUME NEW r \in Requests, Geocheck(r) \/ GeocheckEnds(r)
         PROVE  Balanced(c)'
    <2>1. PICK x \in {Idle, [at |-> "geocheck"]} : req' = [req EXCEPT ![r] = x]
      BY <1>10 DEF Geocheck, GeocheckEnds
    <2>2. Value(x, c) = 0 /\ Value(req[r], c) = 0
      BY <1>10 DEF Geocheck, GeocheckEnds, Value, Idle
    <2>3. UNCHANGED traffic
      BY <1>10 DEF Geocheck, GeocheckEnds
    <2> QED BY <1>4, <1>5, <2>1, <2>2, <2>3
  <1>11. ASSUME NEW d \in Counters, Carry(d)
         PROVE  Balanced(c)'
    <2>1. Held(c)' = Held(c) /\ UNCHANGED <<reported, lost>>
      BY <1>3, <1>11 DEF Carry
    <2>2. CASE d = c
      <3>1. counter'[c] = counter[c] + 1 /\ carried'[c] = carried[c] + 1
        BY <1>11, <2>2 DEF Carry, Types, TrafficTypes
      <3> QED BY <1>1, <1>2, <2>1, <3>1 DEF Balanced
    <2>3. CASE d # c
      <3>1. counter'[c] = counter[c] /\ carried'[c] = carried[c]
        BY <1>11, <2>3 DEF Carry, Types, TrafficTypes
      <3> QED BY <1>1, <2>1, <3>1 DEF Balanced
    <2> QED BY <2>2, <2>3
  <1>12. CASE XrayRestarts
    <2>1. /\ Held(c)' = Held(c) /\ UNCHANGED <<reported, carried>> /\ counter'[c] = 0
          /\ lost' = lost \cup {d \in Counters : counter[d] # 0}
      BY <1>3, <1>12 DEF XrayRestarts, Zero
    <2>2. c \notin lost' => c \notin lost /\ counter[c] = 0
      BY <2>1
    <2> QED BY <1>1, <1>2, <2>1, <2>2 DEF Balanced
  <1>13. CASE UNCHANGED req /\ UNCHANGED traffic
    BY <1>3, <1>5, <1>13
  <1> QED
    BY <1>6, <1>7, <1>8, <1>9, <1>10, <1>11, <1>12, <1>13
    DEF Next, vars, Transfer, InterfaceChanges, Tick, TimePasses, ClockSet

\* Whatever requests overlap and fail, what xray counts is reported once, or
\* still counted or held, or marked as lost.
THEOREM TrafficOnce == Spec => []TrafficReportedOnce
  <1>1. Init => CallsFresh /\ TrafficReportedOnce
    <2> SUFFICES ASSUME Init PROVE CallsFresh /\ TrafficReportedOnce
      OBVIOUS
    <2>1. CallsFresh
      BY DEF Init, CallsFresh, Idle
    <2>2. ASSUME NEW c \in Counters PROVE Held(c) = 0
      <3>1. HeldBy(c) \in [Requests -> Nat] /\ \A r \in Requests : HeldBy(c)[r] = 0
        BY DEF Init, HeldBy, Idle
      <3> QED BY <3>1, TotalFacts, RequestsAssumption DEF Held
    <2> QED BY <2>1, <2>2 DEF Init, Zero, TrafficReportedOnce
  <1> QED BY <1>1, TypesAlways, FreshStep, TrafficStep, PTL DEF Spec
=============================================================================
