----------------------------- MODULE Monitoring -----------------------------
(***************************************************************************)
(* What the panel asks a node that runs xray: the traffic xray counts      *)
(* (StatsService), the rates of the network interfaces, polled by the node *)
(* itself (NetworkStatsService), and a run of geocheck (GeocheckService).  *)
(* SingBoxStats has the statistics of sing-box.                            *)
(***************************************************************************)
EXTENDS Integers, Sequences, FiniteSetsExt

CONSTANTS
    Requests,     \* slots for requests
    Inbounds,     \* the counters of xray: of inbounds,
    Outbounds,    \*   of outbounds,
    Accounts,     \*   and of users
    Interfaces,
    MaxTraffic,   \* bound on what a counter, or an interface, carries
    MaxTime       \* bound on the clock, and on the time between two readings

Counters == Inbounds \cup Outbounds \cup Accounts

ASSUME RequestsAssumption == IsFiniteSet(Requests)
ASSUME CountersAssumption == Inbounds \cap Outbounds = {}
ASSUME BoundAssumption == MaxTraffic \in Nat /\ MaxTime \in Nat

VARIABLES
    counter,    \* xray's counters
    carried,    \* what they have counted in all
    reported,   \* what the panel was told
    lost,       \* the counters of which something may be lost
    req,        \* the requests
    isRunning,  \* GeocheckService.isRunning
    clock,      \* Date.now()
    bytes,      \* /proc/net/dev: what the interfaces there are have counted
    previous,   \* previousStats,
    readAt,     \*   and their timestamp
    rates,      \* currentRates
    since,      \* what each interface has carried since the last reading,
    passed      \*   and the time that has really passed

traffic == <<counter, carried, reported, lost>>
network == <<clock, bytes, previous, readAt, rates, since, passed>>
vars == <<traffic, req, isRunning, network>>

Idle == [at |-> "idle"]
Nothing == [c \in {} |-> 0]
Zero(set) == [c \in set |-> 0]
\* f, where it is 0 for the others.
Of(f, c) == IF c \in DOMAIN f THEN f[c] ELSE 0

\* The calls to xray of each request: the counters that each is about.
Asks == {<<names>> : names \in {Inbounds, Outbounds, Accounts}}
          \cup {<<{c}>> : c \in Inbounds \cup Outbounds}
          \cup {<<Inbounds, Outbounds>>}

TypeOK ==
    /\ counter \in [Counters -> 0..MaxTraffic] /\ carried \in [Counters -> 0..MaxTraffic]
    /\ reported \in [Counters -> Nat] /\ lost \subseteq Counters
    /\ \A r \in Requests : req[r].at \in {"idle", "ask", "answer", "geocheck"}
    /\ isRunning \in BOOLEAN
    /\ {clock, readAt, passed} \subseteq 0..MaxTime
    /\ DOMAIN bytes \cup DOMAIN previous \cup DOMAIN rates \subseteq Interfaces
    /\ \A i \in DOMAIN rates : rates[i] \in [bytes : 0..MaxTraffic, over : Int]
    /\ since \in [Interfaces -> 0..MaxTraffic]

Init ==
    /\ counter = Zero(Counters) /\ carried = Zero(Counters) /\ reported = Zero(Counters)
    /\ lost = {}
    /\ req = [r \in Requests |-> Idle]
    /\ isRunning = FALSE
    /\ clock \in 0..MaxTime /\ readAt = clock /\ passed = 0
    /\ \E there \in SUBSET Interfaces : bytes = Zero(there)
    /\ previous = bytes
    /\ rates = Nothing
    /\ since = Zero(Interfaces)

-----------------------------------------------------------------------------
(* StatsService: getUsersStats, getInboundStats, getCombinedStats, ..., with  *)
(* reset; without it they change nothing.                                   *)

Ask(r, calls) ==
    /\ req[r] = Idle
    /\ req' = [req EXCEPT ![r] = [at |-> "ask", calls |-> calls, read |-> Nothing, ok |-> TRUE]]
    /\ UNCHANGED <<traffic, isRunning, network>>

Called(r, q) ==
    req' = [req EXCEPT ![r] = [q EXCEPT !.calls = Tail(@),
                                        !.at = IF Len(q.calls) = 1 THEN "answer" ELSE "ask"]]

\* (mutant) the second of two calls does not reset
ResetFirst(q, names) ==
    counter' = [c \in Counters |-> IF c \in names /\ q.read = Nothing THEN 0 ELSE counter[c]]

Reset(q, names) == counter' = [c \in Counters |-> IF c \in names THEN 0 ELSE counter[c]]

\* xray answers a call, and resets what it answers.
Read(r) ==
    /\ req[r].at = "ask"
    /\ LET q == req[r]
           names == Head(q.calls) IN
       /\ Called(r, [q EXCEPT !.read = [c \in DOMAIN q.read \cup names |->
                                          IF c \in names THEN counter[c] ELSE q.read[c]]])
       /\ Reset(q, names)
    /\ UNCHANGED <<carried, reported, lost, isRunning, network>>

\* Before or after xray has reset the counters.
ReadFails(r) ==
    /\ req[r].at = "ask"
    /\ LET q == req[r]
           names == Head(q.calls) IN
       /\ Called(r, [q EXCEPT !.ok = FALSE])
       /\ \/ UNCHANGED <<counter, lost>>
          \/ Reset(q, names) /\ lost' = lost \cup names
    /\ UNCHANGED <<carried, reported, isRunning, network>>

\* One failed call fails the request, whatever the other has read.
Answer(r) ==
    /\ req[r].at = "answer" /\ req' = [req EXCEPT ![r] = Idle]
    /\ LET q == req[r] IN
       /\ reported' = IF q.ok THEN [c \in Counters |-> reported[c] + Of(q.read, c)]
                      ELSE reported
       /\ lost' = IF q.ok THEN lost ELSE lost \cup DOMAIN q.read
    /\ UNCHANGED <<counter, carried, isRunning, network>>

Carry(c) ==
    /\ carried[c] < MaxTraffic
    /\ counter' = [counter EXCEPT ![c] = @ + 1] /\ carried' = [carried EXCEPT ![c] = @ + 1]
    /\ UNCHANGED <<reported, lost, req, isRunning, network>>

\* A start of xray collects nothing from the old process.
XrayRestarts ==
    /\ counter' = Zero(Counters)
    /\ lost' = lost \cup {c \in Counters : counter[c] # 0}
    /\ UNCHANGED <<carried, reported, req, isRunning, network>>

-----------------------------------------------------------------------------
(* GeocheckService *)

\* (mutant) a run in progress refuses nobody
GeocheckUnguarded(r) ==
    /\ req[r] = Idle
    /\ isRunning' = TRUE
    /\ req' = [req EXCEPT ![r] = [at |-> "geocheck"]]
    /\ UNCHANGED <<traffic, network>>

\* While a run is in progress another request is refused.
Geocheck(r) ==
    /\ req[r] = Idle /\ ~isRunning
    /\ isRunning' = TRUE
    /\ req' = [req EXCEPT ![r] = [at |-> "geocheck"]]
    /\ UNCHANGED <<traffic, network>>

\* A report, an error, or the timeout that kills the process.
GeocheckEnds(r) ==
    /\ req[r].at = "geocheck"
    /\ isRunning' = FALSE
    /\ req' = [req EXCEPT ![r] = Idle]
    /\ UNCHANGED <<traffic, network>>

-----------------------------------------------------------------------------
(* NetworkStatsService *)

Elapsed == clock - readAt

\* (mutant) a counter that was reset makes a negative rate
GrownBelowZero(i) == bytes[i] - Of(previous, i)

Grown(i) == Max({0, bytes[i] - Of(previous, i)})

\* (mutant) any two readings make a rate
RatedAlways == DOMAIN bytes \cap DOMAIN previous

\* The interfaces that get a new rate.
Rated == {i \in DOMAIN bytes \cap DOMAIN previous : Elapsed > 0}

\* A rate is a number of bytes over a time. An interface that has gone keeps its
\* rate, and so do all when the clock is not later than at the last reading.
Tick ==
    /\ rates' = [i \in DOMAIN rates \cup Rated |->
                   IF i \in Rated THEN [bytes |-> Grown(i), over |-> Elapsed] ELSE rates[i]]
    /\ previous' = bytes /\ readAt' = clock
    /\ since' = Zero(Interfaces) /\ passed' = 0
    /\ UNCHANGED <<traffic, req, isRunning, clock, bytes>>

Transfer(i) ==
    /\ i \in DOMAIN bytes /\ bytes[i] < MaxTraffic /\ since[i] < MaxTraffic
    /\ bytes' = [bytes EXCEPT ![i] = @ + 1] /\ since' = [since EXCEPT ![i] = @ + 1]
    /\ UNCHANGED <<traffic, req, isRunning, clock, previous, readAt, rates, passed>>

\* Taken down, or created again with its counters at 0.
InterfaceChanges(i) ==
    /\ \/ bytes' = [j \in DOMAIN bytes \ {i} |-> bytes[j]]
       \/ bytes' = [j \in DOMAIN bytes \cup {i} |-> IF j = i THEN 0 ELSE bytes[j]]
    /\ UNCHANGED <<traffic, req, isRunning, clock, previous, readAt, rates, since, passed>>

TimePasses ==
    /\ clock < MaxTime /\ clock' = clock + 1
    /\ passed < MaxTime /\ passed' = passed + 1
    /\ UNCHANGED <<traffic, req, isRunning, bytes, previous, readAt, rates, since>>

\* The clock of the machine is set, forward or back.
ClockSet ==
    /\ clock' \in 0..MaxTime
    /\ UNCHANGED <<traffic, req, isRunning, bytes, previous, readAt, rates, since, passed>>

Next ==
    \/ \E r \in Requests :
         \/ \E calls \in Asks : Ask(r, calls)
         \/ Read(r) \/ ReadFails(r) \/ Answer(r) \/ Geocheck(r) \/ GeocheckEnds(r)
    \/ \E c \in Counters : Carry(c)
    \/ \E i \in Interfaces : Transfer(i) \/ InterfaceChanges(i)
    \/ XrayRestarts \/ Tick \/ TimePasses \/ ClockSet

\* A run of geocheck is killed in the end.
Fairness == \A r \in Requests : WF_vars(GeocheckEnds(r))

Spec == Init /\ [][Next]_vars /\ Fairness

-----------------------------------------------------------------------------

Total(f) == MapThenSumSet(LAMBDA r : f[r], DOMAIN f)

\* What each request has read of a counter and not answered yet.
HeldBy(c) ==
    [r \in Requests |-> IF req[r].at \in {"ask", "answer"} THEN Of(req[r].read, c) ELSE 0]
Held(c) == Total(HeldBy(c))

\* Whatever requests overlap, no traffic is reported twice, and all of it is
\* reported or still counted, but for what a failed call or a restart has lost.
TrafficReportedOnce ==
    \A c \in Counters :
        /\ counter[c] + Held(c) + reported[c] <= carried[c]
        /\ c \notin lost => counter[c] + Held(c) + reported[c] = carried[c]

\* A new rate is over a time the clock has seen pass, and unless the clock has
\* been set back since the last reading it never exceeds what the interface has
\* carried over the time that passed, whatever has become of the interface.
RatesNeverExaggerate ==
    [][\A i \in DOMAIN rates' :
         \/ i \in DOMAIN rates /\ rates'[i] = rates[i]
         \/ /\ rates'[i].over > 0
            /\ Elapsed >= passed => rates'[i].bytes * passed <= since[i] * rates'[i].over]_vars

\* The guard of geocheck keeps the promise of SingleFlight.
GeocheckInside == {r \in Requests : req[r].at = "geocheck"}
GeocheckFlight == INSTANCE SingleFlight WITH inside <- GeocheckInside
GeocheckOnce == GeocheckFlight!Spec

=============================================================================
