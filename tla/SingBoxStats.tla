---------------------------- MODULE SingBoxStats ----------------------------
(***************************************************************************)
(* SingBoxStatsService: sing-box keeps its traffic counters in memory and  *)
(* loses them with its process, so the node moves them into a map of its   *)
(* own (accumulated) before it restarts the core, and adds that map to     *)
(* what the core counts when the panel asks.                               *)
(*                                                                         *)
(* Traffic comes in chunks, each counted under one name (a user, an        *)
(* inbound or an outbound).  A counter is the set of the chunks it holds,  *)
(* so that a chunk added twice or dropped is visible.                      *)
(***************************************************************************)
EXTENDS Naturals

CONSTANTS
    Requests,    \* slots for calls served concurrently
    Categories,  \* name prefixes: user>>>, inbound>>>, inbound>>><tag>>>>, ...
    Chunks,      \* the traffic, a bounded amount of it
    CategoryOf,  \* the finest of them each chunk is counted under
    Faults       \* a subset of FaultKinds

\* crash: the core dies; rpc: a query is refused; reply: the core answers a
\* query, and resets its counters, but the answer is lost; check: the new
\* configuration is rejected, and the restart given up.
FaultKinds == {"crash", "rpc", "reply", "check"}

ASSUME CategoriesAssumption == CategoryOf \in [Chunks -> Categories]
ASSUME FaultsAssumption == Faults \subseteq FaultKinds

VARIABLES
    up,           \* the core runs
    fresh,        \* traffic that has not happened yet
    counters,     \* the counters of the core
    accumulated,  \* SingBoxStatsService.accumulated
    reported,     \* handed to the panel by a call with reset
    lost,         \* counted by the core, and gone with it or with an answer
    call          \* per request: what it does, where it waits, what it read

\* where a chunk can be
places == <<fresh, counters, accumulated, reported, lost>>
vars == <<up, places, call>>

\* view, reset: getSnapshot(false / true); restart: accumulateAndReset and
\* processService.restart, in mutateUsers and in a start of the active core;
\* replace: a start of sing-box that is not active; stop: SingBoxService.stop.
Ops == {"view", "reset", "restart", "replace", "stop"}
Idle == [op |-> "none", at |-> "idle", cats |-> {}, read |-> {}]

TypeOK ==
    /\ up \in BOOLEAN
    /\ fresh \subseteq Chunks /\ counters \subseteq Chunks
    /\ accumulated \subseteq Chunks
    /\ reported \subseteq Chunks /\ lost \subseteq Chunks
    /\ call \in [Requests -> [op : Ops \cup {"none"},
                              at : {"idle", "query", "answer", "kill"},
                              cats : SUBSET Categories, read : SUBSET Chunks]]

Init ==
    /\ up = FALSE
    /\ fresh = Chunks
    /\ counters = {} /\ accumulated = {} /\ reported = {} /\ lost = {}
    /\ call = [r \in Requests |-> Idle]

Under(cats) == {k \in Chunks : CategoryOf[k] \in cats}

Waits(r, at) == call[r].at = at

-----------------------------------------------------------------------------
(* The core. *)

Transfer ==
    /\ up
    /\ \E k \in fresh : fresh' = fresh \ {k} /\ counters' = counters \cup {k}
    /\ UNCHANGED <<up, accumulated, reported, lost, call>>

Crash ==
    /\ "crash" \in Faults /\ up
    /\ up' = FALSE
    /\ lost' = lost \cup counters
    /\ counters' = {}
    /\ UNCHANGED <<fresh, accumulated, reported, call>>

-----------------------------------------------------------------------------
(* The calls.  The stats endpoints reset what they report: one category, or *)
(* inbounds and outbounds together.                                         *)

\* A start or a stop of a core that is not marked active takes no snapshot.
FirstStep(op) == IF op = "replace" THEN {"kill"}
                 ELSE IF op = "stop" THEN {"query", "kill"}
                 ELSE {"query"}

Call(r) ==
    /\ Waits(r, "idle")
    /\ \E op \in Ops, cats \in SUBSET Categories :
         /\ op \notin {"view", "reset"} => cats = {}
         /\ op \in {"view", "reset"} => cats # {}
         /\ \E at \in FirstStep(op) :
              call' = [call EXCEPT ![r] = [op |-> op, at |-> at, cats |-> cats, read |-> {}]]
    /\ UNCHANGED <<up, places>>

\* (mutant) the query does not reset
QueryKeeps(r) ==
    /\ Waits(r, "query") /\ up
    /\ call' = [call EXCEPT ![r] = [@ EXCEPT !.at = "answer", !.read = counters]]
    /\ UNCHANGED <<up, places>>

\* queryRaw: the core reads its counters and resets them in one step.
Query(r) ==
    /\ Waits(r, "query") /\ up
    /\ call' = [call EXCEPT ![r] = [@ EXCEPT !.at = "answer", !.read = counters]]
    /\ counters' = IF call[r].op = "view" THEN counters ELSE {}
    /\ UNCHANGED <<up, fresh, accumulated, reported, lost>>

\* (mutant) nothing ends the call of which the query failed
AfterFailureHangs(r) == call' = [call EXCEPT ![r].at = "failed"]

\* The exception ends the call; only stop() catches it and goes on.
AfterFailure(r) ==
    call' = [call EXCEPT ![r] =
               IF @.op = "stop" THEN [@ EXCEPT !.at = "kill", !.read = {}] ELSE Idle]

QueryFails(r) ==
    /\ Waits(r, "query") /\ (~up \/ "rpc" \in Faults)
    /\ AfterFailure(r)
    /\ UNCHANGED <<up, places>>

AnswerLost(r) ==
    /\ "reply" \in Faults
    /\ Waits(r, "answer")
    /\ AfterFailure(r)
    /\ lost' = IF call[r].op = "view" THEN lost ELSE lost \cup call[r].read
    /\ UNCHANGED <<up, fresh, counters, accumulated, reported>>

\* (mutant) the keys of the answer replace the accumulated ones
AccumulateOverwrites(r) ==
    /\ Waits(r, "answer") /\ call[r].op \in {"restart", "stop"}
    /\ accumulated' = call[r].read
    /\ call' = [call EXCEPT ![r] = [@ EXCEPT !.at = "kill", !.read = {}]]
    /\ UNCHANGED <<up, fresh, counters, reported, lost>>

AccumulateAndReset(r) ==
    /\ Waits(r, "answer") /\ call[r].op \in {"restart", "stop"}
    /\ accumulated' = accumulated \cup call[r].read
    /\ call' = [call EXCEPT ![r] = [@ EXCEPT !.at = "kill", !.read = {}]]
    /\ UNCHANGED <<up, fresh, counters, reported, lost>>

GetView(r) ==
    /\ Waits(r, "answer") /\ call[r].op = "view"
    /\ call' = [call EXCEPT ![r] = Idle]
    /\ UNCHANGED <<up, places>>

\* getSnapshot(true, prefixes): what the endpoint does not report goes back.
GetSnapshot(r) ==
    /\ Waits(r, "answer") /\ call[r].op = "reset"
    /\ LET combined == accumulated \cup call[r].read IN
         /\ reported' = reported \cup (combined \cap Under(call[r].cats))
         /\ accumulated' = combined \ Under(call[r].cats)
    /\ call' = [call EXCEPT ![r] = Idle]
    /\ UNCHANGED <<up, fresh, counters, lost>>

\* The old process goes with what it has counted since the query.
KillCore(r) ==
    /\ Waits(r, "kill")
    /\ lost' = lost \cup counters
    /\ counters' = {}
    /\ up' = (call[r].op # "stop")
    /\ call' = [call EXCEPT ![r] = Idle]
    /\ UNCHANGED <<fresh, accumulated, reported>>

RestartGivenUp(r) ==
    /\ "check" \in Faults
    /\ Waits(r, "kill") /\ call[r].op # "stop"
    /\ call' = [call EXCEPT ![r] = Idle]
    /\ UNCHANGED <<up, places>>

Next ==
    \/ Transfer \/ Crash
    \/ \E r \in Requests :
         \/ Call(r) \/ Query(r) \/ QueryFails(r) \/ AnswerLost(r)
         \/ AccumulateAndReset(r) \/ GetView(r) \/ GetSnapshot(r) \/ KillCore(r)
         \/ RestartGivenUp(r)

Spec == Init /\ [][Next]_vars

-----------------------------------------------------------------------------
(* Properties. *)

\* The chunks a call with reset has taken out of the core and not yet placed.
Carried(r) == IF call[r].op = "view" THEN {} ELSE call[r].read

\* However calls and restarts interleave and fail, no traffic is counted in
\* two places, so none is reported twice: what accumulateAndReset adds and
\* getSnapshot clears, each after an await, never overlap.
CountedOnce ==
    /\ \A i, j \in 1..5 : i # j => places[i] \cap places[j] = {}
    /\ \A r \in Requests :
         /\ \A i \in 1..5 : Carried(r) \cap places[i] = {}
         /\ \A q \in Requests : q # r => Carried(r) \cap Carried(q) = {}

\* And none disappears: it is in the core, with a call, in the map of the
\* node, reported, or known to be lost with a process or an answer.
NothingForgotten ==
    Chunks = (UNION {places[i] : i \in 1..5}) \cup (UNION {Carried(r) : r \in Requests})

=============================================================================
