---------------------------- MODULE SingBoxUsers ----------------------------
(***************************************************************************)
(* Changing the users of a running sing-box: SingBoxService.mutateUsers,   *)
(* next to start and stop.  sing-box has no call to add a user, so every   *)
(* change writes a configuration, checks it, installs it and restarts the  *)
(* process; isStartProcessing keeps out a second start but no change of    *)
(* users.                                                                  *)
(*                                                                         *)
(* A configuration is the set of the accounts in it: a user with its       *)
(* credentials in one inbound.  The panel is the environment.              *)
(***************************************************************************)
CONSTANTS
    Requests,   \* slots for requests served concurrently
    Accounts,
    UserOf,     \* the user of each account
    Unhandled,  \* accounts of a type upsertUsers has no case for (hysteria)
    Unknown,    \* accounts of an inbound the configurations do not have
    None,       \* no configuration, no file, no process
    Faults      \* a subset of FaultKinds

\* stats: the core does not answer queryStats; control: s6-svc fails; check:
\* `sing-box check' rejects a configuration, and sing-box exits where it reads it.
FaultKinds == {"stats", "control", "check"}

ASSUME UserOfAssumption == DOMAIN UserOf = Accounts
ASSUME SkippedAssumption == Unhandled \subseteq Accounts /\ Unknown \subseteq Accounts
ASSUME NoneAssumption == \A config \in SUBSET Accounts : config # None
ASSUME FaultsAssumption == Faults \subseteq FaultKinds

VARIABLES
    panel,     \* the accounts the panel wants
    current,   \* SingBoxService.currentConfig
    active,    \* CoreStateService.isSingBoxActive()
    file,      \* the configuration sing-box reads when it starts
    tmp,       \* the file next to it, with the suffix .tmp
    run,       \* the configuration the process runs
    errors,    \* a change of users was answered with an error since a start
    overlap,   \* two requests were in progress at once since a start
    req        \* per request: what it does, where it waits, its configuration

disk == <<file, tmp>>
history == <<errors, overlap>>
vars == <<panel, current, active, disk, run, history, req>>

Configs == SUBSET Accounts
Ops == {"start", "stop", "mutate"}
\* The await a request is at.
Awaits == {"stats", "write", "check", "rename", "kill", "boot", "ready", "version"}
Idle == [at |-> "idle"]
Request == [at : Awaits, op : Ops, drop : SUBSET {UserOf[a] : a \in Accounts},
            add : Configs, config : Configs]

TypeOK ==
    /\ panel \in Configs
    /\ current \in Configs \cup {None}
    /\ active \in BOOLEAN
    /\ file \in Configs \cup {None} /\ tmp \in Configs \cup {None}
    /\ run \in Configs \cup {None}
    /\ errors \in BOOLEAN /\ overlap \in BOOLEAN
    /\ req \in [Requests -> {Idle} \cup Request]

Init ==
    /\ panel = {} /\ current = None
    /\ active = FALSE
    /\ file = None /\ tmp = None /\ run = None
    /\ errors = FALSE /\ overlap = FALSE
    /\ req = [r \in Requests |-> Idle]

At(r, at) == req[r].at = at
Does(r, op) == req[r].op = op
Goto(r, at) == req' = [req EXCEPT ![r].at = at]

\* What the panel means by a change: the users lose every account but these.
Change(config, drop, add) == {a \in config : UserOf[a] \notin drop} \cup add

\* (mutant) adds the user's name where the account belongs
UpsertNames(config, drop, add) == Change(config, drop, {UserOf[a] : a \in add})

\* (mutant) only users that get an account are filtered out
UpsertFiltersAdded(config, drop, add) ==
    Change(config, {UserOf[a] : a \in add}, add \ (Unhandled \cup Unknown))

\* What upsertUsers and removeUsers make of it: users are filtered out of every
\* inbound, and an account that cannot be added is passed over in silence.
Skipped == Unhandled \cup Unknown
Upsert(config, drop, add) == Change(config, drop, add \ Skipped)

Alone(r) == \A q \in Requests \ {r} : At(q, "idle")

Receive(r, op, at, drop, add) ==
    /\ At(r, "idle")
    /\ overlap' = (~Alone(r) \/ (op # "start" /\ overlap))
    /\ req' = [req EXCEPT ![r] = [at |-> at, op |-> op, drop |-> drop, add |-> add,
                                  config |-> IF op = "start" THEN panel \ Unknown ELSE {}]]

\* The exception ends the request.  The handler of a start marks sing-box
\* offline; that of a change of users only answers the error.
Throws(r) ==
    /\ req' = [req EXCEPT ![r] = Idle]
    /\ active' = (active /\ ~Does(r, "start"))
    /\ errors' = (errors \/ Does(r, "mutate"))
    /\ UNCHANGED overlap

-----------------------------------------------------------------------------
(* start, mutateUsers and stop, up to their first await. *)

\* isStartProcessing: one start at a time; the hashes asked for a restart.
ReceiveStart(r) ==
    /\ \A q \in Requests : ~At(q, "idle") => ~Does(q, "start")
    /\ errors' = FALSE
    /\ Receive(r, "start", IF active THEN "stats" ELSE "write", {}, {})
    /\ UNCHANGED <<panel, current, active, disk, run>>

\* The panel gives one user the accounts it is to have, or none.
ReceiveMutate(r) ==
    /\ \E user \in {UserOf[a] : a \in Accounts} :
       \E accounts \in SUBSET {a \in Accounts : UserOf[a] = user} :
         LET drop == {user} IN
         /\ panel' = Change(panel, drop, accounts)
         /\ IF active /\ current # None
            THEN Receive(r, "mutate", "stats", drop, accounts) /\ UNCHANGED errors
            ELSE At(r, "idle") /\ errors' = TRUE /\ UNCHANGED <<overlap, req>>
    /\ UNCHANGED <<current, active, disk, run>>

ReceiveStop(r) ==
    /\ Receive(r, "stop", IF active THEN "stats" ELSE "kill", {}, {})
    /\ UNCHANGED <<panel, current, active, disk, run, errors>>

-----------------------------------------------------------------------------
(* Once accumulateAndReset has answered. *)

\* The change is made in currentConfig itself, whatever it is by now, and the
\* copy of it is what the request is going to install: the change is done with.
Mutate(r) ==
    /\ At(r, "stats") /\ Does(r, "mutate")
    /\ run # None /\ current # None
    /\ current' = Upsert(current, req[r].drop, req[r].add)
    /\ req' = [req EXCEPT ![r] = [at |-> "write", op |-> "mutate", drop |-> {}, add |-> {},
                                  config |-> current']]
    /\ UNCHANGED <<panel, active, disk, run, history>>

Accumulated(r) ==
    /\ At(r, "stats") /\ run # None
    /\ \/ Does(r, "start") /\ Goto(r, "write")
       \/ Does(r, "stop") /\ Goto(r, "kill")
    /\ UNCHANGED <<panel, current, active, disk, run, history>>

\* stop goes on without the statistics; a stopped sing-box has no currentConfig.
AccumulateFails(r) ==
    /\ At(r, "stats")
    /\ run = None \/ "stats" \in Faults \/ (Does(r, "mutate") /\ current = None)
    /\ IF Does(r, "stop") THEN Goto(r, "kill") /\ UNCHANGED <<active, history>> ELSE Throws(r)
    /\ UNCHANGED <<panel, current, disk, run>>

-----------------------------------------------------------------------------
(* writeAndValidateConfig *)

WriteTemporary(r) ==
    /\ At(r, "write")
    /\ tmp' = req[r].config
    /\ Goto(r, "check")
    /\ UNCHANGED <<panel, current, active, file, run, history>>

\* sing-box check reads the temporary file, whoever wrote it last.
Check(r) ==
    /\ At(r, "check") /\ tmp # None
    /\ Goto(r, "rename")
    /\ UNCHANGED <<panel, current, active, disk, run, history>>

CheckFails(r) ==
    /\ At(r, "check")
    /\ tmp = None \/ "check" \in Faults
    /\ Throws(r)
    /\ UNCHANGED <<panel, current, disk, run>>

Rename(r) ==
    /\ At(r, "rename") /\ tmp # None
    /\ file' = tmp /\ tmp' = None
    /\ Goto(r, "kill")
    /\ UNCHANGED <<panel, current, active, run, history>>

\* Another request has renamed it.
RenameFails(r) ==
    /\ At(r, "rename") /\ tmp = None
    /\ Throws(r)
    /\ UNCHANGED <<panel, current, disk, run>>

-----------------------------------------------------------------------------
(* processService.stop and restart, waitUntilReady. *)

\* (mutant) the restart leaves a process that is up alone
KillSkipped(r) ==
    /\ At(r, "kill") /\ ~Does(r, "stop")
    /\ Goto(r, "boot")
    /\ UNCHANGED <<panel, current, active, disk, run, history>>

Kill(r) ==
    /\ At(r, "kill") /\ ~Does(r, "stop")
    /\ run' = None
    /\ Goto(r, "boot")
    /\ UNCHANGED <<panel, current, active, disk, history>>

\* stop clears currentConfig where its await ends.
KillForStop(r) ==
    /\ At(r, "kill") /\ Does(r, "stop")
    /\ run' = None /\ active' = FALSE /\ current' = None
    /\ req' = [req EXCEPT ![r] = Idle]
    /\ UNCHANGED <<panel, disk, history>>

\* A process that is up stays as it is; one that cannot use its file exits.
Boot(r) ==
    /\ At(r, "boot")
    /\ \/ run' = IF run # None THEN run ELSE file
       \/ "check" \in Faults /\ run = None /\ run' = None
    /\ Goto(r, "ready")
    /\ UNCHANGED <<panel, current, active, disk, history>>

ControlFails(r) ==
    /\ "control" \in Faults /\ req[r].at \in {"kill", "boot"}
    /\ IF Does(r, "stop") THEN req' = [req EXCEPT ![r] = Idle] /\ UNCHANGED <<active, history>>
                          ELSE Throws(r)
    /\ UNCHANGED <<panel, current, disk, run>>

\* (mutant) a change of users is not kept in currentConfig
ReadyKeepsCurrent(r) ==
    /\ At(r, "ready") /\ run # None
    /\ IF Does(r, "start") THEN Goto(r, "version") ELSE req' = [req EXCEPT ![r] = Idle]
    /\ UNCHANGED <<panel, current, active, disk, run, history>>

Ready(r) ==
    /\ At(r, "ready") /\ run # None
    /\ current' = req[r].config
    /\ IF Does(r, "start") THEN Goto(r, "version") ELSE req' = [req EXCEPT ![r] = Idle]
    /\ UNCHANGED <<panel, active, disk, run, history>>

\* The process is gone, or its statistics do not answer before the last retry.
NotReady(r) ==
    /\ At(r, "ready")
    /\ run = None \/ "stats" \in Faults
    /\ Throws(r)
    /\ UNCHANGED <<panel, current, disk, run>>

SetActiveCore(r) ==
    /\ At(r, "version")
    /\ active' = TRUE
    /\ req' = [req EXCEPT ![r] = Idle]
    /\ UNCHANGED <<panel, current, disk, run, history>>

Next ==
    \E r \in Requests :
        \/ ReceiveStart(r) \/ ReceiveMutate(r) \/ ReceiveStop(r)
        \/ Mutate(r) \/ Accumulated(r) \/ AccumulateFails(r)
        \/ WriteTemporary(r) \/ Check(r) \/ CheckFails(r) \/ Rename(r) \/ RenameFails(r)
        \/ Kill(r) \/ KillForStop(r) \/ Boot(r) \/ ControlFails(r)
        \/ Ready(r) \/ NotReady(r) \/ SetActiveCore(r)

Spec == Init /\ [][Next]_vars

-----------------------------------------------------------------------------
(* Properties. *)

Quiet == \A r \in Requests : At(r, "idle")

\* When the requests since the last start came one after the other, and every
\* change of users was answered with success, an active sing-box serves no
\* account the panel does not want, in whatever inbound, and every account it
\* wants except those that upsertUsers passes over.
Meets(config) == config \subseteq panel /\ panel \ config \subseteq Skipped
ServesPanel == Quiet /\ active /\ ~errors /\ ~overlap => Meets(run)

\* And the process runs, from the file that is installed, which is also what
\* the next change of users starts from: a restart would change nothing.
InstalledIsServed ==
    Quiet /\ active /\ ~errors /\ ~overlap => run # None /\ file = run /\ current = run

\* Requests may also overlap: the process that is up when all of them were
\* answered without an error runs the file that was installed last.
RunsInstalled == Quiet /\ active /\ run # None /\ ~errors => run = file
=============================================================================
