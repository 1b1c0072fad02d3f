------------------------- MODULE SingBoxUsersProofs -------------------------
(* Proofs about SingBoxUsers, for any number of requests and accounts and   *)
(* whatever is rejected or fails.                                           *)
EXTENDS SingBoxUsers, TLAPS

-----------------------------------------------------------------------------
(* Types. *)

LEMMA TypeInit == Init => TypeOK
  BY DEF Init, TypeOK, Configs

LEMMA Working ==
  ASSUME TypeOK, NEW r \in Requests, req[r].at # "idle"
  PROVE  req[r] \in Request
  BY DEF TypeOK, Idle

LEMMA ChangeType ==
  ASSUME NEW config \in Configs, NEW drop, NEW add \in Configs
  PROVE  Change(config, drop, add) \in Configs
  BY DEF Change, Configs

LEMMA UpsertType ==
  ASSUME NEW config \in Configs, NEW drop, NEW add \in Configs
  PROVE  Upsert(config, drop, add) \in Configs
  BY DEF Upsert, Change, Configs

\* A configuration that meets what the panel wanted meets what it wants after
\* a change, once the change is made in it.
LEMMA UpsertMeets ==
  ASSUME NEW wanted, NEW config, NEW drop, NEW add,
         config \subseteq wanted, wanted \ config \subseteq Skipped
  PROVE  /\ Upsert(config, drop, add) \subseteq Change(wanted, drop, add)
         /\ Change(wanted, drop, add) \ Upsert(config, drop, add) \subseteq Skipped
  BY DEF Upsert, Change

\* What each step may do to the request it is a step of.
LEMMA GotoType ==
  ASSUME TypeOK, NEW r \in Requests, req[r].at # "idle", NEW at \in Awaits, Goto(r, at)
  PROVE  req' \in [Requests -> {Idle} \cup Request]
  <1>1. req[r] \in Request  BY Working
  <1>2. [req[r] EXCEPT !.at = at] \in Request  BY <1>1 DEF Request
  <1> QED BY <1>2 DEF Goto, TypeOK

LEMMA ReceiveType ==
  ASSUME TypeOK, NEW r \in Requests, NEW op \in Ops, NEW at \in Awaits,
         NEW drop \in SUBSET {UserOf[a] : a \in Accounts}, NEW add \in Configs,
         Receive(r, op, at, drop, add)
  PROVE  /\ req' \in [Requests -> {Idle} \cup Request]
         /\ overlap' \in BOOLEAN
  <1>1. [at |-> at, op |-> op, drop |-> drop, add |-> add,
         config |-> IF op = "start" THEN panel \ Unknown ELSE {}] \in Request
    BY DEF Request, TypeOK, Configs
  <1> QED BY <1>1 DEF Receive, TypeOK

LEMMA ThrowsType ==
  ASSUME TypeOK, NEW r \in Requests, Throws(r)
  PROVE  /\ req' \in [Requests -> {Idle} \cup Request]
         /\ active' \in BOOLEAN /\ errors' \in BOOLEAN /\ overlap' \in BOOLEAN
  BY DEF Throws, TypeOK

LEMMA TypeStep ==
  ASSUME TypeOK, [Next]_vars
  PROVE  TypeOK'
  <1> USE DEF TypeOK, disk, history
  <1>1. ASSUME NEW r \in Requests, ReceiveStart(r) PROVE TypeOK'
    <2>1. {} \in SUBSET {UserOf[a] : a \in Accounts} /\ {} \in Configs  BY DEF Configs
    <2> QED BY <1>1, <2>1, ReceiveType DEF ReceiveStart, Ops, Awaits
  <1>2. ASSUME NEW r \in Requests, ReceiveMutate(r) PROVE TypeOK'
    <2>1. PICK user \in {UserOf[a] : a \in Accounts},
                 accounts \in SUBSET Accounts :
            LET drop == {user} IN
            /\ panel' = Change(panel, drop, accounts)
            /\ IF active /\ current # None
               THEN Receive(r, "mutate", "stats", drop, accounts) /\ UNCHANGED errors
               ELSE At(r, "idle") /\ errors' = TRUE /\ UNCHANGED <<overlap, req>>
      BY <1>2 DEF ReceiveMutate
    <2> DEFINE drop == {user}
    <2>2. drop \in SUBSET {UserOf[b] : b \in Accounts} /\ accounts \in Configs
      BY DEF Configs
    <2> HIDE DEF drop
    <2>3. panel' \in Configs  BY <2>1, <2>2, ChangeType DEF drop
    <2>4. Receive(r, "mutate", "stats", drop, accounts) =>
            req' \in [Requests -> {Idle} \cup Request] /\ overlap' \in BOOLEAN
      BY <2>2, ReceiveType DEF Ops, Awaits
    <2> QED BY <1>2, <2>1, <2>3, <2>4 DEF ReceiveMutate, drop
  <1>3. ASSUME NEW r \in Requests, ReceiveStop(r) PROVE TypeOK'
    <2>1. {} \in SUBSET {UserOf[a] : a \in Accounts} /\ {} \in Configs  BY DEF Configs
    <2> QED BY <1>3, <2>1, ReceiveType DEF ReceiveStop, Ops, Awaits
  <1>4. ASSUME NEW r \in Requests, Mutate(r) PROVE TypeOK'
    <2>1. req[r] \in Request  BY <1>4, Working DEF Mutate, At
    <2>2. current' \in Configs
      BY <1>4, <2>1, UpsertType DEF Mutate, Request
    <2>3. [at |-> "write", op |-> "mutate", drop |-> {}, add |-> {},
           config |-> current'] \in Request
      BY <2>2 DEF Request, Awaits, Ops, Configs
    <2> QED BY <1>4, <2>2, <2>3 DEF Mutate
  <1>5. ASSUME NEW r \in Requests, Accumulated(r) PROVE TypeOK'
    BY <1>5, GotoType DEF Accumulated, At, Awaits
  <1>6. ASSUME NEW r \in Requests, AccumulateFails(r) PROVE TypeOK'
    BY <1>6, GotoType, ThrowsType DEF AccumulateFails, At, Awaits
  <1>7. ASSUME NEW r \in Requests, WriteTemporary(r) PROVE TypeOK'
    BY <1>7, GotoType, Working DEF WriteTemporary, At, Awaits, Request
  <1>8. ASSUME NEW r \in Requests, Check(r) PROVE TypeOK'
    BY <1>8, GotoType DEF Check, At, Awaits
  <1>9. ASSUME NEW r \in Requests, CheckFails(r) PROVE TypeOK'
    BY <1>9, ThrowsType DEF CheckFails
  <1>10. ASSUME NEW r \in Requests, Rename(r) PROVE TypeOK'
    BY <1>10, GotoType DEF Rename, At, Awaits
  <1>11. ASSUME NEW r \in Requests, RenameFails(r) PROVE TypeOK'
    BY <1>11, ThrowsType DEF RenameFails
  <1>12. ASSUME NEW r \in Requests, Kill(r) PROVE TypeOK'
    BY <1>12, GotoType DEF Kill, At, Awaits
  <1>13. ASSUME NEW r \in Requests, KillForStop(r) PROVE TypeOK'
    BY <1>13 DEF KillForStop
  <1>14. ASSUME NEW r \in Requests, Boot(r) PROVE TypeOK'
    BY <1>14, GotoType DEF Boot, At, Awaits
  <1>15. ASSUME NEW r \in Requests, ControlFails(r) PROVE TypeOK'
    BY <1>15, ThrowsType DEF ControlFails
  <1>16. ASSUME NEW r \in Requests, Ready(r) PROVE TypeOK'
    <2>1. req[r] \in Request  BY <1>16, Working DEF Ready, At
    <2>2. current' \in Configs  BY <1>16, <2>1 DEF Ready, Request
    <2> QED BY <1>16, <2>2, GotoType DEF Ready, At, Awaits
  <1>17. ASSUME NEW r \in Requests, NotReady(r) PROVE TypeOK'
    BY <1>17, ThrowsType DEF NotReady
  <1>18. ASSUME NEW r \in Requests, SetActiveCore(r) PROVE TypeOK'
    BY <1>18 DEF SetActiveCore
  <1>19. CASE UNCHANGED vars  BY <1>19 DEF vars
  <1> QED
    BY <1>1, <1>2, <1>3, <1>4, <1>5, <1>6, <1>7, <1>8, <1>9, <1>10, <1>11, <1>12,
       <1>13, <1>14, <1>15, <1>16, <1>17, <1>18, <1>19 DEF Next

LEMMA TypeInvariant == Spec => []TypeOK
  <1>1. TypeOK /\ [Next]_vars => TypeOK'  BY TypeStep
  <1> QED BY TypeInit, <1>1, PTL DEF Spec

\* Configurations, files, the process and the requests keep their types, for
\* any number of concurrent requests and whatever fails.
THEOREM UsersTypeCorrect == Spec => []TypeOK
  BY TypeInvariant

-----------------------------------------------------------------------------
(* Requests that do not overlap.  While one request is in progress, Progress *)
(* says how far it has brought the file, the process and currentConfig.     *)

Idles(r) == At(r, "idle")
OneRequest == ~overlap => \A q, r \in Requests : Idles(q) \/ Idles(r) \/ q = r

Served == active => run # None /\ Meets(run) /\ file = run /\ current = run

Progress(r) ==
    /\ Does(r, "stop") => req[r].at \in {"stats", "kill"} /\ Served
    /\ Does(r, "mutate") /\ At(r, "stats") =>
         Meets(Upsert(current, req[r].drop, req[r].add))
    /\ Does(r, "mutate") => ~At(r, "version")
    /\ Does(r, "start") \/ (Does(r, "mutate") /\ ~At(r, "stats")) => Meets(req[r].config)
    /\ At(r, "check") \/ At(r, "rename") => tmp = req[r].config
    /\ At(r, "kill") \/ At(r, "boot") \/ At(r, "ready") \/ At(r, "version") =>
         Does(r, "stop") \/ file = req[r].config
    /\ At(r, "boot") => run = None
    /\ At(r, "ready") => run \in {None, req[r].config}
    /\ At(r, "version") => run = req[r].config /\ current = req[r].config

SerialInv ==
    ~errors /\ ~overlap =>
        /\ Quiet => Served
        /\ \A r \in Requests : ~Idles(r) => Progress(r)

LEMMA SerialInit == Init => OneRequest /\ SerialInv
  BY DEF Init, OneRequest, SerialInv, Idles, At, Idle, Quiet, Served

\* A step of a request leaves the other requests where they are.
LEMMA OneRequestStep ==
  ASSUME TypeOK, OneRequest, [Next]_vars
  PROVE  OneRequest'
  <1> USE DEF TypeOK, OneRequest, Idles, At, Idle
  <1>1. ASSUME NEW r \in Requests,
               ReceiveStart(r) \/ ReceiveMutate(r) \/ ReceiveStop(r)
        PROVE  OneRequest'
    <2>1. ASSUME NEW op, NEW at, NEW drop, NEW add, Receive(r, op, at, drop, add)
          PROVE  OneRequest'
      BY <2>1 DEF Receive, Alone
    <2>2. CASE UNCHANGED <<overlap, req>>  BY <2>2
    <2> QED BY <1>1, <2>1, <2>2 DEF ReceiveStart, ReceiveMutate, ReceiveStop
  <1>2. ASSUME NEW r \in Requests, req[r].at # "idle", overlap' = overlap,
               \A q \in Requests \ {r} : req'[q] = req[q]
        PROVE  OneRequest'
    BY <1>2
  <1>3. ASSUME NEW r \in Requests,
               \/ Mutate(r) \/ Accumulated(r) \/ AccumulateFails(r) \/ WriteTemporary(r)
               \/ Check(r) \/ CheckFails(r) \/ Rename(r) \/ RenameFails(r)
               \/ Kill(r) \/ KillForStop(r) \/ Boot(r) \/ ControlFails(r)
               \/ Ready(r) \/ NotReady(r) \/ SetActiveCore(r)
        PROVE  OneRequest'
    <2>1. req[r].at # "idle"
      BY <1>3 DEF Mutate, Accumulated, AccumulateFails, WriteTemporary, Check, CheckFails,
         Rename, RenameFails, Kill, KillForStop, Boot, ControlFails, Ready, NotReady,
         SetActiveCore
    <2>2. overlap' = overlap
      BY <1>3 DEF Mutate, Accumulated, AccumulateFails, WriteTemporary, Check, CheckFails,
         Rename, RenameFails, Kill, KillForStop, Boot, ControlFails, Ready, NotReady,
         SetActiveCore, Throws, history
    <2>3. \A q \in Requests \ {r} : req'[q] = req[q]
      BY <1>3 DEF Mutate, Accumulated, AccumulateFails, WriteTemporary, Check, CheckFails,
         Rename, RenameFails, Kill, KillForStop, Boot, ControlFails, Ready, NotReady,
         SetActiveCore, Throws, Goto
    <2> QED BY <1>2, <2>1, <2>2, <2>3
  <1>4. CASE UNCHANGED vars  BY <1>4 DEF vars, history
  <1> QED BY <1>1, <1>3, <1>4 DEF Next

\* It is enough to look at the request that takes the step.
LEMMA Alone1 ==
  ASSUME TypeOK, OneRequest, NEW r \in Requests, req[r].at # "idle", ~overlap',
         overlap' = overlap, \A q \in Requests \ {r} : req'[q] = req[q],
         ~errors', Quiet' => Served', ~Idles(r)' => Progress(r)'
  PROVE  SerialInv'
  BY DEF SerialInv, OneRequest, Idles, At, TypeOK

LEMMA SerialStep ==
  ASSUME TypeOK, OneRequest, SerialInv, [Next]_vars
  PROVE  SerialInv'
  <1> SUFFICES ASSUME ~errors', ~overlap' PROVE SerialInv'  BY DEF SerialInv
  <1> USE DEF TypeOK, At, Does, Idle, Idles
  <1>1. ASSUME NEW r \in Requests, ReceiveStart(r) PROVE SerialInv'
    <2>1. \A q \in Requests \ {r} : req'[q].at = "idle"
      BY <1>1 DEF ReceiveStart, Receive, Alone
    <2>2. /\ req'[r].op = "start" /\ req'[r].config = panel' \ Unknown
          /\ req'[r].at \in {"stats", "write"}
      BY <1>1 DEF ReceiveStart, Receive
    <2>3. Meets(req[r].config)'  BY <2>2 DEF Meets, Skipped
    <2> QED BY <2>1, <2>2, <2>3 DEF SerialInv, Progress, Quiet
  <1>2. ASSUME NEW r \in Requests, ReceiveMutate(r) PROVE SerialInv'
    <2>1. PICK user \in {UserOf[a] : a \in Accounts},
                 accounts \in SUBSET Accounts :
            LET drop == {user} IN
            /\ panel' = Change(panel, drop, accounts)
            /\ active /\ current # None
            /\ Receive(r, "mutate", "stats", drop, accounts)
            /\ UNCHANGED errors
      BY <1>2 DEF ReceiveMutate
    <2>2. \A q \in Requests : req[q].at = "idle"  BY <2>1 DEF Receive, Alone
    <2>3. Meets(current)
      BY <2>1, <2>2 DEF SerialInv, Quiet, Served, Receive
    <2>4. current' = current  BY <1>2 DEF ReceiveMutate
    <2>5. /\ req'[r].op = "mutate" /\ req'[r].at = "stats"
          /\ panel' = Change(panel, req'[r].drop, req'[r].add)
          /\ \A q \in Requests \ {r} : req'[q].at = "idle"
      BY <2>1, <2>2 DEF Receive
    <2>6. Meets(Upsert(current, req[r].drop, req[r].add))'
      BY <2>3, <2>4, <2>5, UpsertMeets DEF Meets
    <2> QED BY <2>5, <2>6 DEF SerialInv, Progress, Quiet
  <1>3. ASSUME NEW r \in Requests, ReceiveStop(r) PROVE SerialInv'
    <2>1. \A q \in Requests : req[q].at = "idle"  BY <1>3 DEF ReceiveStop, Receive, Alone
    <2>2. Served' BY <1>3, <2>1 DEF SerialInv, Quiet, Served, Meets, ReceiveStop, disk, Receive
    <2>3. /\ req'[r].op = "stop" /\ req'[r].at \in {"stats", "kill"}
          /\ \A q \in Requests \ {r} : req'[q].at = "idle"
      BY <1>3, <2>1 DEF ReceiveStop, Receive
    <2> QED BY <2>2, <2>3 DEF SerialInv, Progress, Quiet
  <1>4. ASSUME NEW r \in Requests, req[r].at # "idle", overlap' = overlap, errors' = errors
        PROVE  Progress(r) /\ req[r] \in Request /\ req[r].op \in Ops
    <2>1. req[r] \in Request  BY <1>4, Working
    <2> QED BY <1>4, <2>1 DEF SerialInv, Request
  <1> USE DEF disk, history, Meets
  <1>5. ASSUME NEW r \in Requests, Mutate(r) PROVE SerialInv'
    <2>1. Progress(r) /\ req[r] \in Request  BY <1>4, <1>5 DEF Mutate
    <2>2. Progress(r)' /\ ~Quiet'  BY <1>5, <2>1 DEF Mutate, Progress, Quiet
    <2> QED BY <1>5, <2>2, Alone1 DEF Mutate
  <1>6. ASSUME NEW r \in Requests, Accumulated(r) PROVE SerialInv'
    <2>1. Progress(r) /\ req[r] \in Request  BY <1>4, <1>6 DEF Accumulated
    <2>2. CASE Does(r, "start") /\ Goto(r, "write")
      BY <1>6, <2>1, <2>2, Alone1 DEF Accumulated, Goto, Progress, Quiet
    <2>3. CASE Does(r, "stop") /\ Goto(r, "kill")
      <3>1. req'[r].op = "stop" /\ req'[r].at = "kill"  BY <2>3 DEF Goto
      <3>2. Served'  BY <1>6, <2>1, <2>3 DEF Accumulated, Progress, Served
      <3>3. Progress(r)' /\ ~Quiet'  BY <3>1, <3>2 DEF Progress, Quiet
      <3> QED BY <1>6, <2>3, <3>3, Alone1 DEF Accumulated, Goto
    <2> QED BY <1>6, <2>2, <2>3 DEF Accumulated
  <1>7. ASSUME NEW r \in Requests, Throws(r), UNCHANGED <<panel, current, disk, run>>,
               req[r].at # "idle"
        PROVE  SerialInv'
    <2>1. req[r].op # "mutate" /\ errors' = errors  BY <1>7 DEF Throws
    <2>2. Progress(r) /\ req[r].op \in Ops  BY <1>4, <1>7, <2>1 DEF Throws
    <2>3. Served'  BY <1>7, <2>1, <2>2 DEF Throws, Progress, Served, Ops
    <2> QED BY <1>7, <2>3, Alone1 DEF Throws
  <1>8. ASSUME NEW r \in Requests, AccumulateFails(r) PROVE SerialInv'
    <2>1. CASE Does(r, "stop")
      <3>1. Progress(r) /\ req[r] \in Request  BY <1>4, <1>8, <2>1 DEF AccumulateFails
      <3>2. req'[r].op = "stop" /\ req'[r].at = "kill"
        BY <1>8, <2>1, <3>1 DEF AccumulateFails, Goto, Request
      <3>3. Served'  BY <1>8, <2>1, <3>1 DEF AccumulateFails, Progress, Served
      <3>4. Progress(r)' /\ ~Quiet'  BY <3>2, <3>3 DEF Progress, Quiet
      <3> QED BY <1>8, <2>1, <3>4, Alone1 DEF AccumulateFails, Goto
    <2>2. CASE ~Does(r, "stop")  BY <1>7, <1>8, <2>2 DEF AccumulateFails
    <2> QED BY <2>1, <2>2
  <1>9. ASSUME NEW r \in Requests, WriteTemporary(r) PROVE SerialInv'
    <2>1. Progress(r) /\ req[r] \in Request /\ req[r].op \in Ops
      BY <1>4, <1>9 DEF WriteTemporary
    <2>2. Progress(r)' /\ ~Quiet'
      BY <1>9, <2>1 DEF WriteTemporary, Goto, Progress, Quiet, Served, Ops
    <2> QED BY <1>9, <2>2, Alone1 DEF WriteTemporary, Goto
  <1>10. ASSUME NEW r \in Requests, Check(r) PROVE SerialInv'
    <2>1. Progress(r) /\ req[r] \in Request  BY <1>4, <1>10 DEF Check
    <2>2. Progress(r)' /\ ~Quiet'  BY <1>10, <2>1 DEF Check, Goto, Progress, Quiet, Served
    <2> QED BY <1>10, <2>2, Alone1 DEF Check, Goto
  <1>11. ASSUME NEW r \in Requests, CheckFails(r) \/ RenameFails(r) \/ NotReady(r)
         PROVE  SerialInv'
    BY <1>7, <1>11 DEF CheckFails, RenameFails, NotReady
  <1>12. ASSUME NEW r \in Requests, Rename(r) PROVE SerialInv'
    <2>1. Progress(r) /\ req[r] \in Request  BY <1>4, <1>12 DEF Rename
    <2>2. Progress(r)' /\ ~Quiet'  BY <1>12, <2>1 DEF Rename, Goto, Progress, Quiet, Served
    <2> QED BY <1>12, <2>2, Alone1 DEF Rename, Goto
  <1>13. ASSUME NEW r \in Requests, Kill(r) PROVE SerialInv'
    <2>1. Progress(r) /\ req[r] \in Request  BY <1>4, <1>13 DEF Kill
    <2>2. Progress(r)' /\ ~Quiet'  BY <1>13, <2>1 DEF Kill, Goto, Progress, Quiet, Served
    <2> QED BY <1>13, <2>2, Alone1 DEF Kill, Goto
  <1>14. ASSUME NEW r \in Requests, KillForStop(r) PROVE SerialInv'
    <2>1. Served'  BY <1>14 DEF KillForStop, Served
    <2> QED BY <1>14, <2>1, Alone1 DEF KillForStop
  <1>15. ASSUME NEW r \in Requests, Boot(r) PROVE SerialInv'
    <2>1. Progress(r) /\ req[r] \in Request  BY <1>4, <1>15 DEF Boot
    <2>2. Progress(r)' /\ ~Quiet'  BY <1>15, <2>1 DEF Boot, Goto, Progress, Quiet, Served
    <2> QED BY <1>15, <2>2, Alone1 DEF Boot, Goto
  <1>16. ASSUME NEW r \in Requests, ControlFails(r) PROVE SerialInv'
    <2>1. CASE Does(r, "stop")
      <3>1. Progress(r)  BY <1>4, <1>16, <2>1 DEF ControlFails
      <3>2. Served'  BY <1>16, <2>1, <3>1 DEF ControlFails, Progress, Served
      <3> QED BY <1>16, <2>1, <3>2, Alone1 DEF ControlFails
    <2>2. CASE ~Does(r, "stop")  BY <1>7, <1>16, <2>2 DEF ControlFails
    <2> QED BY <2>1, <2>2
  <1>17. ASSUME NEW r \in Requests, Ready(r) PROVE SerialInv'
    <2>1. Progress(r) /\ req[r] \in Request /\ req[r].op \in Ops
      BY <1>4, <1>17 DEF Ready
    <2>2. /\ run = req[r].config /\ file = req[r].config /\ current' = req[r].config
          /\ Meets(req[r].config)
      BY <1>17, <2>1 DEF Ready, Progress, Ops
    <2>3. Served'  BY <1>17, <2>2 DEF Ready, Served, Meets
    <2>4. ~Idles(r)' => req'[r].op = "start" /\ req'[r].at = "version"
                          /\ req'[r].config = req[r].config
      BY <1>17, <2>1 DEF Ready, Goto, Progress, Request, Ops
    <2>5. ~Idles(r)' => Progress(r)'
      BY <1>17, <2>2, <2>4 DEF Ready, Progress
    <2> QED BY <1>17, <2>3, <2>5, Alone1 DEF Ready, Goto
  <1>18. ASSUME NEW r \in Requests, SetActiveCore(r) PROVE SerialInv'
    <2>1. Progress(r) /\ req[r].op \in Ops /\ req[r] \in Request
      BY <1>4, <1>18 DEF SetActiveCore
    <2>2. req[r].config # None  BY <2>1, NoneAssumption DEF Request, Configs
    <2>3. Served'  BY <1>18, <2>1, <2>2 DEF SetActiveCore, Progress, Served, Ops
    <2> QED BY <1>18, <2>3, Alone1 DEF SetActiveCore
  <1>19. CASE UNCHANGED vars
    BY <1>19 DEF vars, SerialInv, Quiet, Served, Progress
  <1> QED
    BY <1>1, <1>2, <1>3, <1>5, <1>6, <1>8, <1>9, <1>10, <1>11, <1>12, <1>13, <1>14,
       <1>15, <1>16, <1>17, <1>18, <1>19 DEF Next

LEMMA SerialInvariant == Spec => [](TypeOK /\ SerialInv)
  <1> DEFINE Inv == TypeOK /\ OneRequest /\ SerialInv
  <1>1. Init => Inv  BY TypeInit, SerialInit
  <1>2. Inv /\ [Next]_vars => Inv'  BY TypeStep, OneRequestStep, SerialStep
  <1> QED BY <1>1, <1>2, PTL DEF Spec

\* Changes of users made one after the other, and answered with success, are
\* what an active sing-box serves.
THEOREM SerialChangesServed == Spec => []ServesPanel
  <1>1. TypeOK /\ SerialInv => ServesPanel  BY DEF SerialInv, ServesPanel, Served
  <1> QED BY SerialInvariant, <1>1, PTL

\* And the process, its file and currentConfig agree.
THEOREM SerialInstalledServed == Spec => []InstalledIsServed
  <1>1. TypeOK /\ SerialInv => InstalledIsServed
    BY NoneAssumption DEF SerialInv, InstalledIsServed, Served, TypeOK, Configs
  <1> QED BY SerialInvariant, <1>1, PTL

-----------------------------------------------------------------------------
(* Requests that overlap.  The process runs the installed file, unless a    *)
(* request is about to kill it, a change was answered with an error, or a   *)
(* start that is going to install and restart is still on its way.          *)

Starts(r) == ~Idles(r) /\ Does(r, "start")
Before(r) == Starts(r) /\ req[r].at \in {"stats", "write", "check", "rename"}
Kills(r) == At(r, "kill") /\ ~Does(r, "stop")

Shape ==
    /\ \A q, r \in Requests : Starts(q) /\ Starts(r) => q = r
    /\ \A r \in Requests :
         /\ ~Idles(r) /\ Does(r, "stop") => req[r].at \in {"stats", "kill"}
         /\ At(r, "version") => Does(r, "start")

Agrees == run = None \/ run = file \/ errors \/ \E r \in Requests : Kills(r)
OverlapInv ==
    \/ Agrees
    \/ \E r \in Requests : Before(r)
    \/ ~active /\ \A r \in Requests : ~Starts(r)

LEMMA OverlapInit == Init => Shape /\ OverlapInv
  BY DEF Init, Shape, OverlapInv, Agrees, Idles, Starts, At, Idle

LEMMA OverlapStep ==
  ASSUME TypeOK, Shape, OverlapInv, [Next]_vars
  PROVE  Shape' /\ OverlapInv'
  <1> DEFINE Step(r) ==
        \/ Mutate(r) \/ Accumulated(r) \/ AccumulateFails(r) \/ WriteTemporary(r)
        \/ Check(r) \/ CheckFails(r) \/ Rename(r) \/ RenameFails(r)
        \/ Kill(r) \/ KillForStop(r) \/ Boot(r) \/ ControlFails(r)
        \/ Ready(r) \/ NotReady(r) \/ SetActiveCore(r)
  <1> USE DEF TypeOK, At, Does, Idle, Idles, disk, history
  <1>1. ASSUME NEW r \in Requests, ReceiveStart(r) PROVE Shape' /\ OverlapInv'
    <2>1. /\ req'[r].op = "start" /\ req'[r].at \in {"stats", "write"}
          /\ \A q \in Requests \ {r} : req'[q] = req[q] /\ ~Starts(q)
      BY <1>1 DEF ReceiveStart, Receive, Starts
    <2> QED BY <2>1 DEF Shape, Starts, OverlapInv, Before
  <1>2. ASSUME NEW r \in Requests, NEW op \in {"stop", "mutate"}, NEW at, NEW drop, NEW add,
               Receive(r, op, at, drop, add), at \in {"stats", "kill"},
               active' = active, run' = run, file' = file, errors' = errors
        PROVE  Shape' /\ OverlapInv'
    <2>1. /\ req'[r].op = op /\ req'[r].at = at /\ req[r].at = "idle"
          /\ \A q \in Requests \ {r} : req'[q] = req[q]
      BY <1>2 DEF Receive
    <2>2. Shape'  BY <1>2, <2>1 DEF Shape, Starts
    <2>3. ASSUME NEW q \in Requests, Kills(q) PROVE Kills(q)'
      BY <2>1, <2>3 DEF Kills
    <2>4. Agrees => Agrees'  BY <1>2, <2>3 DEF Agrees
    <2>5. ASSUME NEW q \in Requests, Before(q) PROVE Before(q)'
      BY <2>1, <2>5 DEF Before, Starts
    <2>6. (\A q \in Requests : ~Starts(q)) => \A q \in Requests : ~Starts(q)'
      BY <1>2, <2>1 DEF Starts
    <2> QED BY <1>2, <2>2, <2>4, <2>5, <2>6 DEF OverlapInv
  <1>3. ASSUME NEW r \in Requests, ReceiveMutate(r) PROVE Shape' /\ OverlapInv'
    <2>1. CASE req' = req /\ errors' = TRUE
      BY <2>1 DEF Shape, Starts, OverlapInv, Agrees
    <2>2. CASE ~(req' = req /\ errors' = TRUE)
      <3>1. PICK drop, add : Receive(r, "mutate", "stats", drop, add) /\ errors' = errors
        BY <1>3, <2>2 DEF ReceiveMutate
      <3> QED BY <1>2, <1>3, <3>1 DEF ReceiveMutate
    <2> QED BY <2>1, <2>2
  <1>4. ASSUME NEW r \in Requests, ReceiveStop(r) PROVE Shape' /\ OverlapInv'
    BY <1>2, <1>4 DEF ReceiveStop
  <1>5. ASSUME NEW r \in Requests, Step(r)
        PROVE  /\ req[r].at # "idle" /\ req[r] \in Request
               /\ \A q \in Requests \ {r} : req'[q] = req[q]
               /\ req'[r] = Idle \/ req'[r].op = req[r].op
    <2>1. req[r].at # "idle"
      BY <1>5 DEF Mutate, Accumulated, AccumulateFails, WriteTemporary, Check, CheckFails,
         Rename, RenameFails, Kill, KillForStop, Boot, ControlFails, Ready, NotReady,
         SetActiveCore
    <2>2. req[r] \in Request  BY <2>1, Working
    <2>3. \/ Throws(r) \/ req' = [req EXCEPT ![r] = Idle]
          \/ \E at : Goto(r, at)
          \/ /\ Does(r, "mutate")
             /\ req' = [req EXCEPT ![r] = [at |-> "write", op |-> "mutate", drop |-> {}, add |-> {},
                                        config |-> current']]
      BY <1>5 DEF Mutate, Accumulated, AccumulateFails, WriteTemporary, Check, CheckFails,
         Rename, RenameFails, Kill, KillForStop, Boot, ControlFails, Ready, NotReady,
         SetActiveCore
    <2>4. CASE Throws(r) \/ req' = [req EXCEPT ![r] = Idle]
      BY <2>1, <2>2, <2>4 DEF Throws
    <2>5. CASE \E at : Goto(r, at)
      BY <2>1, <2>2, <2>5 DEF Goto, Request
    <2>6. CASE /\ Does(r, "mutate")
               /\ req' = [req EXCEPT ![r] = [at |-> "write", op |-> "mutate", drop |-> {}, add |-> {},
                                        config |-> current']]
      BY <2>1, <2>2, <2>6 DEF Request
    <2> QED BY <2>3, <2>4, <2>5, <2>6
  <1>6. ASSUME NEW r \in Requests, Step(r) PROVE Shape'
    <2>1. \A q \in Requests : Starts(q)' => Starts(q)
      BY <1>5, <1>6 DEF Starts
    <2>2. \A q, p \in Requests : Starts(q)' /\ Starts(p)' => q = p
      BY <2>1 DEF Shape
    <2>3. ~Idles(r)' /\ Does(r, "stop")' => req'[r].at \in {"stats", "kill"}
      <3> SUFFICES ASSUME ~Idles(r)', Does(r, "stop")' PROVE req'[r].at \in {"stats", "kill"}
        OBVIOUS
      <3>1. Does(r, "stop") /\ req[r].at \in {"stats", "kill"} /\ req[r] \in Request
        BY <1>5, <1>6 DEF Shape
      <3> QED
        BY <1>6, <3>1 DEF Mutate, Accumulated, AccumulateFails, WriteTemporary, Check,
           CheckFails, Rename, RenameFails, Kill, KillForStop, Boot, ControlFails, Ready,
           NotReady, SetActiveCore, Goto, Throws, Request
    <2>4. At(r, "version")' => Does(r, "start")'
      <3> SUFFICES ASSUME At(r, "version")' PROVE Does(r, "start")'  OBVIOUS
      <3>1. req[r] \in Request  BY <1>5, <1>6
      <3>2. Ready(r) /\ Does(r, "start")
        BY <1>6, <3>1 DEF Mutate, Accumulated, AccumulateFails, WriteTemporary, Check,
           CheckFails, Rename, RenameFails, Kill, KillForStop, Boot, ControlFails, Ready,
           NotReady, SetActiveCore, Goto, Throws, Request
      <3> QED BY <1>5, <1>6, <3>2
    <2>5. \A q \in Requests \ {r} : req'[q] = req[q]  BY <1>5, <1>6
    <2> QED BY <2>2, <2>3, <2>4, <2>5 DEF Shape
  <1> HIDE DEF Step
  \* A step that leaves the process, the file and the flags alone, and stays
  \* on its side of the installation.
  <1>7. ASSUME NEW r \in Requests, Step(r), run' = run, file' = file, errors' = errors,
               active' = active, Kills(r) => Kills(r)', Before(r) => Before(r)'
        PROVE  OverlapInv'
    <2>1. \A q \in Requests \ {r} : req'[q] = req[q]  BY <1>5, <1>7
    <2>2. ASSUME NEW q \in Requests, Kills(q) PROVE Kills(q)'
      BY <1>7, <2>1, <2>2 DEF Kills
    <2>3. ASSUME NEW q \in Requests, Before(q) PROVE Before(q)'
      BY <1>7, <2>1, <2>3 DEF Before, Starts
    <2>4. ASSUME NEW q \in Requests, Starts(q)' PROVE Starts(q)
      BY <1>5, <1>7, <2>4 DEF Starts
    <2> QED BY <1>7, <2>2, <2>3, <2>4 DEF OverlapInv, Agrees
  <1>8. ASSUME NEW r \in Requests, Step(r), Throws(r), run' = run, file' = file,
               ~Does(r, "stop")
        PROVE  OverlapInv'
    <2>1. Does(r, "mutate") \/ Starts(r)
      BY <1>5, <1>8 DEF Request, Ops, Starts
    <2>2. CASE Does(r, "mutate")  BY <1>8, <2>2 DEF Throws, OverlapInv, Agrees
    <2>3. CASE Starts(r)
      <3>1. \A q \in Requests \ {r} : ~Starts(q)  BY <2>3 DEF Shape
      <3>2. \A q \in Requests : ~Starts(q)'
        BY <1>5, <1>8, <3>1 DEF Throws, Starts
      <3>3. ~active'  BY <1>8, <2>3 DEF Throws, Starts
      <3> QED BY <3>2, <3>3 DEF OverlapInv
    <2> QED BY <2>1, <2>2, <2>3
  <1>9. ASSUME NEW r \in Requests, Step(r),
               \/ Mutate(r) \/ Accumulated(r) \/ WriteTemporary(r) \/ Check(r)
        PROVE  OverlapInv'
    <2>1. req[r].at \in {"stats", "write", "check"} /\ req[r] \in Request
      BY <1>5, <1>9 DEF Mutate, Accumulated, WriteTemporary, Check
    <2>2. run' = run /\ file' = file /\ errors' = errors /\ active' = active
      BY <1>9 DEF Mutate, Accumulated, WriteTemporary, Check
    <2>3. Before(r) => Before(r)'
      BY <1>9, <2>1 DEF Mutate, Accumulated, WriteTemporary, Check, Goto, Before, Starts,
         Request
    <2> QED BY <1>7, <1>9, <2>1, <2>2, <2>3 DEF Kills
  <1>10. ASSUME NEW r \in Requests, Step(r), AccumulateFails(r) PROVE OverlapInv'
    <2>1. CASE Does(r, "stop")
      BY <1>7, <1>10, <2>1 DEF AccumulateFails, Kills, Before, Starts
    <2>2. CASE ~Does(r, "stop")  BY <1>8, <1>10, <2>2 DEF AccumulateFails
    <2> QED BY <2>1, <2>2
  <1>11. ASSUME NEW r \in Requests, Step(r), CheckFails(r) \/ RenameFails(r) \/ NotReady(r)
         PROVE  OverlapInv'
    <2>1. ~Does(r, "stop")
      BY <1>5, <1>11 DEF Shape, CheckFails, RenameFails, NotReady
    <2> QED BY <1>8, <1>11, <2>1 DEF CheckFails, RenameFails, NotReady
  <1>12. ASSUME NEW r \in Requests, Step(r), Rename(r) PROVE OverlapInv'
    <2>1. ~Does(r, "stop") /\ req[r] \in Request  BY <1>5, <1>12 DEF Shape, Rename
    <2>2. Kills(r)'  BY <1>12, <2>1 DEF Rename, Goto, Kills, Request
    <2> QED BY <2>2 DEF OverlapInv, Agrees
  <1>13. ASSUME NEW r \in Requests, Step(r), Kill(r) \/ KillForStop(r) PROVE OverlapInv'
    BY <1>13 DEF Kill, KillForStop, OverlapInv, Agrees
  <1>14. ASSUME NEW r \in Requests, Step(r), Boot(r) PROVE OverlapInv'
    <2>1. CASE run = None
      BY <1>14, <2>1 DEF Boot, OverlapInv, Agrees
    <2>2. CASE run # None
      BY <1>7, <1>14, <2>2 DEF Boot, Kills, Before
    <2> QED BY <2>1, <2>2
  <1>15. ASSUME NEW r \in Requests, Step(r), ControlFails(r) PROVE OverlapInv'
    <2>1. CASE Does(r, "stop")
      BY <1>7, <1>15, <2>1 DEF ControlFails, Kills, Before, Starts
    <2>2. CASE ~Does(r, "stop")  BY <1>8, <1>15, <2>2 DEF ControlFails
    <2> QED BY <2>1, <2>2
  <1>16. ASSUME NEW r \in Requests, Step(r), Ready(r) PROVE OverlapInv'
    BY <1>7, <1>16 DEF Ready, Kills, Before
  <1>17. ASSUME NEW r \in Requests, Step(r), SetActiveCore(r) PROVE OverlapInv'
    <2>1. Starts(r) /\ ~Before(r)  BY <1>17 DEF SetActiveCore, Shape, Starts, Before
    <2>2. \A q \in Requests \ {r} : ~Starts(q)  BY <2>1 DEF Shape
    <2>3. Agrees  BY <2>1, <2>2 DEF OverlapInv, Before
    <2>4. \A q \in Requests : Kills(q) => Kills(q)'
      BY <1>17 DEF SetActiveCore, Kills
    <2> QED BY <1>17, <2>3, <2>4 DEF SetActiveCore, OverlapInv, Agrees
  <1>18. CASE UNCHANGED vars
    BY <1>18 DEF vars, Shape, Starts, OverlapInv, Agrees, Before, Kills
  <1> QED
    BY <1>1, <1>3, <1>4, <1>6, <1>9, <1>10, <1>11, <1>12, <1>13, <1>14, <1>15, <1>16,
       <1>17, <1>18 DEF Next, Step

\* However many requests overlap, a process that is up when all of them were
\* answered without an error runs the file that was installed last.
THEOREM OverlappingInstalled == Spec => []RunsInstalled
  <1> DEFINE Inv == TypeOK /\ Shape /\ OverlapInv
  <1>1. Init => Inv  BY TypeInit, OverlapInit
  <1>2. Inv /\ [Next]_vars => Inv'  BY TypeStep, OverlapStep
  <1>3. Inv => RunsInstalled
    BY DEF Shape, OverlapInv, Agrees, RunsInstalled, Quiet, Kills, Before, Starts, Idles, At
  <1> QED BY <1>1, <1>2, <1>3, PTL DEF Spec
=============================================================================
