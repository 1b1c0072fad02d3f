------------------------ MODULE CoreLifecycleProofs ------------------------
(***************************************************************************)
(* Proofs about CoreLifecycle for every set of requests and                *)
(* configurations.                                                         *)
(***************************************************************************)
EXTENDS CoreLifecycle, TLAPS

-----------------------------------------------------------------------------
(* Types.  TypeOK alone is not inductive: that known, sbFile and sbConfig   *)
(* get configurations of the right kind needs the kind of the requests that *)
(* write them.                                                              *)

RequestKinds ==
    \A r \in Requests :
        /\ pc[r] \in XrayAwaits \cup {"xSwitch", "xSwitched", "xEnter"}
             => req[r].cfg \in XrayConfigs
        /\ pc[r] \in SingBoxAwaits \cup {"sKill", "sKilled", "sEnter"}
             => req[r].cfg \in SingBoxConfigs
        /\ pc[r] \in {"sRestart", "sStartProc"} => sbFile \in SingBoxConfigs

Types == TypeOK /\ RequestKinds

LEMMA TypeInit == Init => Types
  <1> SUFFICES ASSUME Init PROVE Types  OBVIOUS
  <1>1. pc \in [Requests -> {"idle"} \cup EntryAwaits \cup XrayAwaits
                              \cup SingBoxAwaits \cup StopAwaits]
    BY DEF Init
  <1>2. req \in [Requests -> [cfg : Configs \cup {None}, force : BOOLEAN]]
    BY DEF Init, NoRequest
  <1>3. core \in [active : {"xray", "singbox"}, online : BOOLEAN]
    BY DEF Init
  <1>4. RequestKinds
    BY DEF Init, RequestKinds, XrayAwaits, SingBoxAwaits
  <1> QED BY <1>1, <1>2, <1>3, <1>4 DEF Init, Types, TypeOK

LEMMA TypeReceive ==
  ASSUME Types, NEW r \in Requests, EnterStep(r)
  PROVE  TypeOK'
  <1> USE DEF Types, TypeOK, RequestKinds, Configs, XrayAwaits, SingBoxAwaits, EntryAwaits,
              StopAwaits, NoRequest, flags, procs, local, SetOffline, Goto, Reply,
              Receive, LeaveXray, LeaveSingBox
  <1>1. CASE ReceiveXrayStart(r)  BY <1>1 DEF ReceiveXrayStart
  <1>2. CASE ReceiveSingBoxStart(r)  BY <1>2 DEF ReceiveSingBoxStart
  <1>3. CASE ReceiveStop(r)  BY <1>3 DEF ReceiveStop
  <1>4. CASE ReceivePluginStop(r)
    <2>1. CASE Receive(r, None, FALSE, "tKill")  BY <1>4, <2>1 DEF ReceivePluginStop
    <2>2. CASE Reply(r, "idle")  BY <1>4, <2>2 DEF ReceivePluginStop
    <2> QED BY <1>4, <2>1, <2>2 DEF ReceivePluginStop
  <1> QED BY <1>1, <1>2, <1>3, <1>4
          DEF EnterStep

LEMMA KindsReceive ==
  ASSUME Types, NEW r \in Requests, EnterStep(r)
  PROVE  RequestKinds'
  <1> USE DEF Types, TypeOK, RequestKinds, XrayAwaits, SingBoxAwaits, NoRequest,
              flags, procs, local, Goto, Reply, Receive, LeaveXray, LeaveSingBox
  <1>1. CASE ReceiveXrayStart(r)  BY <1>1 DEF ReceiveXrayStart
  <1>2. CASE ReceiveSingBoxStart(r)  BY <1>2 DEF ReceiveSingBoxStart
  <1>3. CASE ReceiveStop(r)  BY <1>3 DEF ReceiveStop
  <1>4. CASE ReceivePluginStop(r)
    <2>1. CASE Receive(r, None, FALSE, "tKill")  BY <1>4, <2>1 DEF ReceivePluginStop
    <2>2. CASE Reply(r, "idle")  BY <1>4, <2>2 DEF ReceivePluginStop
    <2> QED BY <1>4, <2>1, <2>2 DEF ReceivePluginStop
  <1> QED BY <1>1, <1>2, <1>3, <1>4
          DEF EnterStep

LEMMA TypeXray ==
  ASSUME Types, NEW r \in Requests, XrayStartStep(r)
  PROVE  TypeOK'
  <1> USE DEF Types, TypeOK, RequestKinds, Configs, XrayAwaits, SingBoxAwaits, EntryAwaits,
              StopAwaits, NoRequest, flags, procs, local, SetOffline, Goto, Reply,
              Receive, LeaveXray, LeaveSingBox
  <1>1. CASE StopSingBoxForXray(r)  BY <1>1 DEF StopSingBoxForXray
  <1>2. CASE SwitchToXray(r)  BY <1>2 DEF SwitchToXray
  <1>3. CASE StopSingBoxForXrayFails(r)  BY <1>3 DEF StopSingBoxForXrayFails
  <1>4. CASE RefuseXrayStart(r)  BY <1>4 DEF RefuseXrayStart
  <1>5. CASE EnterXrayStart(r)  BY <1>5 DEF EnterXrayStart
  <1>6. CASE IntegrationsFail(r)  BY <1>6 DEF IntegrationsFail
  <1>7. CASE IntegrationsSynced(r)  BY <1>7 DEF IntegrationsSynced
  <1>8. CASE QueryXray(r)  BY <1>8 DEF QueryXray
  <1>9. CASE XrayUpToDate(r)  BY <1>9 DEF XrayUpToDate
  <1>10. CASE XrayOutdated(r)  BY <1>10 DEF XrayOutdated
  <1>11. CASE XrayUnhealthy(r)  BY <1>11 DEF XrayUnhealthy
  <1>12. CASE ExtractXrayUsers(r)  BY <1>12 DEF ExtractXrayUsers
  <1>13. CASE PrepareXray(r)  BY <1>13 DEF PrepareXray
  <1>14. CASE PrepareXrayThrows(r)  BY <1>14 DEF PrepareXrayThrows
  <1>15. CASE XrayStartThrew(r)  BY <1>15 DEF XrayStartThrew
  <1>16. CASE StopOldXray(r)  BY <1>16 DEF StopOldXray
  <1>17. CASE StartNewXray(r)  BY <1>17 DEF StartNewXray
  <1>18. CASE RestartXrayFails(r)
    <2>1. CASE LeaveXray(r, "xStop")  BY <1>18, <2>1 DEF RestartXrayFails
    <2>2. CASE LeaveXray(r, "xStart")  BY <1>18, <2>2 DEF RestartXrayFails
    <2> QED BY <1>18, <2>1, <2>2 DEF RestartXrayFails
  <1>19. CASE AwaitXray(r)  BY <1>19 DEF AwaitXray
  <1>20. CASE XrayNotReady(r)  BY <1>20 DEF XrayNotReady
  <1>21. CASE MarkXrayOnline(r)  BY <1>21 DEF MarkXrayOnline
  <1>22. CASE ReportXrayStarted(r)  BY <1>22 DEF ReportXrayStarted
  <1>23. CASE ReportXrayNotReady(r)  BY <1>23 DEF ReportXrayNotReady
  <1> QED BY <1>1, <1>2, <1>3, <1>4, <1>5, <1>6, <1>7, <1>8, <1>9, <1>10,
             <1>11, <1>12, <1>13, <1>14, <1>15, <1>16, <1>17, <1>18, <1>19,
             <1>20, <1>21, <1>22, <1>23
          DEF XrayStartStep

LEMMA KindsXray ==
  ASSUME Types, NEW r \in Requests, XrayStartStep(r)
  PROVE  RequestKinds'
  <1> USE DEF Types, TypeOK, RequestKinds, XrayAwaits, SingBoxAwaits, NoRequest,
              flags, procs, local, Goto, Reply, Receive, LeaveXray, LeaveSingBox
  <1>1. CASE StopSingBoxForXray(r)  BY <1>1 DEF StopSingBoxForXray
  <1>2. CASE SwitchToXray(r)  BY <1>2 DEF SwitchToXray
  <1>3. CASE StopSingBoxForXrayFails(r)  BY <1>3 DEF StopSingBoxForXrayFails
  <1>4. CASE RefuseXrayStart(r)  BY <1>4 DEF RefuseXrayStart
  <1>5. CASE EnterXrayStart(r)  BY <1>5 DEF EnterXrayStart
  <1>6. CASE IntegrationsFail(r)  BY <1>6 DEF IntegrationsFail
  <1>7. CASE IntegrationsSynced(r)  BY <1>7 DEF IntegrationsSynced
  <1>8. CASE QueryXray(r)  BY <1>8 DEF QueryXray
  <1>9. CASE XrayUpToDate(r)  BY <1>9 DEF XrayUpToDate
  <1>10. CASE XrayOutdated(r)  BY <1>10 DEF XrayOutdated
  <1>11. CASE XrayUnhealthy(r)  BY <1>11 DEF XrayUnhealthy
  <1>12. CASE ExtractXrayUsers(r)  BY <1>12 DEF ExtractXrayUsers
  <1>13. CASE PrepareXray(r)  BY <1>13 DEF PrepareXray
  <1>14. CASE PrepareXrayThrows(r)  BY <1>14 DEF PrepareXrayThrows
  <1>15. CASE XrayStartThrew(r)  BY <1>15 DEF XrayStartThrew
  <1>16. CASE StopOldXray(r)  BY <1>16 DEF StopOldXray
  <1>17. CASE StartNewXray(r)  BY <1>17 DEF StartNewXray
  <1>18. CASE RestartXrayFails(r)
    <2>1. CASE LeaveXray(r, "xStop")  BY <1>18, <2>1 DEF RestartXrayFails
    <2>2. CASE LeaveXray(r, "xStart")  BY <1>18, <2>2 DEF RestartXrayFails
    <2> QED BY <1>18, <2>1, <2>2 DEF RestartXrayFails
  <1>19. CASE AwaitXray(r)  BY <1>19 DEF AwaitXray
  <1>20. CASE XrayNotReady(r)  BY <1>20 DEF XrayNotReady
  <1>21. CASE MarkXrayOnline(r)  BY <1>21 DEF MarkXrayOnline
  <1>22. CASE ReportXrayStarted(r)  BY <1>22 DEF ReportXrayStarted
  <1>23. CASE ReportXrayNotReady(r)  BY <1>23 DEF ReportXrayNotReady
  <1> QED BY <1>1, <1>2, <1>3, <1>4, <1>5, <1>6, <1>7, <1>8, <1>9, <1>10,
             <1>11, <1>12, <1>13, <1>14, <1>15, <1>16, <1>17, <1>18, <1>19,
             <1>20, <1>21, <1>22, <1>23
          DEF XrayStartStep

LEMMA TypeSingBox ==
  ASSUME Types, NEW r \in Requests, SingBoxStartStep(r)
  PROVE  TypeOK'
  <1> USE DEF Types, TypeOK, RequestKinds, Configs, XrayAwaits, SingBoxAwaits, EntryAwaits,
              StopAwaits, NoRequest, flags, procs, local, SetOffline, Goto, Reply,
              Receive, LeaveXray, LeaveSingBox
  <1>1. CASE KillXrayForSingBox(r)  BY <1>1 DEF KillXrayForSingBox
  <1>2. CASE SwitchToSingBox(r)  BY <1>2 DEF SwitchToSingBox
  <1>3. CASE RefuseSingBoxStart(r)  BY <1>3 DEF RefuseSingBoxStart
  <1>4. CASE EnterSingBoxStart(r)  BY <1>4 DEF EnterSingBoxStart, ExtractSingBoxUsers
  <1>5. CASE QuerySingBox(r)  BY <1>5 DEF QuerySingBox, CallSingBox
  <1>6. CASE SingBoxUpToDate(r)  BY <1>6 DEF SingBoxUpToDate
  <1>7. CASE SingBoxOutdated(r)  BY <1>7 DEF SingBoxOutdated, ExtractSingBoxUsers
  <1>8. CASE AccumulateStats(r)  BY <1>8 DEF AccumulateStats, CallSingBox
  <1>9. CASE WriteConfig(r)  BY <1>9 DEF WriteConfig
  <1>10. CASE StopOldSingBox(r)  BY <1>10 DEF StopOldSingBox
  <1>11. CASE StartNewSingBox(r)  BY <1>11 DEF StartNewSingBox
  <1>12. CASE RestartSingBoxThrows(r)  BY <1>12 DEF RestartSingBoxThrows
  <1>13. CASE AwaitSingBox(r)  BY <1>13 DEF AwaitSingBox, CallSingBox
  <1>14. CASE SetCurrentConfig(r)  BY <1>14 DEF SetCurrentConfig
  <1>15. CASE ReportSingBoxStarted(r)  BY <1>15 DEF ReportSingBoxStarted
  <1>16. CASE SingBoxStartThrew(r)  BY <1>16 DEF SingBoxStartThrew
  <1>17. CASE ReportSingBoxNotStarted(r)  BY <1>17 DEF ReportSingBoxNotStarted
  <1> QED BY <1>1, <1>2, <1>3, <1>4, <1>5, <1>6, <1>7, <1>8, <1>9, <1>10,
             <1>11, <1>12, <1>13, <1>14, <1>15, <1>16, <1>17
          DEF SingBoxStartStep

LEMMA KindsSingBox ==
  ASSUME Types, NEW r \in Requests, SingBoxStartStep(r)
  PROVE  RequestKinds'
  <1> USE DEF Types, TypeOK, RequestKinds, XrayAwaits, SingBoxAwaits, NoRequest,
              flags, procs, local, Goto, Reply, Receive, LeaveXray, LeaveSingBox
  <1>1. CASE KillXrayForSingBox(r)  BY <1>1 DEF KillXrayForSingBox
  <1>2. CASE SwitchToSingBox(r)  BY <1>2 DEF SwitchToSingBox
  <1>3. CASE RefuseSingBoxStart(r)  BY <1>3 DEF RefuseSingBoxStart
  <1>4. CASE EnterSingBoxStart(r)  BY <1>4 DEF EnterSingBoxStart, ExtractSingBoxUsers
  <1>5. CASE QuerySingBox(r)  BY <1>5 DEF QuerySingBox, CallSingBox
  <1>6. CASE SingBoxUpToDate(r)  BY <1>6 DEF SingBoxUpToDate
  <1>7. CASE SingBoxOutdated(r)  BY <1>7 DEF SingBoxOutdated, ExtractSingBoxUsers
  <1>8. CASE AccumulateStats(r)  BY <1>8 DEF AccumulateStats, CallSingBox
  <1>9. CASE WriteConfig(r)  BY <1>9 DEF WriteConfig
  <1>10. CASE StopOldSingBox(r)  BY <1>10 DEF StopOldSingBox
  <1>11. CASE StartNewSingBox(r)  BY <1>11 DEF StartNewSingBox
  <1>12. CASE RestartSingBoxThrows(r)  BY <1>12 DEF RestartSingBoxThrows
  <1>13. CASE AwaitSingBox(r)  BY <1>13 DEF AwaitSingBox, CallSingBox
  <1>14. CASE SetCurrentConfig(r)  BY <1>14 DEF SetCurrentConfig
  <1>15. CASE ReportSingBoxStarted(r)  BY <1>15 DEF ReportSingBoxStarted
  <1>16. CASE SingBoxStartThrew(r)  BY <1>16 DEF SingBoxStartThrew
  <1>17. CASE ReportSingBoxNotStarted(r)  BY <1>17 DEF ReportSingBoxNotStarted
  <1> QED BY <1>1, <1>2, <1>3, <1>4, <1>5, <1>6, <1>7, <1>8, <1>9, <1>10,
             <1>11, <1>12, <1>13, <1>14, <1>15, <1>16, <1>17
          DEF SingBoxStartStep

LEMMA TypeStop ==
  ASSUME Types, NEW r \in Requests, StopStep(r)
  PROVE  TypeOK'
  <1> USE DEF Types, TypeOK, RequestKinds, Configs, XrayAwaits, SingBoxAwaits, EntryAwaits,
              StopAwaits, NoRequest, flags, procs, local, SetOffline, Goto, Reply,
              Receive, LeaveXray, LeaveSingBox
  <1>1. CASE KillXray(r)  BY <1>1 DEF KillXray
  <1>2. CASE StopSingBox(r)  BY <1>2 DEF StopSingBox
  <1>3. CASE SingBoxStopped(r)  BY <1>3 DEF SingBoxStopped
  <1>4. CASE StopSingBoxFails(r)  BY <1>4 DEF StopSingBoxFails
  <1>5. CASE ReportStopped(r)  BY <1>5 DEF ReportStopped
  <1> QED BY <1>1, <1>2, <1>3, <1>4, <1>5
          DEF StopStep

LEMMA KindsStop ==
  ASSUME Types, NEW r \in Requests, StopStep(r)
  PROVE  RequestKinds'
  <1> USE DEF Types, TypeOK, RequestKinds, XrayAwaits, SingBoxAwaits, NoRequest,
              flags, procs, local, Goto, Reply, Receive, LeaveXray, LeaveSingBox
  <1>1. CASE KillXray(r)  BY <1>1 DEF KillXray
  <1>2. CASE StopSingBox(r)  BY <1>2 DEF StopSingBox
  <1>3. CASE SingBoxStopped(r)  BY <1>3 DEF SingBoxStopped
  <1>4. CASE StopSingBoxFails(r)  BY <1>4 DEF StopSingBoxFails
  <1>5. CASE ReportStopped(r)  BY <1>5 DEF ReportStopped
  <1> QED BY <1>1, <1>2, <1>3, <1>4, <1>5
          DEF StopStep

LEMMA TypeProcess ==
  ASSUME Types, ProcessStep
  PROVE  Types'
  BY DEF Types, TypeOK, RequestKinds, Configs, ProcessStep, FetchConfig, CrashXray,
         CrashSingBox, local, flags, procs

-----------------------------------------------------------------------------
(* What the steps of a request outside an xray start do to what an xray      *)
(* start works with, and the same for sing-box: they may turn things off.    *)

OthersWait(r) == \A q \in Requests : q # r => pc'[q] = pc[q] /\ req'[q] = req[q]

XrayFrame(r) ==
    /\ pc[r] \notin XrayAwaits /\ pc'[r] \notin XrayAwaits
    /\ OthersWait(r)
    /\ xrayBusy' = xrayBusy
    /\ xrayOnline' => xrayOnline
    /\ xrayProc' \in {xrayProc, Down}
    /\ known' = known \/ known' \notin XrayConfigs

SingBoxFrame(r) ==
    /\ pc[r] \notin SingBoxAwaits /\ pc'[r] \notin SingBoxAwaits
    /\ OthersWait(r)
    /\ sbBusy' = sbBusy
    /\ SingBoxActive' => SingBoxActive
    /\ sbProc' \in {sbProc, Down}
    /\ sbFile' = sbFile
    /\ known' = known \/ known' \notin SingBoxConfigs

LEMMA XrayFrameReceive ==
  ASSUME Types, NEW r \in Requests, EnterStep(r)
  PROVE  XrayFrame(r)
  <1> USE DEF Types, TypeOK, XrayFrame, OthersWait, XrayAwaits, flags, procs, Goto, Reply,
              Receive, LeaveXray, LeaveSingBox
  <1>1. CASE ReceiveXrayStart(r)  BY <1>1 DEF ReceiveXrayStart
  <1>2. CASE ReceiveSingBoxStart(r)  BY <1>2 DEF ReceiveSingBoxStart
  <1>3. CASE ReceiveStop(r)  BY <1>3 DEF ReceiveStop
  <1>4. CASE ReceivePluginStop(r)
    <2>1. CASE Receive(r, None, FALSE, "tKill")  BY <1>4, <2>1 DEF ReceivePluginStop
    <2>2. CASE Reply(r, "idle")  BY <1>4, <2>2 DEF ReceivePluginStop
    <2> QED BY <1>4, <2>1, <2>2 DEF ReceivePluginStop
  <1> QED BY <1>1, <1>2, <1>3, <1>4
          DEF EnterStep

LEMMA XrayFrameSingBox ==
  ASSUME Types, NEW r \in Requests, SingBoxStartStep(r)
  PROVE  XrayFrame(r)
  <1> USE DEF Types, TypeOK, XrayFrame, OthersWait, XrayAwaits, flags, procs, Goto, Reply,
              Receive, LeaveXray, LeaveSingBox
  <1>1. CASE KillXrayForSingBox(r)  BY <1>1 DEF KillXrayForSingBox
  <1>2. CASE SwitchToSingBox(r)  BY <1>2 DEF SwitchToSingBox
  <1>3. CASE RefuseSingBoxStart(r)  BY <1>3 DEF RefuseSingBoxStart
  <1>4. CASE EnterSingBoxStart(r)  BY <1>4, ConfigsDisjoint DEF EnterSingBoxStart, ExtractSingBoxUsers, RequestKinds,
          SingBoxAwaits
  <1>5. CASE QuerySingBox(r)  BY <1>5 DEF QuerySingBox, CallSingBox
  <1>6. CASE SingBoxUpToDate(r)  BY <1>6 DEF SingBoxUpToDate
  <1>7. CASE SingBoxOutdated(r)  BY <1>7, ConfigsDisjoint DEF SingBoxOutdated, ExtractSingBoxUsers, RequestKinds, SingBoxAwaits
  <1>8. CASE AccumulateStats(r)  BY <1>8 DEF AccumulateStats, CallSingBox
  <1>9. CASE WriteConfig(r)  BY <1>9 DEF WriteConfig
  <1>10. CASE StopOldSingBox(r)  BY <1>10 DEF StopOldSingBox
  <1>11. CASE StartNewSingBox(r)  BY <1>11 DEF StartNewSingBox
  <1>12. CASE RestartSingBoxThrows(r)  BY <1>12 DEF RestartSingBoxThrows
  <1>13. CASE AwaitSingBox(r)  BY <1>13 DEF AwaitSingBox, CallSingBox
  <1>14. CASE SetCurrentConfig(r)  BY <1>14 DEF SetCurrentConfig
  <1>15. CASE ReportSingBoxStarted(r)  BY <1>15 DEF ReportSingBoxStarted
  <1>16. CASE SingBoxStartThrew(r)  BY <1>16 DEF SingBoxStartThrew
  <1>17. CASE ReportSingBoxNotStarted(r)  BY <1>17 DEF ReportSingBoxNotStarted
  <1> QED BY <1>1, <1>2, <1>3, <1>4, <1>5, <1>6, <1>7, <1>8, <1>9, <1>10,
             <1>11, <1>12, <1>13, <1>14, <1>15, <1>16, <1>17
          DEF SingBoxStartStep

LEMMA XrayFrameStop ==
  ASSUME Types, NEW r \in Requests, StopStep(r)
  PROVE  XrayFrame(r)
  <1> USE DEF Types, TypeOK, XrayFrame, OthersWait, XrayAwaits, flags, procs, Goto, Reply,
              Receive, LeaveXray, LeaveSingBox
  <1>1. CASE KillXray(r)  BY <1>1 DEF KillXray
  <1>2. CASE StopSingBox(r)  BY <1>2 DEF StopSingBox
  <1>3. CASE SingBoxStopped(r)  BY <1>3 DEF SingBoxStopped
  <1>4. CASE StopSingBoxFails(r)  BY <1>4 DEF StopSingBoxFails
  <1>5. CASE ReportStopped(r)  BY <1>5, StatusesDistinct DEF ReportStopped, Configs
  <1> QED BY <1>1, <1>2, <1>3, <1>4, <1>5
          DEF StopStep

LEMMA SingBoxFrameReceive ==
  ASSUME Types, NEW r \in Requests, EnterStep(r)
  PROVE  SingBoxFrame(r)
  <1> USE DEF Types, TypeOK, SingBoxFrame, OthersWait, SingBoxAwaits, flags, procs, Goto,
              Reply, Receive, LeaveXray, LeaveSingBox, SetOffline, SingBoxActive
  <1>1. CASE ReceiveXrayStart(r)  BY <1>1 DEF ReceiveXrayStart
  <1>2. CASE ReceiveSingBoxStart(r)  BY <1>2 DEF ReceiveSingBoxStart
  <1>3. CASE ReceiveStop(r)  BY <1>3 DEF ReceiveStop
  <1>4. CASE ReceivePluginStop(r)
    <2>1. CASE Receive(r, None, FALSE, "tKill")  BY <1>4, <2>1 DEF ReceivePluginStop
    <2>2. CASE Reply(r, "idle")  BY <1>4, <2>2 DEF ReceivePluginStop
    <2> QED BY <1>4, <2>1, <2>2 DEF ReceivePluginStop
  <1> QED BY <1>1, <1>2, <1>3, <1>4
          DEF EnterStep

LEMMA SingBoxFrameXray ==
  ASSUME Types, NEW r \in Requests, XrayStartStep(r)
  PROVE  SingBoxFrame(r)
  <1> USE DEF Types, TypeOK, SingBoxFrame, OthersWait, SingBoxAwaits, flags, procs, Goto,
              Reply, Receive, LeaveXray, LeaveSingBox, SetOffline, SingBoxActive
  <1>1. CASE StopSingBoxForXray(r)  BY <1>1 DEF StopSingBoxForXray
  <1>2. CASE SwitchToXray(r)  BY <1>2, StatusesDistinct DEF SwitchToXray, Configs
  <1>3. CASE StopSingBoxForXrayFails(r)  BY <1>3, StatusesDistinct DEF StopSingBoxForXrayFails, Configs
  <1>4. CASE RefuseXrayStart(r)  BY <1>4 DEF RefuseXrayStart
  <1>5. CASE EnterXrayStart(r)  BY <1>5 DEF EnterXrayStart
  <1>6. CASE IntegrationsFail(r)  BY <1>6 DEF IntegrationsFail
  <1>7. CASE IntegrationsSynced(r)  BY <1>7 DEF IntegrationsSynced
  <1>8. CASE QueryXray(r)  BY <1>8 DEF QueryXray
  <1>9. CASE XrayUpToDate(r)  BY <1>9 DEF XrayUpToDate
  <1>10. CASE XrayOutdated(r)  BY <1>10 DEF XrayOutdated
  <1>11. CASE XrayUnhealthy(r)  BY <1>11 DEF XrayUnhealthy
  <1>12. CASE ExtractXrayUsers(r)  BY <1>12, ConfigsDisjoint DEF ExtractXrayUsers, RequestKinds, XrayAwaits
  <1>13. CASE PrepareXray(r)  BY <1>13 DEF PrepareXray
  <1>14. CASE PrepareXrayThrows(r)  BY <1>14 DEF PrepareXrayThrows
  <1>15. CASE XrayStartThrew(r)  BY <1>15 DEF XrayStartThrew
  <1>16. CASE StopOldXray(r)  BY <1>16 DEF StopOldXray
  <1>17. CASE StartNewXray(r)  BY <1>17 DEF StartNewXray
  <1>18. CASE RestartXrayFails(r)
    <2>1. CASE LeaveXray(r, "xStop")  BY <1>18, <2>1 DEF RestartXrayFails
    <2>2. CASE LeaveXray(r, "xStart")  BY <1>18, <2>2 DEF RestartXrayFails
    <2> QED BY <1>18, <2>1, <2>2 DEF RestartXrayFails
  <1>19. CASE AwaitXray(r)  BY <1>19 DEF AwaitXray
  <1>20. CASE XrayNotReady(r)  BY <1>20 DEF XrayNotReady
  <1>21. CASE MarkXrayOnline(r)  BY <1>21 DEF MarkXrayOnline
  <1>22. CASE ReportXrayStarted(r)  BY <1>22 DEF ReportXrayStarted
  <1>23. CASE ReportXrayNotReady(r)  BY <1>23 DEF ReportXrayNotReady
  <1> QED BY <1>1, <1>2, <1>3, <1>4, <1>5, <1>6, <1>7, <1>8, <1>9, <1>10,
             <1>11, <1>12, <1>13, <1>14, <1>15, <1>16, <1>17, <1>18, <1>19,
             <1>20, <1>21, <1>22, <1>23
          DEF XrayStartStep

LEMMA SingBoxFrameStop ==
  ASSUME Types, NEW r \in Requests, StopStep(r)
  PROVE  SingBoxFrame(r)
  <1> USE DEF Types, TypeOK, SingBoxFrame, OthersWait, SingBoxAwaits, flags, procs, Goto,
              Reply, Receive, LeaveXray, LeaveSingBox, SetOffline, SingBoxActive
  <1>1. CASE KillXray(r)  BY <1>1 DEF KillXray
  <1>2. CASE StopSingBox(r)  BY <1>2 DEF StopSingBox
  <1>3. CASE SingBoxStopped(r)  BY <1>3 DEF SingBoxStopped
  <1>4. CASE StopSingBoxFails(r)  BY <1>4 DEF StopSingBoxFails
  <1>5. CASE ReportStopped(r)  BY <1>5, StatusesDistinct DEF ReportStopped, Configs
  <1> QED BY <1>1, <1>2, <1>3, <1>4, <1>5
          DEF StopStep

-----------------------------------------------------------------------------
(* One request at a time in each guarded section, its flag set meanwhile.    *)

XrayGuarded ==
    /\ xrayBusy <=> \E r \in Requests : pc[r] \in XrayAwaits
    /\ \A r, q \in Requests : pc[r] \in XrayAwaits /\ pc[q] \in XrayAwaits => r = q

SingBoxGuarded ==
    /\ sbBusy <=> \E r \in Requests : pc[r] \in SingBoxAwaits
    /\ \A r, q \in Requests : pc[r] \in SingBoxAwaits /\ pc[q] \in SingBoxAwaits => r = q

LEMMA GuardedInit == Init => XrayGuarded /\ SingBoxGuarded
  BY DEF Init, XrayGuarded, SingBoxGuarded, XrayAwaits, SingBoxAwaits

LEMMA XrayGuardedXray ==
  ASSUME Types, XrayGuarded, NEW r \in Requests, XrayStartStep(r)
  PROVE  XrayGuarded'
  <1> USE DEF Types, TypeOK, XrayGuarded, XrayAwaits, flags, procs, Goto, Reply, LeaveXray
  <1>1. CASE StopSingBoxForXray(r)  BY <1>1 DEF StopSingBoxForXray
  <1>2. CASE SwitchToXray(r)  BY <1>2 DEF SwitchToXray
  <1>3. CASE StopSingBoxForXrayFails(r)  BY <1>3 DEF StopSingBoxForXrayFails
  <1>4. CASE RefuseXrayStart(r)  BY <1>4 DEF RefuseXrayStart
  <1>5. CASE EnterXrayStart(r)  BY <1>5 DEF EnterXrayStart
  <1>6. CASE IntegrationsFail(r)  BY <1>6 DEF IntegrationsFail
  <1>7. CASE IntegrationsSynced(r)  BY <1>7 DEF IntegrationsSynced
  <1>8. CASE QueryXray(r)  BY <1>8 DEF QueryXray
  <1>9. CASE XrayUpToDate(r)  BY <1>9 DEF XrayUpToDate
  <1>10. CASE XrayOutdated(r)  BY <1>10 DEF XrayOutdated
  <1>11. CASE XrayUnhealthy(r)  BY <1>11 DEF XrayUnhealthy
  <1>12. CASE ExtractXrayUsers(r)  BY <1>12 DEF ExtractXrayUsers
  <1>13. CASE PrepareXray(r)  BY <1>13 DEF PrepareXray
  <1>14. CASE PrepareXrayThrows(r)  BY <1>14 DEF PrepareXrayThrows
  <1>15. CASE XrayStartThrew(r)  BY <1>15 DEF XrayStartThrew
  <1>16. CASE StopOldXray(r)  BY <1>16 DEF StopOldXray
  <1>17. CASE StartNewXray(r)  BY <1>17 DEF StartNewXray
  <1>18. CASE RestartXrayFails(r)
    <2>1. CASE LeaveXray(r, "xStop")  BY <1>18, <2>1 DEF RestartXrayFails
    <2>2. CASE LeaveXray(r, "xStart")  BY <1>18, <2>2 DEF RestartXrayFails
    <2> QED BY <1>18, <2>1, <2>2 DEF RestartXrayFails
  <1>19. CASE AwaitXray(r)  BY <1>19 DEF AwaitXray
  <1>20. CASE XrayNotReady(r)  BY <1>20 DEF XrayNotReady
  <1>21. CASE MarkXrayOnline(r)  BY <1>21 DEF MarkXrayOnline
  <1>22. CASE ReportXrayStarted(r)  BY <1>22 DEF ReportXrayStarted
  <1>23. CASE ReportXrayNotReady(r)  BY <1>23 DEF ReportXrayNotReady
  <1> QED BY <1>1, <1>2, <1>3, <1>4, <1>5, <1>6, <1>7, <1>8, <1>9, <1>10,
             <1>11, <1>12, <1>13, <1>14, <1>15, <1>16, <1>17, <1>18, <1>19,
             <1>20, <1>21, <1>22, <1>23
          DEF XrayStartStep

LEMMA SingBoxGuardedSingBox ==
  ASSUME Types, SingBoxGuarded, NEW r \in Requests, SingBoxStartStep(r)
  PROVE  SingBoxGuarded'
  <1> USE DEF Types, TypeOK, SingBoxGuarded, SingBoxAwaits, flags, procs, Goto, Reply, LeaveSingBox
  <1>1. CASE KillXrayForSingBox(r)  BY <1>1 DEF KillXrayForSingBox
  <1>2. CASE SwitchToSingBox(r)  BY <1>2 DEF SwitchToSingBox
  <1>3. CASE RefuseSingBoxStart(r)  BY <1>3 DEF RefuseSingBoxStart
  <1>4. CASE EnterSingBoxStart(r)  BY <1>4 DEF EnterSingBoxStart, ExtractSingBoxUsers
  <1>5. CASE QuerySingBox(r)  BY <1>5 DEF QuerySingBox, CallSingBox
  <1>6. CASE SingBoxUpToDate(r)  BY <1>6 DEF SingBoxUpToDate
  <1>7. CASE SingBoxOutdated(r)  BY <1>7 DEF SingBoxOutdated, ExtractSingBoxUsers
  <1>8. CASE AccumulateStats(r)  BY <1>8 DEF AccumulateStats, CallSingBox
  <1>9. CASE WriteConfig(r)  BY <1>9 DEF WriteConfig
  <1>10. CASE StopOldSingBox(r)  BY <1>10 DEF StopOldSingBox
  <1>11. CASE StartNewSingBox(r)  BY <1>11 DEF StartNewSingBox
  <1>12. CASE RestartSingBoxThrows(r)  BY <1>12 DEF RestartSingBoxThrows
  <1>13. CASE AwaitSingBox(r)  BY <1>13 DEF AwaitSingBox, CallSingBox
  <1>14. CASE SetCurrentConfig(r)  BY <1>14 DEF SetCurrentConfig
  <1>15. CASE ReportSingBoxStarted(r)  BY <1>15 DEF ReportSingBoxStarted
  <1>16. CASE SingBoxStartThrew(r)  BY <1>16 DEF SingBoxStartThrew
  <1>17. CASE ReportSingBoxNotStarted(r)  BY <1>17 DEF ReportSingBoxNotStarted
  <1> QED BY <1>1, <1>2, <1>3, <1>4, <1>5, <1>6, <1>7, <1>8, <1>9, <1>10,
             <1>11, <1>12, <1>13, <1>14, <1>15, <1>16, <1>17
          DEF SingBoxStartStep

LEMMA GuardedFrame ==
  ASSUME Types, NEW r \in Requests
  PROVE  /\ XrayGuarded /\ XrayFrame(r) => XrayGuarded'
         /\ SingBoxGuarded /\ SingBoxFrame(r) => SingBoxGuarded'
  BY DEF XrayGuarded, XrayFrame, SingBoxGuarded, SingBoxFrame, OthersWait

-----------------------------------------------------------------------------
(* The configuration that is remembered is the one that runs.                *)

XrayInv ==
    /\ Types
    /\ XrayGuarded
    /\ XrayTracked
    /\ \A r \in Requests : pc[r] = "xStart" => xrayProc = Down

SingBoxInv ==
    /\ Types
    /\ SingBoxGuarded
    /\ SingBoxTracked
    /\ \A r \in Requests :
         /\ pc[r] = "sStartProc" => sbProc = Down
         /\ pc[r] \in {"sRestart", "sStartProc"} => sbFile = req[r].cfg

\* The restart of xray is not cut short between extractUsersFromConfig and
\* the answer: H1 of the README is what happens when it is.
NoCutShort == "control" \notin Faults /\ "prepare" \notin Faults

LEMMA TrackedInit == Init => XrayInv /\ SingBoxInv
  BY TypeInit, GuardedInit, StatusesDistinct
     DEF Init, XrayInv, SingBoxInv, XrayTracked, SingBoxTracked, Configs

LEMMA TrackedFrame ==
  ASSUME Types, Types', NEW r \in Requests
  PROVE  /\ XrayInv /\ XrayFrame(r) => XrayInv'
         /\ SingBoxInv /\ SingBoxFrame(r) => SingBoxInv'
  <1>1. XrayInv /\ XrayFrame(r) => XrayInv'
    BY GuardedFrame DEF XrayInv, XrayFrame, OthersWait, XrayTracked, ReplacesXray,
       XrayAwaits
  <1>2. SingBoxInv /\ SingBoxFrame(r) => SingBoxInv'
    BY GuardedFrame DEF SingBoxInv, SingBoxFrame, OthersWait, SingBoxTracked,
       ReplacesSingBox, SingBoxAwaits
  <1> QED BY <1>1, <1>2

LEMMA XrayTrackedXray ==
  ASSUME XrayInv, Types', XrayGuarded', NoCutShort, NEW r \in Requests, XrayStartStep(r)
  PROVE  XrayInv'
  <1> USE DEF XrayInv, Types, TypeOK, XrayGuarded, XrayTracked, ReplacesXray, XrayAwaits,
              flags, procs, Goto, Reply, LeaveXray
  <1>1. CASE StopSingBoxForXray(r)  BY <1>1 DEF StopSingBoxForXray
  <1>2. CASE SwitchToXray(r)  BY <1>2, StatusesDistinct DEF SwitchToXray, Configs
  <1>3. CASE StopSingBoxForXrayFails(r)  BY <1>3 DEF StopSingBoxForXrayFails, NoCutShort
  <1>4. CASE RefuseXrayStart(r)  BY <1>4 DEF RefuseXrayStart
  <1>5. CASE EnterXrayStart(r)  BY <1>5 DEF EnterXrayStart
  <1>6. CASE IntegrationsFail(r)  BY <1>6 DEF IntegrationsFail
  <1>7. CASE IntegrationsSynced(r)  BY <1>7 DEF IntegrationsSynced, MayCompare
  <1>8. CASE QueryXray(r)  BY <1>8 DEF QueryXray, XrayServes
  <1>9. CASE XrayUpToDate(r)  BY <1>9 DEF XrayUpToDate
  <1>10. CASE XrayOutdated(r)  BY <1>10 DEF XrayOutdated
  <1>11. CASE XrayUnhealthy(r)  BY <1>11 DEF XrayUnhealthy
  <1>12. CASE ExtractXrayUsers(r)  BY <1>12 DEF ExtractXrayUsers
  <1>13. CASE PrepareXray(r)  BY <1>13 DEF PrepareXray
  <1>14. CASE PrepareXrayThrows(r)  BY <1>14 DEF PrepareXrayThrows, NoCutShort
  <1>15. CASE XrayStartThrew(r)  BY <1>15 DEF XrayStartThrew
  <1>16. CASE StopOldXray(r)  BY <1>16 DEF StopOldXray
  <1>17. CASE StartNewXray(r)  BY <1>17 DEF StartNewXray
  <1>18. CASE RestartXrayFails(r)
    <2>1. CASE LeaveXray(r, "xStop")  BY <1>18, <2>1 DEF RestartXrayFails, NoCutShort
    <2>2. CASE LeaveXray(r, "xStart")  BY <1>18, <2>2 DEF RestartXrayFails, NoCutShort
    <2> QED BY <1>18, <2>1, <2>2 DEF RestartXrayFails
  <1>19. CASE AwaitXray(r)  BY <1>19, StatusesDistinct DEF AwaitXray, XrayServes, Configs
  <1>20. CASE XrayNotReady(r)  BY <1>20 DEF XrayNotReady
  <1>21. CASE MarkXrayOnline(r)  BY <1>21 DEF MarkXrayOnline
  <1>22. CASE ReportXrayStarted(r)  BY <1>22 DEF ReportXrayStarted
  <1>23. CASE ReportXrayNotReady(r)  BY <1>23 DEF ReportXrayNotReady
  <1> QED BY <1>1, <1>2, <1>3, <1>4, <1>5, <1>6, <1>7, <1>8, <1>9, <1>10,
             <1>11, <1>12, <1>13, <1>14, <1>15, <1>16, <1>17, <1>18, <1>19,
             <1>20, <1>21, <1>22, <1>23
          DEF XrayStartStep

LEMMA SingBoxTrackedSingBox ==
  ASSUME SingBoxInv, Types', SingBoxGuarded', NEW r \in Requests, SingBoxStartStep(r)
  PROVE  SingBoxInv'
  <1> USE DEF SingBoxInv, Types, TypeOK, SingBoxGuarded, SingBoxTracked, ReplacesSingBox,
              SingBoxActive, SingBoxAwaits, flags, procs, Goto, Reply, LeaveSingBox
  <1>1. CASE KillXrayForSingBox(r)  BY <1>1 DEF KillXrayForSingBox
  <1>2. CASE SwitchToSingBox(r)  BY <1>2 DEF SwitchToSingBox
  <1>3. CASE RefuseSingBoxStart(r)  BY <1>3 DEF RefuseSingBoxStart
  <1>4. CASE EnterSingBoxStart(r)  BY <1>4 DEF EnterSingBoxStart, ExtractSingBoxUsers, MayCompare
  <1>5. CASE QuerySingBox(r)  BY <1>5 DEF QuerySingBox, CallSingBox, SingBoxServes
  <1>6. CASE SingBoxUpToDate(r)  BY <1>6 DEF SingBoxUpToDate
  <1>7. CASE SingBoxOutdated(r)  BY <1>7 DEF SingBoxOutdated, ExtractSingBoxUsers
  <1>8. CASE AccumulateStats(r)  BY <1>8 DEF AccumulateStats, CallSingBox, SingBoxServes
  <1>9. CASE WriteConfig(r)  BY <1>9 DEF WriteConfig
  <1>10. CASE StopOldSingBox(r)  BY <1>10 DEF StopOldSingBox
  <1>11. CASE StartNewSingBox(r)  BY <1>11 DEF StartNewSingBox
  <1>12. CASE RestartSingBoxThrows(r)  BY <1>12 DEF RestartSingBoxThrows
  <1>13. CASE AwaitSingBox(r)  BY <1>13 DEF AwaitSingBox, CallSingBox, SingBoxServes
  <1>14. CASE SetCurrentConfig(r)  BY <1>14 DEF SetCurrentConfig
  <1>15. CASE ReportSingBoxStarted(r)  BY <1>15 DEF ReportSingBoxStarted
  <1>16. CASE SingBoxStartThrew(r)  BY <1>16 DEF SingBoxStartThrew, SetOffline
  <1>17. CASE ReportSingBoxNotStarted(r)  BY <1>17 DEF ReportSingBoxNotStarted
  <1> QED BY <1>1, <1>2, <1>3, <1>4, <1>5, <1>6, <1>7, <1>8, <1>9, <1>10,
             <1>11, <1>12, <1>13, <1>14, <1>15, <1>16, <1>17
          DEF SingBoxStartStep

LEMMA XrayTrackedProcess ==
  ASSUME XrayInv, ProcessStep
  PROVE  XrayInv'
  <1>1. Types'
    BY TypeProcess DEF XrayInv
  <1> QED BY <1>1, StatusesDistinct
     DEF ProcessStep, FetchConfig, CrashXray, CrashSingBox, local, flags, procs,
         XrayInv, XrayGuarded, XrayTracked, Types, TypeOK, Configs

LEMMA SingBoxTrackedProcess ==
  ASSUME SingBoxInv, ProcessStep
  PROVE  SingBoxInv'
  <1>1. Types'
    BY TypeProcess DEF SingBoxInv
  <1> QED BY <1>1
     DEF ProcessStep, FetchConfig, CrashXray, CrashSingBox, local, flags, procs,
         SingBoxInv, SingBoxGuarded, SingBoxTracked, SingBoxActive, Types, TypeOK

\* A request leaves xHealthy (sHealthy) for its answer only if the remembered
\* configuration is its own.
LEMMA XrayAnswerCompares ==
  ASSUME Types, Next, NEW r \in Requests, pc[r] = "xHealthy", pc'[r] = "idle"
  PROVE  known = req[r].cfg
  <1>1. XrayStartStep(r)
    <2>1. ~ProcessStep
      BY DEF ProcessStep, FetchConfig, CrashXray, CrashSingBox, local
    <2>2. PICK q \in Requests : EnterStep(q) \/ ServeStep(q)
      BY <2>1 DEF Next
    <2>3. CASE XrayStartStep(q)
      BY <2>3, SingBoxFrameXray DEF SingBoxFrame, OthersWait
    <2>4. CASE ~XrayStartStep(q)
      <3>1. XrayFrame(q)
        BY <2>2, <2>4, XrayFrameReceive, XrayFrameSingBox, XrayFrameStop DEF ServeStep
      <3> QED BY <3>1 DEF XrayFrame, OthersWait, XrayAwaits
    <2> QED BY <2>3, <2>4
  <1> QED BY <1>1 DEF XrayStartStep, StopSingBoxForXray, SwitchToXray,
         StopSingBoxForXrayFails, RefuseXrayStart, EnterXrayStart,
         IntegrationsFail, IntegrationsSynced, QueryXray, XrayUpToDate,
         XrayOutdated, XrayUnhealthy, ExtractXrayUsers, PrepareXray,
         PrepareXrayThrows, XrayStartThrew, StopOldXray, StartNewXray,
         RestartXrayFails, AwaitXray, XrayNotReady, MarkXrayOnline,
         ReportXrayStarted, ReportXrayNotReady, Types, TypeOK, Goto, Reply, LeaveXray

LEMMA SingBoxAnswerCompares ==
  ASSUME Types, Next, NEW r \in Requests, pc[r] = "sHealthy", pc'[r] = "idle"
  PROVE  known = req[r].cfg
  <1>1. SingBoxStartStep(r)
    <2>1. ~ProcessStep
      BY DEF ProcessStep, FetchConfig, CrashXray, CrashSingBox, local
    <2>2. PICK q \in Requests : EnterStep(q) \/ ServeStep(q)
      BY <2>1 DEF Next
    <2>3. CASE SingBoxStartStep(q)
      BY <2>3, XrayFrameSingBox DEF XrayFrame, OthersWait
    <2>4. CASE ~SingBoxStartStep(q)
      <3>1. SingBoxFrame(q)
        BY <2>2, <2>4, SingBoxFrameReceive, SingBoxFrameXray, SingBoxFrameStop DEF ServeStep
      <3> QED BY <3>1 DEF SingBoxFrame, OthersWait, SingBoxAwaits
    <2> QED BY <2>3, <2>4
  <1> QED BY <1>1 DEF SingBoxStartStep, KillXrayForSingBox, SwitchToSingBox,
         RefuseSingBoxStart, EnterSingBoxStart, QuerySingBox,
         SingBoxUpToDate, SingBoxOutdated, AccumulateStats, WriteConfig,
         StopOldSingBox, StartNewSingBox, RestartSingBoxThrows,
         AwaitSingBox, SetCurrentConfig, ReportSingBoxStarted,
         SingBoxStartThrew, ReportSingBoxNotStarted, Types, TypeOK, Goto, Reply,
         LeaveSingBox, ExtractSingBoxUsers, CallSingBox

-----------------------------------------------------------------------------
(* The theorems. *)

LEMMA TypesStep ==
  ASSUME Types, [Next]_vars
  PROVE  Types'
  <1>1. CASE Next
    <2>1. ASSUME NEW r \in Requests, EnterStep(r) PROVE Types'
      BY <2>1, TypeReceive, KindsReceive DEF Types
    <2>2. ASSUME NEW r \in Requests, XrayStartStep(r) PROVE Types'
      BY <2>2, TypeXray, KindsXray DEF Types
    <2>3. ASSUME NEW r \in Requests, SingBoxStartStep(r) PROVE Types'
      BY <2>3, TypeSingBox, KindsSingBox DEF Types
    <2>4. ASSUME NEW r \in Requests, StopStep(r) PROVE Types'
      BY <2>4, TypeStop, KindsStop DEF Types
    <2>5. CASE ProcessStep
      BY <2>5, TypeProcess
    <2> QED BY <1>1, <2>1, <2>2, <2>3, <2>4, <2>5 DEF Next, ServeStep
  <1>2. CASE UNCHANGED vars
    BY <1>2 DEF vars, local, flags, procs, Types, TypeOK, RequestKinds
  <1> QED BY <1>1, <1>2

\* Every variable keeps its type: in particular known, currentConfig and the
\* file of sing-box only ever hold a configuration of the right core.
THEOREM TypeCorrect == Spec => []TypeOK
  <1>1. Types => TypeOK
    BY DEF Types
  <1> QED BY TypeInit, TypesStep, <1>1, PTL DEF Spec

LEMMA GuardedStep ==
  ASSUME Types, XrayGuarded, SingBoxGuarded, [Next]_vars
  PROVE  XrayGuarded' /\ SingBoxGuarded'
  <1>1. CASE Next
    <2>1. ASSUME NEW r \in Requests, EnterStep(r) PROVE XrayGuarded' /\ SingBoxGuarded'
      BY <2>1, GuardedFrame, XrayFrameReceive, SingBoxFrameReceive
    <2>2. ASSUME NEW r \in Requests, XrayStartStep(r) PROVE XrayGuarded' /\ SingBoxGuarded'
      BY <2>2, GuardedFrame, XrayGuardedXray, SingBoxFrameXray
    <2>3. ASSUME NEW r \in Requests, SingBoxStartStep(r) PROVE XrayGuarded' /\ SingBoxGuarded'
      BY <2>3, GuardedFrame, XrayFrameSingBox, SingBoxGuardedSingBox
    <2>4. ASSUME NEW r \in Requests, StopStep(r) PROVE XrayGuarded' /\ SingBoxGuarded'
      BY <2>4, GuardedFrame, XrayFrameStop, SingBoxFrameStop
    <2>5. CASE ProcessStep
      BY <2>5 DEF ProcessStep, FetchConfig, CrashXray, CrashSingBox, local, flags,
                  XrayGuarded, SingBoxGuarded
    <2> QED BY <1>1, <2>1, <2>2, <2>3, <2>4, <2>5 DEF Next, ServeStep
  <1>2. CASE UNCHANGED vars
    BY <1>2 DEF vars, local, flags, XrayGuarded, SingBoxGuarded
  <1> QED BY <1>1, <1>2

\* However many requests are served, the busy flags are set exactly while one
\* is inside the guarded part of a start, and never more than one is.
THEOREM FlagsGuardStarts ==
  Spec => []( /\ BusyFlagsExact
              /\ \A r, q \in InXrayStart : r = q
              /\ \A r, q \in InSingBoxStart : r = q)
  <1> DEFINE Guarded == Types /\ XrayGuarded /\ SingBoxGuarded
             Goal == /\ BusyFlagsExact
                     /\ \A r, q \in InXrayStart : r = q
                     /\ \A r, q \in InSingBoxStart : r = q
  <1>1. Init => Guarded
    BY TypeInit, GuardedInit
  <1>2. Guarded /\ [Next]_vars => Guarded'
    BY TypesStep, GuardedStep
  <1>3. Guarded => Goal
    BY DEF XrayGuarded, SingBoxGuarded, BusyFlagsExact, InXrayStart, InSingBoxStart
  <1> QED BY <1>1, <1>2, <1>3, PTL DEF Spec

\* The guarded part of an xray start implements the safety part of SingleFlight:
\* it is entered only when empty.
THEOREM XrayStartsOneAtATime == Spec => XrayStartsSingleFlight
  <1> DEFINE Guarded == Types /\ XrayGuarded /\ SingBoxGuarded
  <1>1. Init => Guarded /\ XraySection!Init
    BY TypeInit, GuardedInit DEF Init, InXrayStart, XrayAwaits, XraySection!Init
  <1>2. Guarded /\ [Next]_vars => Guarded'
    BY TypesStep, GuardedStep
  <1>3. Guarded /\ Guarded' /\ [Next]_vars => [XraySection!Next]_InXrayStart
    <2> SUFFICES ASSUME Guarded, Guarded', [Next]_vars
                 PROVE  [XraySection!Next]_InXrayStart
      OBVIOUS
    <2>1. ASSUME NEW r \in Requests, OthersWait(r)
          PROVE  [XraySection!Next]_InXrayStart
      <3>1. CASE r \in InXrayStart <=> pc'[r] \in XrayAwaits
        BY <2>1, <3>1 DEF InXrayStart, OthersWait
      <3>2. CASE r \in InXrayStart /\ pc'[r] \notin XrayAwaits
        <4>1. InXrayStart' = InXrayStart \ {r}
          BY <2>1, <3>2 DEF InXrayStart, OthersWait
        <4> QED BY <3>2, <4>1 DEF XraySection!Next, XraySection!Leave
      <3>3. CASE r \notin InXrayStart /\ pc'[r] \in XrayAwaits
        <4>1. InXrayStart = {}
          BY <2>1, <3>3 DEF InXrayStart, OthersWait, XrayGuarded
        <4>2. InXrayStart' = {r}
          BY <2>1, <3>3, <4>1 DEF InXrayStart, OthersWait
        <4> QED BY <4>1, <4>2 DEF XraySection!Next, XraySection!Enter
      <3> QED BY <3>1, <3>2, <3>3 DEF InXrayStart
    <2>2. CASE Next
      <3>1. ASSUME NEW r \in Requests, EnterStep(r) \/ ServeStep(r)
            PROVE  OthersWait(r)
        BY <3>1, XrayFrameReceive, XrayFrameSingBox, XrayFrameStop, SingBoxFrameXray
           DEF ServeStep, XrayFrame, SingBoxFrame
      <3>2. CASE ProcessStep
        BY <3>2 DEF ProcessStep, FetchConfig, CrashXray, CrashSingBox, local, InXrayStart
      <3> QED BY <2>1, <2>2, <3>1, <3>2 DEF Next
    <2>3. CASE UNCHANGED vars
      BY <2>3 DEF vars, local, InXrayStart
    <2> QED BY <2>2, <2>3
  <1> QED BY <1>1, <1>2, <1>3, PTL DEF Spec, XrayStartsSingleFlight, XraySection!Safety

\* The guarded part of a sing-box start implements the safety part of SingleFlight:
\* it is entered only when empty.
THEOREM SingBoxStartsOneAtATime == Spec => SingBoxStartsSingleFlight
  <1> DEFINE Guarded == Types /\ XrayGuarded /\ SingBoxGuarded
  <1>1. Init => Guarded /\ SingBoxSection!Init
    BY TypeInit, GuardedInit DEF Init, InSingBoxStart, SingBoxAwaits, SingBoxSection!Init
  <1>2. Guarded /\ [Next]_vars => Guarded'
    BY TypesStep, GuardedStep
  <1>3. Guarded /\ Guarded' /\ [Next]_vars => [SingBoxSection!Next]_InSingBoxStart
    <2> SUFFICES ASSUME Guarded, Guarded', [Next]_vars
                 PROVE  [SingBoxSection!Next]_InSingBoxStart
      OBVIOUS
    <2>1. ASSUME NEW r \in Requests, OthersWait(r)
          PROVE  [SingBoxSection!Next]_InSingBoxStart
      <3>1. CASE r \in InSingBoxStart <=> pc'[r] \in SingBoxAwaits
        BY <2>1, <3>1 DEF InSingBoxStart, OthersWait
      <3>2. CASE r \in InSingBoxStart /\ pc'[r] \notin SingBoxAwaits
        <4>1. InSingBoxStart' = InSingBoxStart \ {r}
          BY <2>1, <3>2 DEF InSingBoxStart, OthersWait
        <4> QED BY <3>2, <4>1 DEF SingBoxSection!Next, SingBoxSection!Leave
      <3>3. CASE r \notin InSingBoxStart /\ pc'[r] \in SingBoxAwaits
        <4>1. InSingBoxStart = {}
          BY <2>1, <3>3 DEF InSingBoxStart, OthersWait, SingBoxGuarded
        <4>2. InSingBoxStart' = {r}
          BY <2>1, <3>3, <4>1 DEF InSingBoxStart, OthersWait
        <4> QED BY <4>1, <4>2 DEF SingBoxSection!Next, SingBoxSection!Enter
      <3> QED BY <3>1, <3>2, <3>3 DEF InSingBoxStart
    <2>2. CASE Next
      <3>1. ASSUME NEW r \in Requests, EnterStep(r) \/ ServeStep(r)
            PROVE  OthersWait(r)
        BY <3>1, XrayFrameReceive, XrayFrameSingBox, XrayFrameStop, SingBoxFrameXray
           DEF ServeStep, XrayFrame, SingBoxFrame
      <3>2. CASE ProcessStep
        BY <3>2 DEF ProcessStep, FetchConfig, CrashXray, CrashSingBox, local, InSingBoxStart
      <3> QED BY <2>1, <2>2, <3>1, <3>2 DEF Next
    <2>3. CASE UNCHANGED vars
      BY <2>3 DEF vars, local, InSingBoxStart
    <2> QED BY <2>2, <2>3
  <1> QED BY <1>1, <1>2, <1>3, PTL DEF Spec, SingBoxStartsSingleFlight, SingBoxSection!Safety

LEMMA XrayInvStep ==
  ASSUME XrayInv, [Next]_vars, NoCutShort
  PROVE  XrayInv'
  <1>1. Types'
    BY TypesStep DEF XrayInv
  <1>2. CASE Next
    <2>1. ASSUME NEW r \in Requests, EnterStep(r) PROVE XrayInv'
      BY <1>1, <2>1, TrackedFrame, XrayFrameReceive DEF XrayInv
    <2>2. ASSUME NEW r \in Requests, XrayStartStep(r) PROVE XrayInv'
      <3>1. XrayGuarded'
        BY <2>2, XrayGuardedXray DEF XrayInv
      <3> QED BY <1>1, <2>2, <3>1, XrayTrackedXray
    <2>3. ASSUME NEW r \in Requests, SingBoxStartStep(r) PROVE XrayInv'
      BY <1>1, <2>3, TrackedFrame, XrayFrameSingBox DEF XrayInv
    <2>4. ASSUME NEW r \in Requests, StopStep(r) PROVE XrayInv'
      BY <1>1, <2>4, TrackedFrame, XrayFrameStop DEF XrayInv
    <2>5. CASE ProcessStep
      BY <2>5, XrayTrackedProcess
    <2> QED BY <1>2, <2>1, <2>2, <2>3, <2>4, <2>5 DEF Next, ServeStep
  <1>3. CASE UNCHANGED vars
    BY <1>1, <1>3 DEF vars, local, flags, procs, XrayInv, XrayGuarded, XrayTracked
  <1> QED BY <1>2, <1>3

LEMMA XrayInvAlways ==
  ASSUME NoCutShort
  PROVE  Spec => []XrayInv
  <1>1. Init => XrayInv
    BY TrackedInit
  <1>2. XrayInv /\ [Next]_vars => XrayInv'
    BY XrayInvStep
  <1> QED BY <1>1, <1>2, PTL DEF Spec

\* Unless s6-svc or the preparation of a restart fails, the xray configuration
\* that InternalService remembers is the one the process runs whenever xray is
\* believed online and no start is replacing it.
THEOREM XrayRemembered ==
  ASSUME NoCutShort
  PROVE  Spec => []XrayTracked
  <1>1. XrayInv => XrayTracked
    BY DEF XrayInv
  <1> QED BY <1>1, XrayInvAlways, PTL

\* Then a start of xray answered "up-to-date" told the truth.
THEOREM XrayAnswersTrue ==
  ASSUME NoCutShort
  PROVE  Spec => XrayUpToDateIsTrue
  <1>1. XrayInv /\ [Next]_vars =>
          [\A r \in Requests :
             SkipsRestart(r) /\ req[r].cfg \in XrayConfigs => Current(req[r].cfg)]_vars
    <2> SUFFICES ASSUME XrayInv, Next, NEW r \in Requests, SkipsRestart(r),
                        req[r].cfg \in XrayConfigs
                 PROVE  Current(req[r].cfg)
      OBVIOUS
    <2>1. pc[r] = "xHealthy"
      BY ConfigsDisjoint
         DEF XrayInv, Types, RequestKinds, SkipsRestart, SingBoxAwaits
    <2>2. known = req[r].cfg
      BY <2>1, XrayAnswerCompares DEF XrayInv, SkipsRestart
    <2> QED BY <2>1, <2>2 DEF XrayInv, XrayTracked, Current
  <1> QED BY <1>1, XrayInvAlways, PTL DEF Spec, XrayUpToDateIsTrue

LEMMA SingBoxInvStep ==
  ASSUME SingBoxInv, [Next]_vars
  PROVE  SingBoxInv'
  <1>1. Types'
    BY TypesStep DEF SingBoxInv
  <1>2. CASE Next
    <2>1. ASSUME NEW r \in Requests, EnterStep(r) PROVE SingBoxInv'
      BY <1>1, <2>1, TrackedFrame, SingBoxFrameReceive DEF SingBoxInv
    <2>2. ASSUME NEW r \in Requests, XrayStartStep(r) PROVE SingBoxInv'
      BY <1>1, <2>2, TrackedFrame, SingBoxFrameXray DEF SingBoxInv
    <2>3. ASSUME NEW r \in Requests, SingBoxStartStep(r) PROVE SingBoxInv'
      <3>1. SingBoxGuarded'
        BY <2>3, SingBoxGuardedSingBox DEF SingBoxInv
      <3> QED BY <1>1, <2>3, <3>1, SingBoxTrackedSingBox
    <2>4. ASSUME NEW r \in Requests, StopStep(r) PROVE SingBoxInv'
      BY <1>1, <2>4, TrackedFrame, SingBoxFrameStop DEF SingBoxInv
    <2>5. CASE ProcessStep
      BY <2>5, SingBoxTrackedProcess
    <2> QED BY <1>2, <2>1, <2>2, <2>3, <2>4, <2>5 DEF Next, ServeStep
  <1>3. CASE UNCHANGED vars
    BY <1>1, <1>3 DEF vars, local, flags, procs, SingBoxInv, SingBoxGuarded,
                      SingBoxTracked, SingBoxActive
  <1> QED BY <1>2, <1>3

LEMMA SingBoxInvAlways == Spec => []SingBoxInv
  <1>1. Init => SingBoxInv
    BY TrackedInit
  <1>2. SingBoxInv /\ [Next]_vars => SingBoxInv'
    BY SingBoxInvStep
  <1> QED BY <1>1, <1>2, PTL DEF Spec

\* Whatever fails, the configuration remembered for sing-box is the one its
\* process runs whenever sing-box is the active core and no start is replacing
\* it: the exception handler takes the core offline.
THEOREM SingBoxRemembered == Spec => []SingBoxTracked
  <1>1. SingBoxInv => SingBoxTracked
    BY DEF SingBoxInv
  <1> QED BY <1>1, SingBoxInvAlways, PTL

\* Whatever fails, a start of sing-box answered "up-to-date" told the truth:
\* nobody compares with a configuration that was not applied.
THEOREM SingBoxAnswersTrue == Spec => SingBoxUpToDateIsTrue
  <1>1. SingBoxInv /\ [Next]_vars =>
          [\A r \in Requests :
             SkipsRestart(r) /\ req[r].cfg \in SingBoxConfigs => Current(req[r].cfg)]_vars
    <2> SUFFICES ASSUME SingBoxInv, Next, NEW r \in Requests, SkipsRestart(r),
                        req[r].cfg \in SingBoxConfigs
                 PROVE  Current(req[r].cfg)
      OBVIOUS
    <2>1. pc[r] = "sHealthy"
      BY ConfigsDisjoint
         DEF SingBoxInv, Types, RequestKinds, SkipsRestart, XrayAwaits
    <2>2. known = req[r].cfg
      BY <2>1, SingBoxAnswerCompares DEF SingBoxInv, SkipsRestart
    <2> QED BY <2>1, <2>2, ConfigsDisjoint DEF SingBoxInv, SingBoxTracked, Current
  <1> QED BY <1>1, SingBoxInvAlways, PTL DEF Spec, SingBoxUpToDateIsTrue

-----------------------------------------------------------------------------
(* Requests that follow each other.  What the health check reports between   *)
(* them depends on what each await of the one that is served may rely on.    *)

OneRequest == \E r : Requests = {r}
OnlyIntegrationsFail == Faults \subseteq {"integrations"}

BothDown == xrayProc = Down /\ sbProc = Down
NothingUp == ~core.online /\ ~xrayOnline /\ BothDown
XrayUp ==
    /\ core = [active |-> "xray", online |-> TRUE] /\ xrayOnline
    /\ XrayServes /\ sbProc = Down
SingBoxUp == SingBoxActive /\ ~xrayOnline /\ xrayProc = Down /\ SingBoxServes

XrayStage(r) ==
    /\ pc[r] = "xSwitch" => SingBoxUp
    /\ pc[r] = "xSwitched" => SingBoxActive /\ ~xrayOnline /\ BothDown
    /\ pc[r] \in {"xEnter", "xIntegrations", "xState", "xPrepare", "xStop"} => XrayUp \/ NothingUp
    /\ pc[r] \in {"xStats", "xHealthy", "xVersion"} => XrayUp
    /\ pc[r] = "xStart" => BothDown
    /\ pc[r] = "xReady" => xrayProc \in XrayConfigs \cup {Booting} /\ sbProc = Down
    /\ pc[r] = "xUp" => XrayServes /\ sbProc = Down
    /\ pc[r] \in {"xPrepare", "xStop", "xStart", "xReady"} => known \in XrayConfigs
    /\ pc[r] \notin {"xUnhealthy", "xNotReady", "xTail", "xFailed"}

SingBoxStage(r) ==
    /\ pc[r] = "sKill" => XrayUp
    /\ pc[r] = "sKilled" => ~SingBoxActive /\ BothDown
    /\ pc[r] \in {"sEnter", "sWrite", "sRestart"} =>
         SingBoxUp \/ (~SingBoxActive /\ ~xrayOnline /\ BothDown)
    /\ pc[r] \in {"sStats", "sHealthy", "sAccumulate"} => SingBoxUp
    /\ pc[r] = "sStartProc" => ~xrayOnline /\ BothDown
    /\ pc[r] \in {"sReady", "sUp", "sVersion"} => ~xrayOnline /\ xrayProc = Down /\ SingBoxServes
    /\ pc[r] \notin {"sFailed", "sTail"}

StopStage(r) ==
    /\ pc[r] \in {"idle", "tKill"} => XrayUp \/ SingBoxUp \/ NothingUp
    /\ pc[r] = "tSingBox" => xrayProc = Down
    /\ pc[r] \in {"tSbStopped", "tIntegrations"} => BothDown

Stage(r) == XrayStage(r) /\ SingBoxStage(r) /\ StopStage(r)
Stages == \A r \in Requests : Stage(r)

LEMMA StageReceive ==
  ASSUME Types, SingBoxGuarded, OnlyIntegrationsFail, NEW r \in Requests, Requests = {r},
         Stage(r), EnterStep(r)
  PROVE  Stage(r)'
  <1> USE OnlyIntegrationsFail
      DEF OnlyIntegrationsFail, Types, TypeOK, RequestKinds, SingBoxGuarded, Stage, XrayStage,
          SingBoxStage, StopStage, BothDown, NothingUp, XrayUp, SingBoxUp, XrayServes, SingBoxServes,
          SingBoxActive, XrayAwaits, SingBoxAwaits, flags, procs, Goto, Reply, Receive, LeaveXray,
          LeaveSingBox, SetOffline
  <1>1. CASE ReceiveXrayStart(r)  BY <1>1 DEF ReceiveXrayStart
  <1>2. CASE ReceiveSingBoxStart(r)  BY <1>2 DEF ReceiveSingBoxStart
  <1>3. CASE ReceiveStop(r)  BY <1>3 DEF ReceiveStop
  <1>4. CASE ReceivePluginStop(r)
    <2>1. CASE Receive(r, None, FALSE, "tKill")  BY <1>4, <2>1 DEF ReceivePluginStop
    <2>2. CASE Reply(r, "idle")  BY <1>4, <2>2 DEF ReceivePluginStop
    <2> QED BY <1>4, <2>1, <2>2 DEF ReceivePluginStop
  <1> QED BY <1>1, <1>2, <1>3, <1>4
          DEF EnterStep

LEMMA StageXray ==
  ASSUME Types, SingBoxGuarded, OnlyIntegrationsFail, NEW r \in Requests, Requests = {r},
         Stage(r), XrayStartStep(r)
  PROVE  Stage(r)'
  <1> USE OnlyIntegrationsFail
      DEF OnlyIntegrationsFail, Types, TypeOK, RequestKinds, SingBoxGuarded, Stage, XrayStage,
          SingBoxStage, StopStage, BothDown, NothingUp, XrayUp, SingBoxUp, XrayServes, SingBoxServes,
          SingBoxActive, XrayAwaits, SingBoxAwaits, flags, procs, Goto, Reply, Receive, LeaveXray,
          LeaveSingBox, SetOffline
  <1>1. CASE StopSingBoxForXray(r)  BY <1>1 DEF StopSingBoxForXray
  <1>2. CASE SwitchToXray(r)  BY <1>2 DEF SwitchToXray
  <1>3. CASE StopSingBoxForXrayFails(r)  BY <1>3 DEF StopSingBoxForXrayFails
  <1>4. CASE RefuseXrayStart(r)  BY <1>4 DEF RefuseXrayStart
  <1>5. CASE EnterXrayStart(r)  BY <1>5 DEF EnterXrayStart
  <1>6. CASE IntegrationsFail(r)  BY <1>6 DEF IntegrationsFail
  <1>7. CASE IntegrationsSynced(r)  BY <1>7 DEF IntegrationsSynced, MayCompare
  <1>8. CASE QueryXray(r)  BY <1>8 DEF QueryXray
  <1>9. CASE XrayUpToDate(r)  BY <1>9 DEF XrayUpToDate
  <1>10. CASE XrayOutdated(r)  BY <1>10 DEF XrayOutdated
  <1>11. CASE XrayUnhealthy(r)  BY <1>11 DEF XrayUnhealthy
  <1>12. CASE ExtractXrayUsers(r)  BY <1>12 DEF ExtractXrayUsers
  <1>13. CASE PrepareXray(r)  BY <1>13 DEF PrepareXray
  <1>14. CASE PrepareXrayThrows(r)  BY <1>14 DEF PrepareXrayThrows
  <1>15. CASE XrayStartThrew(r)  BY <1>15 DEF XrayStartThrew
  <1>16. CASE StopOldXray(r)  BY <1>16 DEF StopOldXray
  <1>17. CASE StartNewXray(r)  BY <1>17 DEF StartNewXray
  <1>18. CASE RestartXrayFails(r)
    <2>1. CASE LeaveXray(r, "xStop")  BY <1>18, <2>1 DEF RestartXrayFails
    <2>2. CASE LeaveXray(r, "xStart")  BY <1>18, <2>2 DEF RestartXrayFails
    <2> QED BY <1>18, <2>1, <2>2 DEF RestartXrayFails
  <1>19. CASE AwaitXray(r)  BY <1>19 DEF AwaitXray
  <1>20. CASE XrayNotReady(r)  BY <1>20 DEF XrayNotReady
  <1>21. CASE MarkXrayOnline(r)  BY <1>21 DEF MarkXrayOnline
  <1>22. CASE ReportXrayStarted(r)  BY <1>22 DEF ReportXrayStarted
  <1>23. CASE ReportXrayNotReady(r)  BY <1>23 DEF ReportXrayNotReady
  <1> QED BY <1>1, <1>2, <1>3, <1>4, <1>5, <1>6, <1>7, <1>8, <1>9, <1>10,
             <1>11, <1>12, <1>13, <1>14, <1>15, <1>16, <1>17, <1>18, <1>19,
             <1>20, <1>21, <1>22, <1>23
          DEF XrayStartStep

LEMMA StageSingBox ==
  ASSUME Types, SingBoxGuarded, OnlyIntegrationsFail, NEW r \in Requests, Requests = {r},
         Stage(r), SingBoxStartStep(r)
  PROVE  Stage(r)'
  <1> USE OnlyIntegrationsFail
      DEF OnlyIntegrationsFail, Types, TypeOK, RequestKinds, SingBoxGuarded, Stage, XrayStage,
          SingBoxStage, StopStage, BothDown, NothingUp, XrayUp, SingBoxUp, XrayServes, SingBoxServes,
          SingBoxActive, XrayAwaits, SingBoxAwaits, flags, procs, Goto, Reply, Receive, LeaveXray,
          LeaveSingBox, SetOffline
  <1>1. CASE KillXrayForSingBox(r)  BY <1>1 DEF KillXrayForSingBox
  <1>2. CASE SwitchToSingBox(r)  BY <1>2 DEF SwitchToSingBox
  <1>3. CASE RefuseSingBoxStart(r)  BY <1>3 DEF RefuseSingBoxStart
  <1>4. CASE EnterSingBoxStart(r)  BY <1>4 DEF EnterSingBoxStart, ExtractSingBoxUsers, MayCompare
  <1>5. CASE QuerySingBox(r)  BY <1>5 DEF QuerySingBox, CallSingBox
  <1>6. CASE SingBoxUpToDate(r)  BY <1>6 DEF SingBoxUpToDate
  <1>7. CASE SingBoxOutdated(r)  BY <1>7 DEF SingBoxOutdated, ExtractSingBoxUsers
  <1>8. CASE AccumulateStats(r)  BY <1>8 DEF AccumulateStats, CallSingBox
  <1>9. CASE WriteConfig(r)  BY <1>9 DEF WriteConfig
  <1>10. CASE StopOldSingBox(r)  BY <1>10 DEF StopOldSingBox
  <1>11. CASE StartNewSingBox(r)  BY <1>11 DEF StartNewSingBox
  <1>12. CASE RestartSingBoxThrows(r)  BY <1>12 DEF RestartSingBoxThrows
  <1>13. CASE AwaitSingBox(r)  BY <1>13 DEF AwaitSingBox, CallSingBox
  <1>14. CASE SetCurrentConfig(r)  BY <1>14 DEF SetCurrentConfig
  <1>15. CASE ReportSingBoxStarted(r)  BY <1>15 DEF ReportSingBoxStarted
  <1>16. CASE SingBoxStartThrew(r)  BY <1>16 DEF SingBoxStartThrew
  <1>17. CASE ReportSingBoxNotStarted(r)  BY <1>17 DEF ReportSingBoxNotStarted
  <1> QED BY <1>1, <1>2, <1>3, <1>4, <1>5, <1>6, <1>7, <1>8, <1>9, <1>10,
             <1>11, <1>12, <1>13, <1>14, <1>15, <1>16, <1>17
          DEF SingBoxStartStep

LEMMA StageStop ==
  ASSUME Types, SingBoxGuarded, OnlyIntegrationsFail, NEW r \in Requests, Requests = {r},
         Stage(r), StopStep(r)
  PROVE  Stage(r)'
  <1> USE OnlyIntegrationsFail
      DEF OnlyIntegrationsFail, Types, TypeOK, RequestKinds, SingBoxGuarded, Stage, XrayStage,
          SingBoxStage, StopStage, BothDown, NothingUp, XrayUp, SingBoxUp, XrayServes, SingBoxServes,
          SingBoxActive, XrayAwaits, SingBoxAwaits, flags, procs, Goto, Reply, Receive, LeaveXray,
          LeaveSingBox, SetOffline
  <1>1. CASE KillXray(r)  BY <1>1 DEF KillXray
  <1>2. CASE StopSingBox(r)  BY <1>2 DEF StopSingBox
  <1>3. CASE SingBoxStopped(r)  BY <1>3 DEF SingBoxStopped
  <1>4. CASE StopSingBoxFails(r)  BY <1>4 DEF StopSingBoxFails
  <1>5. CASE ReportStopped(r)  BY <1>5 DEF ReportStopped
  <1> QED BY <1>1, <1>2, <1>3, <1>4, <1>5
          DEF StopStep

LEMMA StageProcess ==
  ASSUME Types, OnlyIntegrationsFail, NEW r \in Requests, Stage(r), ProcessStep
  PROVE  Stage(r)'
  <1>1. FetchConfig
    BY DEF ProcessStep, CrashXray, CrashSingBox, OnlyIntegrationsFail
  <1> QED
    BY <1>1, ConfigsDisjoint, StatusesDistinct
    DEF FetchConfig, local, flags, Types, TypeOK, Configs, Stage, XrayStage, SingBoxStage, StopStage,
        BothDown, NothingUp, XrayUp, SingBoxUp, XrayServes, SingBoxServes, SingBoxActive

\* With requests that follow each other, and as long as what fails are the
\* integrations alone, the health check names the core that runs between them,
\* and no other runs: whatever the order of starts, switches and stops.
THEOREM HealthReportTrue ==
  ASSUME OneRequest, OnlyIntegrationsFail
  PROVE  Spec => []HealthReportExact
  <1> DEFINE HealthInv == Types /\ XrayGuarded /\ SingBoxGuarded /\ Stages
  <1>1. Init => HealthInv
    BY TypeInit, GuardedInit
    DEF Init, Stages, Stage, XrayStage, SingBoxStage, StopStage, NothingUp, BothDown
  <1>2. HealthInv /\ [Next]_vars => HealthInv'
    <2> SUFFICES ASSUME HealthInv, [Next]_vars PROVE HealthInv'  OBVIOUS
    <2>1. Types' /\ XrayGuarded' /\ SingBoxGuarded'
      BY TypesStep, GuardedStep
    <2>2. PICK r : Requests = {r}
      BY DEF OneRequest
    <2>3. Stage(r)
      BY <2>2 DEF Stages
    <2>4. Stage(r)'
      <3>1. CASE UNCHANGED vars
        BY <2>3, <3>1
        DEF vars, local, flags, procs, Stage, XrayStage, SingBoxStage, StopStage, BothDown, NothingUp,
            XrayUp, SingBoxUp, XrayServes, SingBoxServes, SingBoxActive
      <3>2. CASE Next
        BY <2>2, <2>3, <3>2, StageReceive, StageXray, StageSingBox, StageStop, StageProcess
        DEF Next, ServeStep
      <3> QED BY <3>1, <3>2
    <2> QED BY <2>1, <2>2, <2>4 DEF Stages
  <1>3. HealthInv => HealthReportExact
    BY StatusesDistinct
    DEF OneRequest, Stages, Stage, StopStage, Quiet, HealthReportExact, XrayUp, SingBoxUp, NothingUp,
        BothDown, SingBoxActive
  <1> QED BY <1>1, <1>2, <1>3, PTL DEF Spec
=============================================================================
