--------------------------- MODULE FirmwareProofs ---------------------------
(***************************************************************************)
(* What holds of the controller through every reset, and what the three    *)
(* services, which do not lock one another out, guarantee together.        *)
(*                                                                         *)
(* Two of the properties fail when users interfere (runs write_skew and    *)
(* fault_leaves_zone), so their theorems say which requests must not come. *)
(* Without those requests the program service is the only one to open      *)
(* zones, or the only one to use them at all, and it is the program's lock *)
(* that keeps the operations of the other two services apart.              *)
(*                                                                         *)
(* FirmwareInv is about one boot after another; NoSkewInv and ScheduledInv *)
(* are about the tasks while they run.                                     *)
(***************************************************************************)
EXTENDS Firmware, ControllerProofs

NoZoneOpen == \A z \in Zones : zoneState[z] # "OPEN"

MasterClosePcs  == {"close_lock", "close_check", "close_begin", "close_drive"}
CloseWaitPcs    == {"finish_wait", "fault_wait", "abort_master_wait"}

\* Who opens a zone or closes the master valve does it for a program.
CallersInv ==
    \A t \in Tasks :
        /\ zonePc[t] \in OpenPcs \/ (zonePc[t] = "lock" /\ zoneOp[t] = "open")
              => programPc[t] = "open_zone_wait"
        /\ masterPc[t] \in MasterClosePcs => programPc[t] \in CloseWaitPcs

\* What each of the two, between its last check and its write, may rely on.
SkewInv ==
    \A t \in Tasks :
        /\ zonePc[t] = "open_commit" => masterState \notin {"CLOSED", "CLOSING"}
        /\ masterPc[t] \in {"close_begin", "close_drive"} => NoZoneOpen

NoSkewInv == CallersInv /\ SkewInv /\ NoOpenZoneBehindClosedMaster

\* Users open no zone and close no master valve.
NoManualOpenOrClose == Requests \cap {"zone_open", "master_close"} = {}

\* An opening and a closing exclude each other: each has the program lock.
LEMMA OpeningExcludesClosing ==
    ASSUME ProgramInv, CallersInv, NEW t \in Tasks, NEW u \in Tasks,
           zonePc[t] \in OpenPcs, masterPc[u] \in MasterClosePcs
    PROVE  FALSE
<1>1. programPc[t] = "open_zone_wait" /\ programPc[u] \in CloseWaitPcs
  BY DEF CallersInv
<1>2. programLock = t /\ programLock = u
  BY <1>1 DEF ProgramInv, ProgramLockIsOwned, ProgramLockedPcs, ProgramWaitPcs, CloseWaitPcs
<1>. QED  BY <1>1, <1>2 DEF CloseWaitPcs

\* A task that goes on with an opening goes on being at open_zone_wait.
LEMMA CallersZoneStep ==
    ASSUME ZoneInv, CallersInv, NEW t \in Tasks, ZoneServiceStep(t),
           UNCHANGED <<allMasterVars, allProgramVars>>
    PROVE  CallersInv'
<1>. USE DEF CallersInv, OpenPcs, ZoneGoto, ZoneReturn, ZoneCallUnchanged, allMasterVars,
             allProgramVars, masterServiceVars, programServiceVars, ZoneInv, ZoneTypeOK
<1>1. CASE AcquireZoneLock(t) \/ RejectZoneCall(t)
  BY <1>1 DEF AcquireZoneLock, ZoneFirstPc, RejectZoneCall
<1>2. CASE \/ OpenCheck(t)   \/ OpenCheckRejects(t)
           \/ OpenPrepare(t) \/ OpenPrepareRejects(t)
           \/ OpenConfirm(t) \/ OpenDrive(t)
           \/ OpenUndo(t)    \/ OpenWithdraw(t)
           \/ OpenCommit(t)
  BY <1>2 DEF OpenCheck, OpenCheckRejects, OpenPrepare, OpenPrepareRejects,
              OpenConfirm, OpenDrive, OpenUndo, OpenWithdraw, OpenCommit
<1>3. CASE \/ CloseCheck(t)  \/ CloseCheckRejects(t)
           \/ CloseDrive(t)  \/ CloseCommit(t)
           \/ FaultZone(t)   \/ LoopStart(t) \/ LoopNext(t) \/ LoopEnd(t)
  BY <1>3 DEF CloseCheck, CloseCheckRejects, CloseDrive, CloseCommit, FaultZone,
              ReturnFromClose, LoopStart, LoopNext, LoopEnd
<1>. QED  BY <1>1, <1>2, <1>3 DEF ZoneServiceStep, DriverCall, OtherZoneStep

\* The same of the closing of the master valve.
LEMMA CallersMasterStep ==
    ASSUME MasterTypeOK, CallersInv, NEW t \in Tasks, MasterServiceStep(t),
           UNCHANGED <<allZoneVars, allProgramVars>>
    PROVE  CallersInv'
  BY DEF CallersInv, MasterTypeOK, allZoneVars, allProgramVars, zoneServiceVars,
         programServiceVars, MasterServiceStep, MasterDrive, DriverIsCalled,
         DriverConfirmed, DriverFailed, OtherMasterStep, AcquireMasterLock,
         RejectMasterCall, MasterOpenCheck, MasterOpenRejects, MasterProcessTime,
         MasterCloseCheck, MasterCloseRejects, MasterCloseBegin, MasterGoto, MasterReturn,
         MasterClosePcs, MasterCallPcs, MasterFirstPc

\* The program service waits for what it has called.
LEMMA CallersProgramStep ==
    ASSUME ZoneInv, MasterTypeOK, ProgramInv, CallersInv,
           NEW t \in Tasks, ProgramServiceStep(t)
    PROVE  CallersInv'
<1>. USE DEF CallersInv, OpenPcs, MasterClosePcs, CloseWaitPcs, ZoneInv, ZoneTypeOK,
             MasterTypeOK, ProgramInv, ProgramTypeOK, ProgramGoto, ProgramReturn,
             FinishAndReturn, CallZone, ZoneReturned, ZoneGoto, CallMaster, MasterReturned,
             MasterGoto, MasterLockPc, allZoneVars, allMasterVars, zoneServiceVars,
             masterServiceVars
<1>1. CASE \/ CheckActive(t) /\ UNCHANGED <<allZoneVars, allMasterVars>>
           \/ AcquireProgramLock(t) /\ UNCHANGED <<allZoneVars, allMasterVars>>
           \/ RejectProgramCall(t) /\ UNCHANGED <<allZoneVars, allMasterVars>>
  BY <1>1 DEF CheckActive, AcquireProgramLock, RejectProgramCall, ProgramCallPcs,
              ProgramLockPcs
<1>2. CASE (StartBegin(t) \/ StartRejected(t) \/ StartOpened(t)) /\ UNCHANGED allZoneVars
  BY <1>2 DEF StartBegin, StartRejected, StartOpened
<1>3. CASE \/ ProcessNothing(t) \/ ProcessWaitingMaster(t) \/ MasterTimeProcessed(t)
           \/ MasterRead(t) \/ ProcessPostDelayElapsed(t) \/ ProgramFinished(t)
  BY <1>3 DEF ProcessNothing, ProcessWaitingMaster, MasterTimeProcessed,
              MasterRead, ProcessPostDelayElapsed, ProgramFinished
<1>4. CASE \/ OpenCurrentZone(t)    \/ CurrentZoneOpened(t)
           \/ ProcessStepElapsed(t) \/ StepZoneClosed(t)
  BY <1>4 DEF OpenCurrentZone, CurrentZoneOpened, ProcessStepElapsed, StepZoneClosed
<1>5. CASE FaultCloseMaster(t) \/ FaultMasterClosed(t) \/ FaultLeaveMaster(t)
  BY <1>5 DEF FaultCloseMaster, FaultMasterClosed, FaultLeaveMaster
<1>6. CASE \/ AbortZone(t) \/ AbortNoZone(t) \/ AbortZoneClosed(t) \/ AbortCloseMaster(t)
           \/ AbortMasterAlreadyClosed(t) \/ AbortMasterClosed(t)
  BY <1>6 DEF AbortZone, AbortNoZone, AbortZoneClosed, AbortCloseMaster,
              AbortMasterAlreadyClosed, AbortMasterClosed
<1>. QED  BY <1>1, <1>2, <1>3, <1>4, <1>5, <1>6 DEF ProgramServiceStep

\* Nobody but the program service opens a zone or closes the master valve.
LEMMA CallersNext ==
    ASSUME NoManualOpenOrClose, ZoneInv, MasterTypeOK, ProgramInv, CallersInv, [Next]_vars
    PROVE  CallersInv'
<1>. USE ControllerAssumption DEF CallersInv, OpenPcs, MasterClosePcs, CloseWaitPcs,
                                  allZoneVars, allMasterVars, allProgramVars,
                                  zoneServiceVars, masterServiceVars, programServiceVars
<1>1. ASSUME NEW t \in Tasks, ServiceStep(t) PROVE CallersInv'
  BY <1>1, CallersZoneStep, CallersMasterStep, CallersProgramStep DEF ServiceStep
<1>2. CASE SchedStep
  BY <1>2 DEF SchedStep, SchedMasterTime, SchedMasterTimeDone, SchedProcess, SchedNoProgram,
              SchedProcessDone, SchedSkipBusy, SchedStart, SchedStartDone, SchedRoundEnds,
              CallMaster, MasterReturned, MasterGoto, MasterLockPc, CallProgram,
              ProgramReturned, ProgramGoto, ZoneInv, ZoneTypeOK, MasterTypeOK, ProgramInv,
              ProgramTypeOK
<1>3. CASE HttpHandler
  BY <1>3 DEF NoManualOpenOrClose, HttpHandler, Receive, ZoneHandler, MasterHandler,
              ProgramHandler, CallZone, ZoneGoto, CallMaster, MasterGoto, MasterLockPc,
              CallProgram, ProgramGoto, ZoneInv, ZoneTypeOK, MasterTypeOK, ProgramInv,
              ProgramTypeOK
<1>4. CASE Respond
  BY <1>4 DEF Respond, ZoneReturned, ZoneGoto, MasterReturned, MasterGoto, ProgramReturned,
              ProgramGoto, ZoneInv, ZoneTypeOK, MasterTypeOK, ProgramInv, ProgramTypeOK
<1>5. CASE MasterDelayElapses \/ ProgramDelayElapses \/ RemoteValveActs \/ UNCHANGED vars
  BY <1>5 DEF MasterDelayElapses, ProgramDelayElapses, RemoteValveActs, RemoteValveWorks,
              vars
<1>. QED  BY <1>1, <1>2, <1>3, <1>4, <1>5 DEF Next, SchedTask, HttpTask

\* The last check of an opening reads the master valve, which nobody closes before
\* the zone is recorded open.
LEMMA SkewZoneStep ==
    ASSUME ZoneInv, ProgramInv, NoSkewInv, NEW t \in Tasks, ZoneServiceStep(t),
           UNCHANGED <<allMasterVars, allProgramVars>>
    PROVE  SkewInv' /\ NoOpenZoneBehindClosedMaster'
<1>. USE DEF NoSkewInv, SkewInv, NoOpenZoneBehindClosedMaster, NoZoneOpen, ZoneInv,
             ZoneTypeOK, ZoneGoto, ZoneReturn, allMasterVars, storeMasterVars,
             masterServiceVars, storeZoneVars
<1>1. CASE OpenConfirm(t)
  BY <1>1 DEF OpenConfirm, CanOpenZone
<1>2. CASE OpenCommit(t)
  <2>1. \A u \in Tasks : masterPc[u] \notin {"close_begin", "close_drive"}
    BY <1>2, OpeningExcludesClosing DEF OpenCommit, OpenPcs, MasterClosePcs
  <2>. QED  BY <1>2, <2>1 DEF OpenCommit, WriteZoneOpen
<1>3. CASE ~OpenConfirm(t) /\ ~OpenCommit(t)
  <2>1. \A u \in Tasks : zonePc'[u] = "open_commit" => zonePc[u] = "open_commit"
    BY <1>3 DEF ZoneServiceStep, DriverCall, OtherZoneStep, AcquireZoneLock, ZoneFirstPc,
                RejectZoneCall, OpenCheck, OpenCheckRejects, OpenPrepare,
                OpenPrepareRejects, OpenDrive, OpenUndo, OpenWithdraw, CloseCheck,
                CloseCheckRejects, CloseDrive, CloseCommit, FaultZone, ReturnFromClose,
                LoopStart, LoopNext, LoopEnd
  <2>2. \A z \in Zones : zoneState'[z] = "OPEN" => zoneState[z] = "OPEN"
    BY <1>3 DEF ZoneServiceStep, DriverCall, OtherZoneStep, AcquireZoneLock, RejectZoneCall,
                OpenCheck, OpenCheckRejects, OpenPrepare, OpenPrepareRejects, OpenDrive,
                OpenUndo, OpenWithdraw, CloseCheck, CloseCheckRejects, CloseDrive,
                CloseCommit, CloseZone, FaultZone, RecordZoneActuationFault, LoopStart,
                LoopNext, LoopEnd
  <2>. QED  BY <2>1, <2>2
<1>. QED  BY <1>1, <1>2, <1>3

\* The check of a closing reads the outputs, and nobody opens a zone before the
\* valve is recorded closed.
LEMMA SkewMasterStep ==
    ASSUME ZoneInv, MasterTypeOK, ProgramInv, NoSkewInv,
           NEW t \in Tasks, MasterServiceStep(t), UNCHANGED <<allZoneVars, allProgramVars>>
    PROVE  SkewInv' /\ NoOpenZoneBehindClosedMaster'
<1>. USE DEF NoSkewInv, SkewInv, NoOpenZoneBehindClosedMaster, NoZoneOpen, MasterTypeOK,
             MasterGoto, MasterReturn, allZoneVars, storeMasterVars, zoneServiceVars,
             storeZoneVars
<1>1. CASE MasterCloseCheck(t)
  <2>1. NoZoneOpen
    BY <1>1 DEF MasterCloseCheck, MasterValveCloseIsEligible, HasActiveOrUnknownOutput,
                ZoneInv, ZoneTypeOK, OutputMatchesZone
  <2>. QED  BY <1>1, <2>1 DEF MasterCloseCheck
<1>2. CASE MasterCloseBegin(t) \/ (MasterDrive(t) /\ masterPc[t] = "close_drive")
  <2>1. \A u \in Tasks : zonePc[u] # "open_commit"
    BY <1>2, OpeningExcludesClosing DEF MasterCloseBegin, OpenPcs, MasterClosePcs
  <2>. QED  BY <1>2, <2>1 DEF MasterCloseBegin, WriteMasterValveClosing, MasterDrive,
                              DriverConfirmed, CompleteMasterValveClose, DriverFailed,
                              RecordMasterValveFault
<1>3. CASE /\ ~MasterCloseCheck(t) /\ ~MasterCloseBegin(t)
           /\ ~(MasterDrive(t) /\ masterPc[t] = "close_drive")
  <2>1. \A u \in Tasks :
           masterPc'[u] \in {"close_begin", "close_drive"} => masterPc'[u] = masterPc[u]
    BY <1>3, MasterPcsCover DEF MasterServiceStep, MasterDrive, DriverConfirmed,
                                DriverFailed, OtherMasterStep, AcquireMasterLock,
                                RejectMasterCall, MasterOpenCheck, MasterOpenRejects,
                                MasterProcessTime, MasterCloseRejects
  <2>2. masterState' \in {"OPENING", "OPEN", "FAULT"} \/ masterState' = masterState
    BY <1>3 DEF MasterServiceStep, MasterDrive, DriverConfirmed, DriverFailed,
                OtherMasterStep, AcquireMasterLock, RejectMasterCall, MasterOpenCheck,
                MasterOpenRejects, MasterProcessTime, MasterCloseRejects,
                BeginMasterValveOpen, CompleteMasterValvePreOpenDelay,
                RecordMasterValveFault
  <2>. QED  BY <2>1, <2>2
<1>. QED  BY <1>1, <1>2, <1>3 

\* All the others do with either service is to enter calls and to collect results.
LEMMA OutsideTheServices ==
    ASSUME ZoneInv, MasterTypeOK, ProgramInv, [Next]_vars
    PROVE  \/ \E t \in Tasks :
                 ZoneServiceStep(t) /\ UNCHANGED <<allMasterVars, allProgramVars>>
           \/ \E t \in Tasks :
                 MasterServiceStep(t) /\ UNCHANGED <<allZoneVars, allProgramVars>>
           \/ /\ UNCHANGED <<storeZoneVars, zoneLock, relays, masterState>>
              /\ \A t \in Tasks : zonePc'[t] \in {zonePc[t], "idle", "lock"}
              /\ \A t \in Tasks : masterPc'[t] \in {masterPc[t], "idle"} \cup MasterCallPcs
<1>. DEFINE Aside == 
        /\ UNCHANGED <<storeZoneVars, zoneLock, relays, masterState>>
        /\ \A t \in Tasks : zonePc'[t] \in {zonePc[t], "idle", "lock"}
        /\ \A t \in Tasks : masterPc'[t] \in {masterPc[t], "idle"} \cup MasterCallPcs
<1>. USE ControllerAssumption DEF ZoneInv, ZoneTypeOK, MasterTypeOK, allZoneVars, zoneVars,
                                  zoneServiceVars, allMasterVars, masterVars,
                                  masterServiceVars, storeMasterVars, storeZoneVars,
                                  CallZone, ZoneReturned, ZoneGoto, CallMaster,
                                  MasterReturned, MasterGoto
<1>1. ASSUME NEW t \in Tasks, ProgramServiceStep(t)
      PROVE  Aside
  <2>1. /\ UNCHANGED <<storeZoneVars, zoneLock, relays>>
        /\ \A u \in Tasks : zonePc'[u] \in {zonePc[u], "idle", "lock"}
    BY <1>1, ProgramIsZoneClient DEF ZoneClient
  <2>2. /\ UNCHANGED masterState
        /\ \A u \in Tasks : masterPc'[u] \in {masterPc[u], "idle"} \cup MasterCallPcs
    BY <1>1, ProgramIsMasterClient, MasterPcsCover DEF MasterClient
  <2>. QED  BY <2>1, <2>2
<1>2. CASE SchedStep
  BY <1>2, MasterPcsCover DEF MasterOps, SchedStep, SchedMasterTime, SchedMasterTimeDone,
                              SchedProcess, SchedNoProgram, SchedProcessDone, SchedSkipBusy,
                              SchedStart, SchedStartDone, SchedRoundEnds
<1>3. CASE HttpHandler
  BY <1>3, MasterPcsCover DEF MasterOps, HttpHandler, ZoneHandler, MasterHandler,
                              ProgramHandler
<1>4. CASE Respond
  BY <1>4 DEF Respond
<1>5. CASE MasterDelayElapses \/ ProgramDelayElapses \/ RemoteValveActs \/ UNCHANGED vars
  BY <1>5 DEF MasterDelayElapses, PreOpenDelayElapses, ProgramDelayElapses, RemoteValveActs,
              RemoteValveWorks, vars
<1>. QED  BY <1>1, <1>2, <1>3, <1>4, <1>5 DEF Next, SchedTask, HttpTask, ServiceStep

\* NoSkewInv is inductive while the tasks run.
LEMMA SkewNext ==
    ASSUME NoManualOpenOrClose, ZoneInv, MasterTypeOK, ProgramInv, NoSkewInv, [Next]_vars
    PROVE  NoSkewInv'
<1>1. CallersInv'
  BY CallersNext DEF NoSkewInv
<1>2. ASSUME NEW t \in Tasks, ZoneServiceStep(t), 
             UNCHANGED <<allMasterVars, allProgramVars>>
      PROVE  NoSkewInv'
  BY <1>1, <1>2, SkewZoneStep DEF NoSkewInv
<1>3. ASSUME NEW t \in Tasks, MasterServiceStep(t), 
             UNCHANGED <<allZoneVars, allProgramVars>>
      PROVE  NoSkewInv'
  BY <1>1, <1>3, SkewMasterStep DEF NoSkewInv
<1>4. CASE /\ UNCHANGED <<storeZoneVars, zoneLock, relays, masterState>>
           /\ \A t \in Tasks : zonePc'[t] \in {zonePc[t], "idle", "lock"}
           /\ \A t \in Tasks : masterPc'[t] \in {masterPc[t], "idle"} \cup MasterCallPcs
  BY <1>1, <1>4 DEF NoSkewInv, SkewInv, NoOpenZoneBehindClosedMaster, NoZoneOpen,
                    storeZoneVars, MasterCallPcs
<1>. QED  BY <1>1, <1>2, <1>3, <1>4, OutsideTheServices

-----------------------------------------------------------------------------
(* From one reset to the next. *)

\* The memory while app_main is at work: nobody has called anything yet.
AtRest ==
    /\ outputState = [z \in Zones |-> "OFF"]
    /\ masterState = "CLOSED"
    /\ preOpenElapsed = FALSE
    /\ programState = "IDLE"
    /\ stepIndex = 0
    /\ stepElapsed = FALSE
    /\ zoneLock = NoTask
    /\ zonePc = [t \in Tasks |-> "idle"]
    /\ zoneOp = [t \in Tasks |-> "none"]
    /\ zoneArg = [t \in Tasks |-> NoZone]
    /\ todo = [t \in Tasks |-> {}]
    /\ closeFailed = [t \in Tasks |-> FALSE]
    /\ zoneElapsed = [z \in Zones |-> FALSE]
    /\ masterLock = NoTask
    /\ masterPc = [t \in Tasks |-> "idle"]
    /\ ProgramServiceInit
    /\ schedPc = "master_time"
    /\ due = {}
    /\ request = "none"

\* What app_main has done so far.
BootProgress ==
    /\ bootPc \in {"outputs", "unsafe", "ready"} =>
          systemState = "BOOT" /\ zoneState = [z \in Zones |-> "ABSENT"]
    /\ bootPc = "zones" =>
          systemState = "READY" /\ zoneState = [z \in Zones |-> "ABSENT"]
    /\ bootPc \in {"scheduler", "halted"} =>
          systemState = "READY" /\ zoneState = ConfiguredZones
    /\ bootPc \in {"ready", "zones", "scheduler", "halted"} => relays = {}

\* Before the tasks run the services are at rest; while they run the services keep
\* their invariants, with no lock of the last boot and no call of it under way.
\* MasterInv holds in both: it says nothing of a valve recorded CLOSED.
FirmwareInv ==
    /\ bootPc \in BootPcs
    /\ bootPc # "running" => AtRest /\ BootProgress
    /\ bootPc = "running" => ZoneInv /\ ProgramInv /\ PlaceInv
    /\ MasterInv
    /\ relays \subseteq Zones
    /\ OneRelayEnergised

\* Power-up.
LEMMA FirmwareInitInv == FirmwareInit => FirmwareInv
<1>. SUFFICES ASSUME FirmwareInit PROVE FirmwareInv
  OBVIOUS
<1>. USE DEF FirmwareInit, StoreInit, ZoneServiceInit, MasterServiceInit
<1>1. AtRest
  BY DEF AtRest
<1>2. bootPc \in BootPcs /\ bootPc = "outputs" /\ BootProgress
  BY DEF BootPcs, BootProgress
<1>3. MasterInv
  BY TasksAssumption DEF MasterInv, MasterTypeOK, MasterStates, MasterPcs, MasterLockIsOwned,
                         MasterLockedPcs, MasterHolderInv, RemoteValveIsKnown,
                         ClosingIsInProgress
<1>4. relays \subseteq Zones /\ OneRelayEnergised
  BY DEF OneRelayEnergised
<1>. QED  BY <1>1, <1>2, <1>3, <1>4 DEF FirmwareInv

\* What app_main leaves behind when it starts the tasks.
LEMMA StartedInv ==
    ASSUME AtRest, relays = {}, systemState = "READY", zoneState = ConfiguredZones
    PROVE  ZoneInv /\ ProgramInv /\ PlaceInv
<1>1. ZoneInit
  BY DEF ZoneInit, ZoneStoreBooted, ZoneServiceInit, AtRest, MasterStates
<1>2. ProgramInv
  BY TasksAssumption, StoreAssumption
  DEF AtRest, ProgramServiceInit, ProgramInv, ProgramTypeOK, ProgramLockIsOwned,
      ProgramStates, ProgramPcs, ProgramLockedPcs, ProgramWaitPcs, SchedPcs, OuterPcs
<1>3. PlaceInv
  BY DEF AtRest, ProgramServiceInit, PlaceInv
<1>. QED  BY <1>1, <1>2, <1>3, ZoneInitInv

\* A reset from whatever state.
LEMMA ResetInv ==
    ASSUME FirmwareInv, Reset
    PROVE  FirmwareInv'
<1>1. MasterInv'
  BY TasksAssumption DEF Reset, MasterInv, MasterTypeOK, MasterStates, MasterPcs,
                         MasterLockIsOwned, MasterLockedPcs, MasterHolderInv,
                         RemoteValveIsKnown, ClosingIsInProgress
<1>. QED  BY <1>1 DEF Reset, FirmwareInv, AtRest, ProgramServiceInit, BootProgress, BootPcs,
                      OneRelayEnergised

\* The steps of app_main.
LEMMA BootStepInv ==
    ASSUME FirmwareInv, BootStep
    PROVE  FirmwareInv'
<1>. USE DEF FirmwareInv, BootProgress, BootGoto, BootPcs
<1>1. UNCHANGED allMasterVars
  BY DEF BootStep, SwitchOutputsOff, EnterReady, BootZones, UnchangedInBoot, StartTasks, vars
<1>2. MasterInv'
  BY <1>1 DEF allMasterVars, storeMasterVars, masterServiceVars, MasterInv, MasterTypeOK,
              MasterLockIsOwned, MasterHolderInv, RemoteValveIsKnown, ClosingIsInProgress
<1>3. CASE SwitchOutputsOff
  BY <1>2, <1>3 DEF SwitchOutputsOff, AtRest, ProgramServiceInit, OneRelayEnergised,
              storeZoneVars, allMasterVars, storeMasterVars, masterServiceVars,
              allProgramVars, storeProgramVars, programServiceVars, taskVars
<1>4. CASE EnterReady \/ BootZones
  BY <1>2, <1>4 DEF EnterReady, TransitionSystem, BootZones, ConfigureZones, ConfiguredZones,
              UnchangedInBoot, AtRest, ProgramServiceInit, OneRelayEnergised,
              zoneServiceVars, allMasterVars, storeMasterVars, masterServiceVars,
              allProgramVars, storeProgramVars, programServiceVars, taskVars
<1>5. CASE StartTasks
  <2>1. /\ AtRest' /\ OneRelayEnergised'
        /\ relays' = {} /\ systemState' = "READY" /\ zoneState' = ConfiguredZones
    BY <1>5 DEF StartTasks, AtRest, ProgramServiceInit, OneRelayEnergised,
                vars, allZoneVars, storeZoneVars, zoneServiceVars, allMasterVars,
                storeMasterVars, masterServiceVars, allProgramVars, storeProgramVars,
                programServiceVars, taskVars
  <2>2. ZoneInv /\ ProgramInv /\ PlaceInv
    BY <1>5, StartedInv DEF StartTasks
  <2>3. ZoneInv' /\ ProgramInv' /\ PlaceInv'
    BY <1>5, <2>2, ZoneStepRefined, ZoneNextInv, ProgramNextInv, PlaceNextInv DEF StartTasks
  <2>. QED  BY <1>2, <1>5, <2>1, <2>3 DEF StartTasks
<1>. QED  BY <1>3, <1>4, <1>5 DEF BootStep

\* FirmwareInv is inductive.
LEMMA FirmwareNextInv == FirmwareInv /\ [FirmwareNext]_firmwareVars => FirmwareInv'
<1>. SUFFICES ASSUME FirmwareInv, [FirmwareNext]_firmwareVars PROVE FirmwareInv'
  OBVIOUS
<1>1. CASE bootPc = "running" /\ [Next]_vars /\ UNCHANGED bootPc
  <2>1. ZoneInv' /\ ProgramInv' /\ PlaceInv' /\ MasterInv'
    BY <1>1, ZoneStepRefined, ZoneNextInv, MasterStepRefined, MasterNextInv,
       ProgramNextInv, PlaceNextInv
    DEF FirmwareInv, MasterInv
  <2>2. OneRelayEnergised' /\ relays' \subseteq Zones
    <3>1. ZoneInv' => OneRelayEnergised'
      BY ZoneInvOneRelay, PTL
    <3>. QED  BY <2>1, <3>1 DEF ZoneInv, ZoneTypeOK
  <2>. QED  BY <1>1, <2>1, <2>2 DEF FirmwareInv, BootPcs
<1>2. CASE bootPc # "running" /\ UNCHANGED firmwareVars
  BY <1>2 DEF FirmwareInv, AtRest, ProgramServiceInit, BootProgress, MasterInv,
              MasterTypeOK, MasterLockIsOwned, MasterHolderInv, RemoteValveIsKnown,
              ClosingIsInProgress, OneRelayEnergised, firmwareVars, vars, allZoneVars, storeZoneVars,
              zoneServiceVars, allMasterVars, storeMasterVars, masterServiceVars,
              allProgramVars, storeProgramVars, programServiceVars, taskVars
<1>. QED  BY <1>1, <1>2, ResetInv, BootStepInv DEF FirmwareNext, firmwareVars, FirmwareInv

\* FirmwareInv is an invariant, whatever the requests.
LEMMA FirmwareInvariant == FirmwareSpec => []FirmwareInv
  BY FirmwareInitInv, FirmwareNextInv, PTL DEF FirmwareSpec

\* The one-active-zone rule on the board is kept through resets at any moment, with
\* relays left as the last boot had them and an app_main that may fail.
THEOREM FirmwareOneActiveZone == FirmwareSpec => []OneRelayEnergised
<1>1. FirmwareInv => OneRelayEnergised
  BY DEF FirmwareInv
<1>. QED  BY <1>1, FirmwareInvariant, PTL

\* A master valve recorded OPENING or OPEN is open, through resets that find it as
\* it was left and record it CLOSED unasked.
THEOREM FirmwareValveIsKnown == FirmwareSpec => []RemoteValveIsKnown
<1>1. FirmwareInv => RemoteValveIsKnown
  BY DEF FirmwareInv, MasterInv
<1>. QED  BY <1>1, FirmwareInvariant, PTL

\* After an actuation fault nothing is energised any more: not by a reset either,
\* nor while app_main is at work.
THEOREM FirmwareFaultStopsIrrigation == FirmwareSpec => NothingEnergisedAfterFault
<1>1. FirmwareInv /\ [FirmwareNext]_firmwareVars
        => [systemState = "ERROR" => relays' \subseteq relays]_zoneVars
  <2>. SUFFICES ASSUME FirmwareInv, [FirmwareNext]_firmwareVars, systemState = "ERROR"
                PROVE  [relays' \subseteq relays]_zoneVars
    OBVIOUS
  <2>1. CASE bootPc = "running" /\ [Next]_vars
    BY <2>1, ZoneStepRefined, FaultStopsStep DEF FirmwareInv
  <2>2. CASE Reset
    BY <2>2 DEF Reset
  <2>3. CASE bootPc # "running"
    BY <2>3 DEF FirmwareInv, BootPcs, BootProgress
  <2>4. CASE BootStep \/ UNCHANGED firmwareVars
    BY <2>4 DEF BootStep, SwitchOutputsOff, EnterReady, BootZones, UnchangedInBoot, StartTasks,
                firmwareVars, vars, allZoneVars, zoneServiceVars
  <2>. QED  BY <2>1, <2>2, <2>3, <2>4 DEF FirmwareNext
<1>. QED
  BY <1>1, FirmwareInvariant, PTL DEF FirmwareSpec, NothingEnergisedAfterFault

\* As long as users open no zone and close no master valve by hand, no zone is open
\* behind a master valve recorded closed or closing: the check of an opening and that
\* of a closing (state_store_prepare_zone_open and _begin_master_valve_close), each
\* made without the lock that guards what it reads, never interleave.
THEOREM NoWriteSkewWithoutManualCalls ==
    ASSUME NoManualOpenOrClose
    PROVE  FirmwareSpec => []NoOpenZoneBehindClosedMaster
<1>1. FirmwareInit => NoSkewInv
  BY DEF FirmwareInit, StoreInit, ZoneServiceInit, MasterServiceInit, NoSkewInv, CallersInv,
         SkewInv, NoOpenZoneBehindClosedMaster, NoZoneOpen, OpenPcs, MasterClosePcs
<1>2. FirmwareInv /\ NoSkewInv /\ [FirmwareNext]_firmwareVars => NoSkewInv'
  <2>. SUFFICES ASSUME FirmwareInv, NoSkewInv, [FirmwareNext]_firmwareVars PROVE NoSkewInv'
    OBVIOUS
  <2>1. CASE bootPc = "running" /\ [Next]_vars
    BY <2>1, SkewNext DEF FirmwareInv, MasterInv
  <2>2. CASE Reset
    BY <2>2 DEF Reset, NoSkewInv, CallersInv, SkewInv, NoOpenZoneBehindClosedMaster,
                NoZoneOpen, OpenPcs, MasterClosePcs
  <2>3. CASE bootPc # "running" /\ (BootStep \/ UNCHANGED firmwareVars)
    <3>1. /\ zonePc' = [t \in Tasks |-> "idle"]
          /\ masterPc' = [t \in Tasks |-> "idle"]
          /\ \A z \in Zones : zoneState'[z] # "OPEN"
      BY <2>3 DEF FirmwareInv, BootProgress, AtRest, BootPcs, BootGoto, BootStep,
                  SwitchOutputsOff, EnterReady, TransitionSystem, BootZones, ConfigureZones,
                  ConfiguredZones, StartTasks, UnchangedInBoot, firmwareVars, vars,
                  allZoneVars, storeZoneVars, zoneServiceVars, allMasterVars,
                  masterServiceVars
    <3>. QED  BY <3>1 DEF NoSkewInv, CallersInv, SkewInv, NoOpenZoneBehindClosedMaster,
                         NoZoneOpen, OpenPcs, MasterClosePcs
  <2>. QED  BY <2>1, <2>2, <2>3 DEF FirmwareNext, firmwareVars, BootStep, BootGoto,
                                   SwitchOutputsOff, EnterReady, BootZones, StartTasks
<1>3. NoSkewInv => NoOpenZoneBehindClosedMaster
  BY DEF NoSkewInv
<1>. QED  BY <1>1, <1>2, <1>3, FirmwareInvariant, PTL DEF FirmwareSpec

-----------------------------------------------------------------------------
(* Scheduled irrigation. *)

\* Users operate no zone and start no program; they may abort one, and open and
\* close the master valve.
NoManualIrrigation == Requests \cap {"zone_open", "zone_close", "program_start"} = {}

ZoneWaitPcs == {"open_zone_wait", "close_zone_wait", "abort_zone_wait"}

\* The zone service works for the program service only, on the current step.
ZoneCallerInv ==
    \A t \in Tasks :
        /\ zonePc[t] # "idle" =>
              /\ programPc[t] \in ZoneWaitPcs
              /\ zoneArg[t] \in StepZones
              /\ zoneOp[t] = IF programPc[t] = "open_zone_wait" THEN "open" ELSE "close"
        /\ zonePc[t] \in OpenPcs => programPc[t] = "open_zone_wait"
        /\ zonePc[t] \in ClosePcs => programPc[t] # "open_zone_wait"
        /\ zonePc[t] \notin {"loop_start", "loop"}

\* Programs are started by the scheduler task, and only when none is active.
StartInv ==
    \A t \in Tasks :
        /\ programPc[t] \in {"start_active", "start_lock", "start"} => t = Sched
        /\ programPc[t] \in {"start_lock", "start"} => ~ProgramIsActive

\* An active program has a current step.
StepInv ==
    ProgramIsActive => program \in Programs /\ stepIndex < Len(Steps[program])

\* An open zone is the current step.
OpenZoneInv ==
    \A z \in Zones : zoneState[z] = "OPEN" =>
        /\ z \in StepZones
        /\ programState = "RUNNING_ZONE" \/ \E t \in Tasks : programPc[t] = "open_zone_wait"

\* Where no zone is open.
QuietInv ==
    \A t \in Tasks :
        \/ programPc[t] \in {"open_zone", "fault", "fault_wait",
                             "abort_master", "abort_master_wait"}
        \/ programPc[t] = "open_zone_wait" /\ zonePc[t] # "ok"
        \/ /\ programPc[t] \in {"close_zone_wait", "abort_zone_wait"}
           /\ zonePc[t] \in {"ok", "fail"}
        => NoZoneOpen

ScheduledInv ==
    /\ request \in Requests \cup {"none"}
    /\ ZoneCallerInv
    /\ StartInv
    /\ StepInv
    /\ OpenZoneInv
    /\ QuietInv

\* The current step of an active program is one zone.
LEMMA CurrentStepIsOne ==
    ASSUME StepInv, ProgramIsActive, NEW a \in StepZones, NEW b \in StepZones
    PROVE  a = b
  BY ProgramAssumption DEF StepInv, StepZones

\* While the zone service works for one task, no other is in the program service.
LEMMA ZoneCallerHoldsProgram ==
    ASSUME ProgramInv, ZoneCallerInv, NEW t \in Tasks, zonePc[t] # "idle"
    PROVE  /\ programPc[t] \in ZoneWaitPcs
           /\ \A u \in Tasks : u # t =>
                 programPc[u] \notin ProgramLockedPcs /\ zonePc[u] = "idle"
<1>. USE DEF ProgramInv, ProgramLockIsOwned, ZoneCallerInv, ZoneWaitPcs, ProgramLockedPcs,
             ProgramWaitPcs
<1>1. programPc[t] \in ZoneWaitPcs /\ programLock = t
  OBVIOUS
<1>2. ASSUME NEW u \in Tasks, u # t
      PROVE  programPc[u] \notin ProgramLockedPcs /\ zonePc[u] = "idle"
  BY <1>1, <1>2
<1>. QED  BY <1>1, <1>2

\* The zone service opens and closes nothing but the current step, and a closing
\* leaves no zone open even if it fails.
LEMMA ScheduledZoneStep ==
    ASSUME ZoneInv, ProgramInv, PlaceInv, ScheduledInv, NEW t \in Tasks, ZoneServiceStep(t),
           UNCHANGED <<allProgramVars, request>>
    PROVE  ScheduledInv'
<1>0. zonePc[t] \in LockedPcs \cup {"lock"}
  BY DEF LockedPcs, OpenPcs, ClosePcs, FaultPcs, ZoneGoto, ZoneServiceStep, DriverCall,
         OtherZoneStep, AcquireZoneLock, RejectZoneCall, OpenCheck, OpenCheckRejects,
         OpenPrepare, OpenPrepareRejects, OpenConfirm, OpenCommit, OpenDrive, OpenUndo,
         OpenWithdraw, CloseCheck, CloseCheckRejects, CloseDrive, CloseCommit, FaultZone,
         LoopStart, LoopNext, LoopEnd
<1>1. /\ programPc[t] \in ZoneWaitPcs
      /\ \A u \in Tasks : u # t =>
            programPc[u] \notin ProgramLockedPcs /\ zonePc[u] = "idle"
  BY <1>0, ZoneCallerHoldsProgram DEF ScheduledInv, LockedPcs, OpenPcs, ClosePcs, FaultPcs
<1>2. UNCHANGED <<program, programState, stepIndex, programPc>>
  BY DEF allProgramVars, storeProgramVars, programServiceVars
<1>3. ProgramIsActive' = ProgramIsActive /\ StepZones' = StepZones
  BY <1>2 DEF ProgramIsActive, StepZones
<1>4. request' \in Requests \cup {"none"} /\ StartInv' /\ StepInv'
  BY <1>2, <1>3 DEF ScheduledInv, StartInv, StepInv
<1>5. ZoneCallerInv'
  <2>. USE <1>1, <1>2, <1>3 DEF ScheduledInv, ZoneCallerInv, ZoneWaitPcs, OpenPcs, ClosePcs,
                                FaultPcs, ZoneInv, ZoneTypeOK, ZoneGoto, ZoneReturn,
                                ZoneCallUnchanged
  <2>1. CASE AcquireZoneLock(t) \/ RejectZoneCall(t)
    BY <2>1 DEF AcquireZoneLock, ZoneFirstPc, RejectZoneCall
  <2>2. CASE \/ OpenCheck(t)   \/ OpenCheckRejects(t)
             \/ OpenPrepare(t) \/ OpenPrepareRejects(t)
             \/ OpenConfirm(t) \/ OpenDrive(t)
             \/ OpenUndo(t)    \/ OpenWithdraw(t)
             \/ OpenCommit(t)
    BY <2>2 DEF OpenCheck, OpenCheckRejects, OpenPrepare, OpenPrepareRejects,
                OpenConfirm, OpenDrive, OpenUndo, OpenWithdraw, OpenCommit
  <2>3. CASE \/ CloseCheck(t)  \/ CloseCheckRejects(t)
             \/ CloseDrive(t)  \/ CloseCommit(t)
             \/ FaultZone(t)   \/ LoopStart(t) \/ LoopNext(t) \/ LoopEnd(t)
    BY <2>3 DEF CloseCheck, CloseCheckRejects, CloseDrive, CloseCommit, FaultZone,
                ReturnFromClose, LoopStart, LoopNext, LoopEnd
  <2>. QED  BY <2>1, <2>2, <2>3 DEF ZoneServiceStep, DriverCall, OtherZoneStep
<1>6. CASE OpenCommit(t)
  <2>1. /\ programPc[t] = "open_zone_wait" /\ zoneArg[t] \in StepZones
        /\ zonePc'[t] = "ok"
        /\ \A z \in Zones :
              zoneState'[z] = "OPEN" => zoneState[z] = "OPEN" \/ z = zoneArg[t]
    BY <1>6 DEF OpenCommit, WriteZoneOpen, ZoneReturn, ScheduledInv, ZoneCallerInv, OpenPcs,
                ZoneInv, ZoneTypeOK
  <2>2. OpenZoneInv'
    BY <1>2, <1>3, <2>1 DEF ScheduledInv, OpenZoneInv
  <2>3. QuietInv'
    BY <1>1, <1>2, <2>1 DEF ScheduledInv, QuietInv, ZoneWaitPcs, ProgramLockedPcs,
                            ProgramWaitPcs
  <2>. QED  BY <1>4, <1>5, <2>2, <2>3 DEF ScheduledInv
<1>7. CASE ~OpenCommit(t)
  <2>1. \A z \in Zones : zoneState'[z] = "OPEN" => zoneState[z] = "OPEN"
    BY <1>7 DEF ZoneInv, ZoneTypeOK, storeZoneVars, ZoneServiceStep, DriverCall,
                OtherZoneStep, AcquireZoneLock, RejectZoneCall, OpenCheck, OpenCheckRejects,
                OpenPrepare, OpenPrepareRejects, OpenConfirm, OpenDrive, OpenUndo,
                OpenWithdraw, CloseCheck, CloseCheckRejects, CloseDrive, CloseCommit,
                CloseZone, FaultZone, RecordZoneActuationFault, LoopStart, LoopNext, LoopEnd
  <2>2. OpenZoneInv'
    BY <1>2, <1>3, <2>1 DEF ScheduledInv, OpenZoneInv
  <2>3. NoZoneOpen => NoZoneOpen'
    BY <2>1 DEF NoZoneOpen
  <2>4. ASSUME programPc[t] # "open_zone_wait", zonePc'[t] \in {"ok", "fail"}
        PROVE  NoZoneOpen'
    <3>1. programState = "RUNNING_ZONE" /\ ProgramIsActive
      BY <1>1, <2>4 DEF PlaceInv, ZoneWaitPcs, ProgramIsActive, ActivePrograms
    <3>2. \A z \in Zones : zoneState[z] = "OPEN" => z = zoneArg[t]
      BY <1>0, <3>1, CurrentStepIsOne DEF ScheduledInv, OpenZoneInv, ZoneCallerInv,
                                          LockedPcs, OpenPcs, ClosePcs, FaultPcs
    <3>3. CASE RejectZoneCall(t)
      BY <1>1, <3>3 DEF RejectZoneCall, ZoneGoto, ZoneInv, ZoneTypeOK, ZoneLockIsOwned,
                        LockedPcs, OpenPcs, ClosePcs, FaultPcs
    <3>4. CASE CloseCheckRejects(t)
      BY <3>2, <3>4 DEF CloseCheckRejects, CloseIsAllowed, storeZoneVars, NoZoneOpen
    <3>5. CASE CloseCommit(t) \/ FaultZone(t)
      BY <3>2, <3>5 DEF CloseCommit, CloseZone, FaultZone, RecordZoneActuationFault,
                        NoZoneOpen, ZoneInv, ZoneTypeOK
    <3>. QED  BY <1>0, <1>7, <2>4, <3>3, <3>4, <3>5
      DEF ScheduledInv, ZoneCallerInv, OpenPcs, ClosePcs, ZoneInv, ZoneTypeOK, ZoneGoto,
          ZoneReturn, ZoneServiceStep, DriverCall, OtherZoneStep, AcquireZoneLock,
          ZoneFirstPc, OpenCheck, OpenCheckRejects, OpenPrepare, OpenPrepareRejects,
          OpenConfirm, OpenDrive, OpenUndo, OpenWithdraw, CloseCheck, CloseDrive, LoopStart,
          LoopNext, LoopEnd
  <2>5. ASSUME programPc[t] = "open_zone_wait"
        PROVE  NoZoneOpen'
    BY <1>0, <2>3, <2>5 DEF ScheduledInv, QuietInv, LockedPcs, OpenPcs, ClosePcs, FaultPcs
  <2>6. QuietInv'
    BY <1>1, <1>2, <2>4, <2>5 DEF QuietInv, ZoneWaitPcs, ProgramLockedPcs, ProgramWaitPcs
  <2>. QED  BY <1>4, <1>5, <2>2, <2>6 DEF ScheduledInv
<1>. QED  BY <1>6, <1>7

\* No zone is open where the holder of the program lock has closed its own or
\* not opened one yet.
LEMMA NoZoneOpenOffStep ==
    ASSUME ProgramInv, ScheduledInv, NEW t \in Tasks, programPc[t] \in ProgramLockedPcs,
           programState # "RUNNING_ZONE", programPc[t] # "open_zone_wait"
    PROVE  NoZoneOpen
  BY DEF ProgramInv, ProgramLockIsOwned, ProgramLockedPcs, ProgramWaitPcs, ScheduledInv,
         OpenZoneInv, NoZoneOpen

\* The program service leaves a step, or a program, only once no zone is open.
LEMMA ScheduledProgramStep ==
    ASSUME ZoneInv, MasterTypeOK, ProgramInv, PlaceInv, ScheduledInv,
           NEW t \in Tasks, ProgramServiceStep(t), UNCHANGED request
    PROVE  ScheduledInv'
<1>. USE DEF ScheduledInv, ProgramInv, ProgramTypeOK, ProgramLockIsOwned, ZoneCallerInv,
             StartInv, OpenZoneInv, QuietInv, ZoneWaitPcs, ProgramLockedPcs, ProgramWaitPcs,
             ProgramCallPcs, ProgramLockPcs, ProgramGoto, ProgramReturn,
             ProgramStateUnchanged, FinishAndReturn, SetProgramTerminal, storeProgramVars,
             allZoneVars, zoneServiceVars, storeZoneVars, ZoneInv, ZoneTypeOK, NoZoneOpen
<1>1. CASE /\ CheckActive(t) \/ AcquireProgramLock(t) \/ RejectProgramCall(t)
           /\ UNCHANGED allZoneVars
  BY <1>1 DEF CheckActive, AcquireProgramLock, RejectProgramCall, ProgramIsActive, StepInv,
              StepZones
<1>2. ASSUME programPc[t] \in ProgramLockedPcs
      PROVE  \A u \in Tasks : u # t =>
                programPc[u] \notin ProgramLockedPcs /\ zonePc[u] = "idle"
  BY <1>2
<1>3. CASE StartBegin(t) /\ UNCHANGED allZoneVars
  <2>1. ~ProgramIsActive /\ NoZoneOpen /\ \A u \in Tasks : zonePc[u] = "idle"
    BY <1>2, <1>3 DEF StartBegin, ProgramIsActive, ActivePrograms
  <2>2. program' \in Programs /\ stepIndex' = 0 /\ 0 < Len(Steps[program'])
    <3>1. program' \in Programs /\ stepIndex' = 0
      BY <1>3 DEF StartBegin, StartProgram, OuterPcs
    <3>2. Steps[program'] \in Seq(Zones) /\ Steps[program'] # <<>>
      BY <3>1, ProgramAssumption
    <3>. QED  BY <3>1, <3>2, EmptySeq, LenProperties
  <2>. QED  BY <1>2, <1>3, <2>1, <2>2 DEF StartBegin, StartProgram, StepInv
<1>4. CASE StartRejected(t) /\ UNCHANGED allZoneVars
  <2>1. /\ ~ProgramIsActive /\ ~ProgramIsActive' /\ NoZoneOpen
        /\ \A u \in Tasks : zonePc[u] = "idle"
    BY <1>2, <1>4 DEF StartRejected, ProgramIsActive, ActivePrograms
  <2>. QED  BY <1>2, <1>4, <2>1 DEF StartRejected, StepInv
<1>5. CASE StartOpened(t) /\ UNCHANGED allZoneVars
  BY <1>2, <1>5 DEF StartOpened, PlaceInv, StepInv, StepZones, ProgramIsActive,
                    ActivePrograms
<1>6. CASE \/ ProcessNothing(t)      \/ ProcessWaitingMaster(t)
           \/ MasterTimeProcessed(t) \/ MasterRead(t)
           \/ ProcessPostDelayElapsed(t)
  BY <1>2, <1>6 DEF ProcessNothing, ProcessWaitingMaster, MasterTimeProcessed, MasterRead,
                    ProcessPostDelayElapsed, PlaceInv, StepInv, StepZones, ProgramIsActive,
                    ActivePrograms
<1>7. CASE OpenCurrentZone(t)
  BY <1>2, <1>7 DEF OpenCurrentZone, CallZone, ZoneGoto, PlaceInv, StepInv, StepZones,
                    ProgramIsActive, OpenPcs, ClosePcs
<1>8. CASE CurrentZoneOpened(t)
  BY <1>2, <1>8 DEF CurrentZoneOpened, ZoneReturned, ZoneGoto, SetProgramRunningZone,
                    PlaceInv, StepInv, StepZones, ProgramIsActive, ActivePrograms, OpenPcs,
                    ClosePcs
<1>9. CASE ProcessStepElapsed(t) \/ AbortZone(t)
  BY <1>2, <1>9 DEF ProcessStepElapsed, AbortZone, CallZone, ZoneGoto, PlaceInv, StepInv,
                    StepZones, ProgramIsActive, OpenPcs, ClosePcs
<1>10. CASE StepZoneClosed(t)
  BY <1>2, <1>10 DEF StepZoneClosed, ZoneReturned, ZoneGoto, HasNextStep,
                     SetProgramRunningZone, SetProgramWaitingPostDelay, PlaceInv, StepInv,
                     StepZones, ProgramIsActive, ActivePrograms, OpenPcs, ClosePcs
<1>11. CASE \/ ProgramFinished(t)   \/ FaultCloseMaster(t)
            \/ FaultMasterClosed(t) \/ FaultLeaveMaster(t)
  BY <1>2, <1>11 DEF ProgramFinished, FaultCloseMaster, FaultMasterClosed, FaultLeaveMaster,
                     PlaceInv, StepInv, StepZones, ProgramIsActive, ActivePrograms
<1>12. CASE \/ AbortNoZone(t)              \/ AbortCloseMaster(t)
            \/ AbortMasterAlreadyClosed(t) \/ AbortMasterClosed(t)
  BY <1>2, <1>12 DEF AbortNoZone, AbortCloseMaster, AbortMasterAlreadyClosed,
                     AbortMasterClosed, PlaceInv, StepInv, StepZones, ProgramIsActive,
                     ActivePrograms
<1>13. CASE AbortZoneClosed(t)
  BY <1>2, <1>13 DEF AbortZoneClosed, ZoneReturned, ZoneGoto, PlaceInv, StepInv, StepZones,
                     ProgramIsActive, ActivePrograms, OpenPcs, ClosePcs
<1>. QED  BY <1>1, <1>3, <1>4, <1>5, <1>6, <1>7, <1>8, <1>9, <1>10, <1>11, <1>12, <1>13
  DEF ProgramServiceStep

\* The scheduler loop and the HTTP handlers call neither the zone service nor,
\* but for the scheduler, the start of a program.
LEMMA ScheduledCaller ==
    ASSUME NoManualIrrigation, ZoneInv, ProgramInv, ScheduledInv,
           SchedStep \/ HttpHandler \/ Respond
    PROVE  ScheduledInv'
<1>1. /\ UNCHANGED <<allZoneVars, programState, stepIndex, program>>
      /\ request' \in Requests \cup {"none"}
      /\ \/ UNCHANGED programPc
         \/ \E t \in Tasks, pc \in ProgramPcs :
               CallerMoves(t, pc) /\ programPc' = [programPc EXCEPT ![t] = pc]
  <2>. USE ControllerAssumption
       DEF allProgramVars, storeProgramVars, programServiceVars, CallProgram, ScheduledInv,
           ProgramReturned, ProgramGoto, CallerMoves, ProgramPcs, ProgramCallPcs
  <2>1. CASE SchedStep
    BY <2>1 DEF SchedStep, SchedGoto, SchedMasterTime, SchedMasterTimeDone, SchedProcess,
                SchedNoProgram, SchedProcessDone, SchedSkipBusy, SchedStart,
                SchedStartDone, SchedRoundEnds
  <2>2. CASE HttpHandler
    BY <2>2 DEF NoManualIrrigation, HttpHandler, Receive, ZoneHandler, MasterHandler,
                ProgramHandler
  <2>3. CASE Respond
    BY <2>3 DEF NoManualIrrigation, Respond
  <2>. QED  BY <2>1, <2>2, <2>3
<1>2. /\ ProgramIsActive' = ProgramIsActive /\ StepZones' = StepZones
      /\ StepInv' = StepInv /\ NoZoneOpen' = NoZoneOpen
  BY <1>1 DEF ProgramIsActive, StepZones, StepInv, NoZoneOpen, allZoneVars, storeZoneVars
<1>3. CASE UNCHANGED programPc
  BY <1>1, <1>2, <1>3 DEF ScheduledInv, ZoneCallerInv, StartInv, OpenZoneInv, QuietInv,
                          allZoneVars, zoneServiceVars, storeZoneVars
<1>4. ASSUME NEW t \in Tasks, NEW pc \in ProgramPcs, CallerMoves(t, pc),
             programPc' = [programPc EXCEPT ![t] = pc]
      PROVE  ScheduledInv'
  <2>1. /\ programPc[t] \in {"idle", "ok", "fail"}
        /\ pc \in {"idle", "start_active", "process_active", "abort_active"}
        /\ (pc = "start_active" => t = Sched)
    BY <1>4 DEF CallerMoves, NoManualIrrigation
  <2>. QED  BY <1>1, <1>2, <1>4, <2>1 DEF ProgramInv, ProgramTypeOK, ScheduledInv,
                                         ZoneCallerInv, ZoneWaitPcs, StartInv, OpenZoneInv,
                                         QuietInv, allZoneVars, zoneServiceVars,
                                         storeZoneVars
<1>. QED  BY <1>1, <1>3, <1>4

\* ScheduledInv is inductive while the tasks run.
LEMMA ScheduledNext ==
    ASSUME NoManualIrrigation, ZoneInv, MasterTypeOK, ProgramInv, PlaceInv, ScheduledInv,
           [Next]_vars
    PROVE  ScheduledInv'
<1>1. ASSUME NEW t \in Tasks, ZoneServiceStep(t), UNCHANGED <<allProgramVars, request>>
      PROVE  ScheduledInv'
  BY <1>1, ScheduledZoneStep
<1>2. ASSUME NEW t \in Tasks, ProgramServiceStep(t), UNCHANGED request
      PROVE  ScheduledInv'
  BY <1>2, ScheduledProgramStep
<1>3. CASE UNCHANGED <<storeZoneVars, zonePc, zoneOp, zoneArg, programState,
                     stepIndex, programServiceVars, request>>
  BY <1>3 DEF ScheduledInv, ZoneCallerInv, StartInv, StepInv, OpenZoneInv, QuietInv,
              NoZoneOpen, ProgramIsActive, StepZones, storeZoneVars, programServiceVars
<1>4. CASE MasterDelayElapses \/ ProgramDelayElapses \/ RemoteValveActs \/ UNCHANGED vars
  BY <1>3, <1>4 DEF MasterDelayElapses, ProgramDelayElapses, StepDelayElapses,
                    RemoteValveActs, vars, allZoneVars, zoneServiceVars, allProgramVars,
                    storeProgramVars, taskVars
<1>5. ASSUME NEW t \in Tasks, ServiceStep(t) PROVE ScheduledInv'
  BY <1>1, <1>2, <1>3, <1>5 DEF ServiceStep, taskVars, allZoneVars, zoneServiceVars,
                                allProgramVars, storeProgramVars
<1>. QED  BY <1>4, <1>5, ScheduledCaller, ControllerAssumption DEF Next, SchedTask, HttpTask

\* ScheduledInv of tasks that have not run yet.
LEMMA ScheduledAtRest == AtRest /\ (\A z \in Zones : zoneState[z] # "OPEN") => ScheduledInv
  BY DEF AtRest, ProgramServiceInit, ScheduledInv, ZoneCallerInv, OpenPcs, ClosePcs,
         StartInv, StepInv, OpenZoneInv, QuietInv, NoZoneOpen, ProgramIsActive,
         ActivePrograms

\* No zone is recorded open before the tasks run.
LEMMA RestingNoZoneOpen ==
    FirmwareInv /\ bootPc # "running" => \A z \in Zones : zoneState[z] # "OPEN"
  BY DEF FirmwareInv, BootPcs, BootProgress, ConfiguredZones

\* ScheduledInv holds whenever the tasks run.
LEMMA ScheduledInvariant ==
    ASSUME NoManualIrrigation
    PROVE  FirmwareSpec => [](bootPc = "running" => ScheduledInv)
<1>1. FirmwareInit => (bootPc = "running" => ScheduledInv)
  BY DEF FirmwareInit
<1>2. FirmwareInv /\ (bootPc = "running" => ScheduledInv) /\ [FirmwareNext]_firmwareVars
        => (bootPc = "running" => ScheduledInv)'
  <2>. SUFFICES ASSUME FirmwareInv, bootPc = "running" => ScheduledInv,
                       [FirmwareNext]_firmwareVars, bootPc' = "running"
                PROVE  ScheduledInv'
    OBVIOUS
  <2>1. CASE bootPc = "running" /\ [Next]_vars
    BY <2>1, ScheduledNext DEF FirmwareInv, MasterInv
  <2>2. CASE StartTasks
    <3>1. ScheduledInv
      BY <2>2, ScheduledAtRest, RestingNoZoneOpen DEF StartTasks, BootGoto, FirmwareInv
    <3>2. UNCHANGED <<storeZoneVars, zonePc, zoneOp, zoneArg, programState,
                     stepIndex, programServiceVars, request>>
      BY <2>2 DEF StartTasks, vars, allZoneVars, zoneServiceVars, allProgramVars,
                  storeProgramVars, taskVars
    <3>. QED  BY <3>1, <3>2 DEF ScheduledInv, ZoneCallerInv, StartInv, StepInv, OpenZoneInv,
                               QuietInv, NoZoneOpen, ProgramIsActive, StepZones,
                               storeZoneVars, programServiceVars
  <2>. QED  BY <2>1, <2>2 DEF FirmwareNext, firmwareVars, Reset, BootStep, BootGoto,
                             SwitchOutputsOff, EnterReady, BootZones
<1>. QED  BY <1>1, <1>2, FirmwareInvariant, PTL DEF FirmwareSpec

\* With nobody operating zones or starting programs by hand, a zone that is open while
\* no task is in the program service is the current step of a running program: every
\* completed, faulted or aborted program has closed its zone, whatever driver call of
\* whichever service failed.
THEOREM OpenZonesAreProgrammed ==
    ASSUME NoManualIrrigation
    PROVE  FirmwareSpec => []OpenZoneIsProgrammed
<1>1. FirmwareInv /\ (bootPc = "running" => ScheduledInv) => OpenZoneIsProgrammed
  <2>. SUFFICES ASSUME FirmwareInv, bootPc = "running", ScheduledInv, programLock = NoTask
                PROVE  \A z \in Zones : zoneState[z] = "OPEN"
                          => programState = "RUNNING_ZONE" /\ z \in StepZones
    BY RestingNoZoneOpen DEF OpenZoneIsProgrammed
  <2>1. \A t \in Tasks : programPc[t] # "open_zone_wait"
    BY TasksAssumption DEF FirmwareInv, ProgramInv, ProgramLockIsOwned, ProgramLockedPcs,
                           ProgramWaitPcs
  <2>. QED  BY <2>1 DEF ScheduledInv, OpenZoneInv
<1>. QED  BY <1>1, FirmwareInvariant, ScheduledInvariant, PTL

\* On the board too, after every reset: a relay that is energised is the current step of
\* a running program or its output is recorded UNKNOWN.
THEOREM EnergisedRelaysAreProgrammed ==
    ASSUME NoManualIrrigation
    PROVE  FirmwareSpec => []EnergisedRelayIsProgrammed
<1>1. FirmwareInv /\ (bootPc = "running" => ScheduledInv) => EnergisedRelayIsProgrammed
  <2>. SUFFICES ASSUME FirmwareInv, bootPc = "running", ScheduledInv, programLock = NoTask,
                       NEW z \in relays
                PROVE  \/ programState = "RUNNING_ZONE" /\ z \in StepZones
                       \/ outputState[z] = "UNKNOWN"
    BY DEF EnergisedRelayIsProgrammed, FirmwareInv, BootPcs, BootProgress
  <2>1. \A t \in Tasks : programPc[t] \notin ZoneWaitPcs
    BY TasksAssumption DEF FirmwareInv, ProgramInv, ProgramLockIsOwned, ProgramLockedPcs,
                           ProgramWaitPcs, ZoneWaitPcs
  <2>2. zoneLock = NoTask
    <3>1. \A t \in Tasks : zonePc[t] = "idle"
      BY <2>1 DEF ScheduledInv, ZoneCallerInv
    <3>. QED  BY <3>1 DEF FirmwareInv, ZoneInv, ZoneTypeOK, ZoneLockIsOwned, LockedPcs,
                         OpenPcs, ClosePcs, FaultPcs
  <2>3. z \in Zones /\ outputState[z] # "OFF"
    BY <2>2, ZoneInvRelaysMatch DEF FirmwareInv, RelaysMatchOutputs
  <2>4. CASE outputState[z] = "ON"
    BY <2>1, <2>3, <2>4 DEF ScheduledInv, OpenZoneInv, ZoneWaitPcs, FirmwareInv, ZoneInv,
                            OutputMatchesZone
  <2>. QED  BY <2>3, <2>4 DEF FirmwareInv, ZoneInv, ZoneTypeOK, OutputStates
<1>. QED  BY <1>1, FirmwareInvariant, ScheduledInvariant, PTL

\* Under the same condition a program that faults has closed its zone first.
THEOREM FaultsLeaveNoZoneOpen ==
    ASSUME NoManualIrrigation
    PROVE  FirmwareSpec => FaultedProgramLeavesNoZoneOpen
<1>1. FirmwareInv /\ (bootPc = "running" => ScheduledInv) /\ [FirmwareNext]_firmwareVars
      => [programState = "RUNNING_ZONE" /\ programState' = "FAULT"
             => \A z \in Zones : z \in StepZones => zoneState[z] # "OPEN"]_vars
  <2>. SUFFICES ASSUME FirmwareInv, bootPc = "running" => ScheduledInv, 
                       [FirmwareNext]_firmwareVars,
                       programState = "RUNNING_ZONE", programState' = "FAULT"
                PROVE  NoZoneOpen
    BY DEF NoZoneOpen
  <2>1. bootPc = "running" /\ [Next]_vars
    <3>1. bootPc = "running"
      BY DEF FirmwareInv, AtRest
    <3>. QED  BY <3>1 DEF FirmwareNext, Reset, BootStep, BootGoto, SwitchOutputsOff,
                         EnterReady, BootZones, StartTasks, firmwareVars
  <2>2. PICK t \in Tasks : ProgramServiceStep(t)
    BY <2>1, OutsideProgramService
  <2>3. \/ programPc[t] \in {"fault", "fault_wait", "abort_master", "abort_master_wait"}
        \/ programPc[t] = "abort_zone_wait" /\ zonePc[t] \in {"ok", "fail"}
    <3>. USE <2>1, <2>2 DEF FirmwareInv, PlaceInv, ProgramGoto, ProgramStateUnchanged,
                            FinishAndReturn, SetProgramTerminal, storeProgramVars
    <3>1. CASE \/ FaultMasterClosed(t) \/ FaultLeaveMaster(t)
               \/ AbortZoneClosed(t)   \/ AbortMasterAlreadyClosed(t)
               \/ AbortMasterClosed(t)
      BY <3>1 DEF FaultMasterClosed, FaultLeaveMaster, AbortZoneClosed, ZoneReturned,
                  ZoneGoto, AbortMasterAlreadyClosed, AbortMasterClosed
    <3>2. CASE \/ CheckActive(t) \/ AcquireProgramLock(t) \/ RejectProgramCall(t)
               \/ StartBegin(t)  \/ StartRejected(t)      \/ StartOpened(t)
      BY <3>2 DEF CheckActive, AcquireProgramLock, RejectProgramCall, StartBegin,
                  StartProgram, CanStartProgram, StartRejected, StartOpened
    <3>3. CASE \/ ProcessNothing(t)      \/ ProcessWaitingMaster(t)
               \/ MasterTimeProcessed(t) \/ MasterRead(t)
               \/ OpenCurrentZone(t)     \/ ProcessStepElapsed(t)
               \/ FaultCloseMaster(t)    \/ ProcessPostDelayElapsed(t)
               \/ AbortZone(t)           \/ AbortNoZone(t)
               \/ AbortCloseMaster(t)
      BY <3>3 DEF ProcessNothing, ProcessWaitingMaster, MasterTimeProcessed, MasterRead,
                  OpenCurrentZone, ProcessStepElapsed, ProcessPostDelayElapsed,
                  FaultCloseMaster, AbortZone, AbortNoZone, AbortCloseMaster
    <3>4. CASE CurrentZoneOpened(t) \/ StepZoneClosed(t) \/ ProgramFinished(t)
      BY <3>4 DEF CurrentZoneOpened, SetProgramRunningZone, StepZoneClosed,
                  SetProgramWaitingPostDelay, ProgramFinished
    <3>. QED  BY <3>1, <3>2, <3>3, <3>4 DEF ProgramServiceStep
  <2>. QED  BY <2>1, <2>3 DEF ScheduledInv, QuietInv
<1>. QED  BY <1>1, FirmwareInvariant, ScheduledInvariant, PTL
  DEF FirmwareSpec, FaultedProgramLeavesNoZoneOpen
=============================================================================
