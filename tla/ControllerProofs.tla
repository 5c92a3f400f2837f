-------------------------- MODULE ControllerProofs --------------------------
(***************************************************************************)
(* The firmware as a whole implements the zone service and the master      *)
(* valve service under arbitrary clients: the scheduler task, the program  *)
(* service and the HTTP handlers are just some clients of theirs, and each *)
(* service is to the other a neighbour that changes the state it reads.    *)
(* What is proved of the services on their own then holds of the firmware. *)
(*                                                                         *)
(* A client is bound to pass on zones of the table (or an identifier of    *)
(* none).  That is where the program service's own invariant comes in:     *)
(* the step index and service->program are what they should be (ProgramInv).*)
(***************************************************************************)
EXTENDS Controller, ZoneServiceProofs, MasterValveServiceProofs, SequenceTheorems

\* Places in the program service reached before any program was ever chosen.
OuterPcs == {"idle", "ok", "fail", "start_active", "process_active",
             "abort_active", "start_lock", "start"}

ProgramInv ==
    /\ ProgramTypeOK
    /\ ProgramLockIsOwned
    /\ schedPc \in SchedPcs
    /\ due \subseteq Programs
    /\ request \in AllRequests \cup {"none"}
    /\ programState # "IDLE" => program \in Programs
    /\ \A t \in Tasks :
          /\ programPc[t] \notin OuterPcs => program \in Programs
          /\ programPc[t] \in {"start_active", "start_lock", "start"}
                => programArg[t] \in Programs

-----------------------------------------------------------------------------
(* The program service's own invariant. *)

\* A step index that has a successor in the program is followed by an index.
LEMMA NextStepIndex ==
    ASSUME stepIndex \in StepIndices, program \in Programs, HasNextStep
    PROVE  stepIndex + 1 \in StepIndices
<1>1. Steps[program] \in Seq(Zones) /\ stepIndex \in Nat
  BY ProgramAssumption, StoreAssumption
<1>2. Len(Steps[program]) \in Nat
  BY <1>1, LenProperties
<1>3. stepIndex + 1 \in 0..(Len(Steps[program]) - 1)
  BY <1>1, <1>2 DEF HasNextStep
<1>. QED  BY <1>3, ProgramAssumption

\* The zone handed to the zone service is one of the table, or none.
LEMMA StepZonesType ==
    ASSUME ProgramInv
    PROVE  StepZones \subseteq Zones \cup {NoZone}
<1>1. CASE program # NoProgram /\ stepIndex < Len(Steps[program])
  <2>1. Steps[program] \in Seq(Zones) /\ stepIndex \in Nat
    BY <1>1, ProgramAssumption, StoreAssumption DEF ProgramInv, ProgramTypeOK
  <2>2. stepIndex + 1 \in 1..Len(Steps[program])
    BY <1>1, <2>1, LenProperties
  <2>3. Steps[program][stepIndex + 1] \in Zones
    BY <2>1, <2>2, ElementOfSeq
  <2>. QED  BY <1>1, <2>3 DEF StepZones
<1>2. CASE ~(program # NoProgram /\ stepIndex < Len(Steps[program]))
  BY <1>2 DEF StepZones
<1>. QED  BY <1>1, <1>2

\* The operations of the program service, whatever the other services answer.
LEMMA ProgramStepInv ==
    ASSUME ProgramInv, NEW t \in Tasks, ProgramServiceStep(t), UNCHANGED taskVars
    PROVE  ProgramInv'
<1>. USE TasksAssumption
     DEF ProgramInv, ProgramTypeOK, ProgramLockIsOwned, OuterPcs, ProgramPcs,
         ProgramCallPcs, ProgramLockPcs, ProgramLockedPcs, ProgramWaitPcs,
         ProgramGoto, ProgramReturn, ProgramStateUnchanged, FinishAndReturn,
         SetProgramTerminal, storeProgramVars, taskVars
<1>1. CASE CheckActive(t)
  BY <1>1 DEF CheckActive, ProgramIsActive, ActivePrograms
<1>2. CASE AcquireProgramLock(t) \/ RejectProgramCall(t)
  BY <1>2 DEF AcquireProgramLock, RejectProgramCall
<1>3. CASE StartBegin(t) \/ StartRejected(t) \/ StartOpened(t)
  BY <1>3, StoreAssumption
  DEF StartBegin, StartProgram, CanStartProgram, StartRejected, StartOpened,
      ProgramStates, ActivePrograms, TerminalStates
<1>4. CASE \/ ProcessNothing(t)      \/ ProcessWaitingMaster(t)
           \/ MasterTimeProcessed(t) \/ MasterRead(t)
           \/ OpenCurrentZone(t)     \/ ProcessStepElapsed(t)
           \/ ProcessPostDelayElapsed(t)
  BY <1>4 DEF ProcessNothing, ProcessWaitingMaster, MasterTimeProcessed,
              MasterRead, OpenCurrentZone, ProcessStepElapsed,
              ProcessPostDelayElapsed
<1>5. CASE CurrentZoneOpened(t)
  BY <1>5 DEF CurrentZoneOpened, SetProgramRunningZone, ProgramStates, ActivePrograms
<1>6. CASE StepZoneClosed(t)
  BY <1>6, NextStepIndex
  DEF StepZoneClosed, SetProgramRunningZone, SetProgramWaitingPostDelay,
      ProgramStates, ActivePrograms
<1>7. CASE ProgramFinished(t)
  BY <1>7 DEF ProgramFinished, ProgramStates, TerminalStates
<1>8. CASE FaultCloseMaster(t) \/ FaultMasterClosed(t) \/ FaultLeaveMaster(t)
  BY <1>8 DEF FaultCloseMaster, FaultMasterClosed, FaultLeaveMaster,
              ProgramStates, TerminalStates
<1>9. CASE \/ AbortZone(t)        \/ AbortNoZone(t)
           \/ AbortZoneClosed(t)  \/ AbortCloseMaster(t)
           \/ AbortMasterAlreadyClosed(t)
           \/ AbortMasterClosed(t)
  BY <1>9 DEF AbortZone, AbortNoZone, AbortZoneClosed, AbortCloseMaster,
              AbortMasterAlreadyClosed, AbortMasterClosed, ProgramStates,
              TerminalStates
<1>. QED
  BY <1>1, <1>2, <1>3, <1>4, <1>5, <1>6, <1>7, <1>8, <1>9 DEF ProgramServiceStep

\* The callers: the scheduler loop and the HTTP handlers.
LEMMA CallerInv ==
    ASSUME ProgramInv, SchedStep \/ HttpHandler \/ Respond
    PROVE  ProgramInv'
<1>. USE ControllerAssumption
     DEF ProgramInv, ProgramTypeOK, ProgramLockIsOwned, OuterPcs, ProgramPcs,
         ProgramCallPcs, ProgramLockPcs, ProgramLockedPcs, ProgramWaitPcs,
         ProgramGoto, storeProgramVars, programServiceVars, allProgramVars,
         CallProgram, ProgramReturned
<1>1. CASE SchedStep
  BY <1>1 DEF SchedStep, SchedGoto, SchedPcs, SchedMasterTime, SchedMasterTimeDone,
              SchedProcess, SchedNoProgram, FindDue, SchedProcessDone,
              SchedSkipBusy, SchedStart, SchedStartDone, SchedRoundEnds
<1>2. CASE HttpHandler
  BY <1>2 DEF HttpHandler, Receive, AllRequests, ZoneHandler, MasterHandler,
              ProgramHandler
<1>3. CASE Respond
  BY <1>3 DEF Respond
<1>. QED  BY <1>1, <1>2, <1>3

\* At power-up no task holds the program lock and the program state is IDLE.
LEMMA ProgramInitInv == Init => ProgramInv
  BY TasksAssumption, StoreAssumption
  DEF Init, ProgramServiceInit, ProgramInv, ProgramTypeOK, ProgramLockIsOwned,
      ProgramStates, ProgramPcs, ProgramLockedPcs, ProgramWaitPcs, SchedPcs, OuterPcs

\* Every step of the firmware, of a program call or not, keeps the program invariant.
LEMMA ProgramNextInv == ProgramInv /\ [Next]_vars => ProgramInv'
<1>. SUFFICES ASSUME ProgramInv, [Next]_vars PROVE ProgramInv'
  OBVIOUS
<1>1. ASSUME NEW t \in Tasks, ServiceStep(t)
      PROVE  ProgramInv'
  <2>1. CASE ProgramServiceStep(t)
    BY <1>1, <2>1, ProgramStepInv DEF ServiceStep
  <2>2. CASE UNCHANGED allProgramVars
    BY <1>1, <2>2 DEF ServiceStep, taskVars, allProgramVars, storeProgramVars,
                      programServiceVars, ProgramInv, ProgramTypeOK,
                      ProgramLockIsOwned
  <2>. QED  BY <1>1, <2>1, <2>2 DEF ServiceStep
<1>2. CASE \/ MasterDelayElapses \/ ProgramDelayElapses
           \/ RemoteValveActs    \/ UNCHANGED vars
  BY <1>2 DEF MasterDelayElapses, ProgramDelayElapses, StepDelayElapses,
              RemoteValveActs, vars,
              taskVars, allProgramVars, storeProgramVars, programServiceVars,
              ProgramInv, ProgramTypeOK, ProgramLockIsOwned
<1>. QED
  BY <1>1, <1>2, CallerInv, ControllerAssumption DEF Next, SchedTask, HttpTask

\* ProgramInv is an invariant of the firmware.
LEMMA ProgramInvariant == Spec => []ProgramInv
  BY ProgramInitInv, ProgramNextInv, PTL DEF Spec

-----------------------------------------------------------------------------
(* The program service is a client of the two others. *)

\* Seen from the zone service.
LEMMA ProgramIsZoneClient ==
    ASSUME ProgramInv, NEW t \in Tasks, ProgramServiceStep(t)
    PROVE  (ZoneClient(t) /\ UNCHANGED masterState) \/ UNCHANGED zoneVars
<1>. USE DEF zoneVars, allZoneVars, allMasterVars, storeMasterVars
<1>1. CASE OpenCurrentZone(t) \/ ProcessStepElapsed(t) \/ AbortZone(t)
  BY <1>1, StepZonesType DEF OpenCurrentZone, ProcessStepElapsed, AbortZone, ZoneClient
<1>2. CASE CurrentZoneOpened(t) \/ StepZoneClosed(t) \/ AbortZoneClosed(t)
  BY <1>2 DEF CurrentZoneOpened, StepZoneClosed, AbortZoneClosed, ZoneClient
<1>3. CASE UNCHANGED allZoneVars /\ UNCHANGED storeMasterVars
  BY <1>3
<1>4. \/ OpenCurrentZone(t)   \/ ProcessStepElapsed(t) \/ AbortZone(t)
      \/ CurrentZoneOpened(t) \/ StepZoneClosed(t)     \/ AbortZoneClosed(t)
      \/ UNCHANGED allZoneVars /\ UNCHANGED storeMasterVars
  BY DEF ProgramServiceStep, CallMaster, MasterReturned, StartBegin, StartRejected,
         StartOpened, ProcessNothing, ProcessWaitingMaster, MasterTimeProcessed,
         MasterRead, ProcessPostDelayElapsed, ProgramFinished, FaultCloseMaster,
         FaultMasterClosed, FaultLeaveMaster, AbortNoZone, AbortCloseMaster,
         AbortMasterAlreadyClosed, AbortMasterClosed
<1>. QED  BY <1>1, <1>2, <1>3, <1>4

\* Seen from the master valve service.
LEMMA ProgramIsMasterClient ==
    ASSUME NEW t \in Tasks, ProgramServiceStep(t)
    PROVE  (MasterClient(t) /\ UNCHANGED outputState) \/ UNCHANGED masterVars
<1>. USE DEF masterVars, allZoneVars, allMasterVars, storeZoneVars
<1>1. CASE /\ \/ StartBegin(t)       \/ ProcessWaitingMaster(t)
              \/ FaultCloseMaster(t) \/ ProcessPostDelayElapsed(t)
              \/ AbortCloseMaster(t)
           /\ UNCHANGED allZoneVars
  BY <1>1 DEF StartBegin, ProcessWaitingMaster, FaultCloseMaster,
              ProcessPostDelayElapsed, AbortCloseMaster, MasterClient, MasterOps
<1>2. CASE /\ \/ StartOpened(t)       \/ MasterTimeProcessed(t)
              \/ ProgramFinished(t)   \/ FaultMasterClosed(t)
              \/ AbortMasterClosed(t)
           /\ UNCHANGED allZoneVars
  BY <1>2 DEF StartOpened, MasterTimeProcessed, ProgramFinished,
              FaultMasterClosed, AbortMasterClosed, MasterClient
<1>3. CASE UNCHANGED allMasterVars /\ UNCHANGED outputState
  BY <1>3
<1>4. \/ /\ \/ StartBegin(t)       \/ ProcessWaitingMaster(t)
            \/ FaultCloseMaster(t) \/ ProcessPostDelayElapsed(t)
            \/ AbortCloseMaster(t) \/ StartOpened(t)
            \/ MasterTimeProcessed(t) \/ ProgramFinished(t)
            \/ FaultMasterClosed(t) \/ AbortMasterClosed(t)
         /\ UNCHANGED allZoneVars
      \/ UNCHANGED allMasterVars /\ UNCHANGED outputState
  BY DEF ProgramServiceStep, StartRejected, ProcessNothing, MasterRead,
         OpenCurrentZone, CurrentZoneOpened, ProcessStepElapsed, StepZoneClosed,
         FaultLeaveMaster, AbortZone, AbortNoZone, AbortZoneClosed,
         AbortMasterAlreadyClosed, CallZone, ZoneReturned, ProcessWaitingMaster,
         MasterTimeProcessed, ProcessPostDelayElapsed, ProgramFinished,
         FaultCloseMaster, FaultMasterClosed, AbortCloseMaster, AbortMasterClosed
<1>. QED  BY <1>1, <1>2, <1>3, <1>4

-----------------------------------------------------------------------------
(* The firmware implements the zone service. *)

\* To the zone service a change of the master valve alone is its own step MasterValveChanges.
LEMMA MasterStepSeenByZones ==
    ASSUME UNCHANGED allZoneVars, masterState' \in MasterStates
    PROVE  [ZoneNext]_zoneVars
  BY DEF allZoneVars, zoneVars, ZoneNext, AroundZoneService, MasterValveChanges

\* Every step of the firmware is one of ZoneNext or leaves zoneVars alone.
LEMMA ZoneStepRefined == ProgramInv /\ [Next]_vars => [ZoneNext]_zoneVars
<1>. SUFFICES ASSUME ProgramInv, Next PROVE [ZoneNext]_zoneVars
  BY DEF vars, allZoneVars, allMasterVars, storeMasterVars, zoneVars
<1>. USE ControllerAssumption DEF allZoneVars, allMasterVars, storeMasterVars, zoneVars
<1>1. ASSUME NEW t \in Tasks, ServiceStep(t)
      PROVE  [ZoneNext]_zoneVars
  <2>1. CASE ZoneServiceStep(t) /\ UNCHANGED allMasterVars
    BY <2>1 DEF ZoneNext
  <2>2. CASE MasterServiceStep(t) /\ UNCHANGED allZoneVars
    <3>1. masterState' \in MasterStates \/ masterState' = masterState
      BY <2>2 DEF MasterServiceStep, OtherMasterStep, AcquireMasterLock,
                  RejectMasterCall, MasterOpenCheck, MasterOpenRejects,
                  MasterDrive, DriverConfirmed, DriverFailed,
                  BeginMasterValveOpen, MasterProcessTime,
                  CompleteMasterValvePreOpenDelay, MasterCloseCheck,
                  MasterCloseRejects, MasterCloseBegin, WriteMasterValveClosing,
                  CompleteMasterValveClose, RecordMasterValveFault, MasterStates
    <3>. QED  BY <2>2, <3>1, MasterStepSeenByZones
  <2>3. CASE ProgramServiceStep(t)
    BY <2>3, ProgramIsZoneClient DEF ZoneNext, AroundZoneService
  <2>. QED  BY <1>1, <2>1, <2>2, <2>3 DEF ServiceStep
<1>2. CASE SchedStep
  BY <1>2 DEF SchedStep, SchedMasterTime, SchedMasterTimeDone, SchedProcess,
              SchedNoProgram, SchedProcessDone, SchedSkipBusy, SchedStart,
              SchedStartDone, SchedRoundEnds, CallMaster, MasterReturned
<1>3. CASE HttpHandler
  <2>1. CASE ZoneHandler
    BY <2>1 DEF ZoneHandler, ZoneNext, AroundZoneService, ZoneClient
  <2>2. CASE MasterHandler \/ ProgramHandler
    BY <2>2 DEF MasterHandler, ProgramHandler, CallMaster
  <2>. QED  BY <1>3, <2>1, <2>2 DEF HttpHandler
<1>4. CASE Respond
  BY <1>4 DEF Respond, MasterReturned, ZoneNext, AroundZoneService, ZoneClient
<1>5. CASE MasterDelayElapses \/ ProgramDelayElapses \/ RemoteValveActs
  BY <1>5 DEF MasterDelayElapses, PreOpenDelayElapses, ProgramDelayElapses,
              RemoteValveActs, RemoteValveWorks
<1>. QED  BY <1>1, <1>2, <1>3, <1>4, <1>5 DEF Next, SchedTask, HttpTask

\* The firmware implements the zone service: the program service and the HTTP
\* handlers never do to it what an arbitrary client could not.
THEOREM ControllerImplementsZones == Spec => ZoneSpec
<1>1. Init => ZoneInit
  BY DEF Init, ZoneInit, MasterStates
<1>. QED  BY <1>1, ZoneStepRefined, ProgramInvariant, PTL DEF Spec, ZoneSpec

\* ZoneInv of the firmware.
LEMMA ControllerZoneInv == Spec => []ZoneInv
  BY ControllerImplementsZones, ZoneInitInv, ZoneNextInv, PTL DEF ZoneSpec

\* The one-active-zone rule holds of the firmware: no program, schedule or
\* request ever energises two zone valves.
THEOREM ControllerOneActiveZone == Spec => []OneRelayEnergised
  BY ControllerZoneInv, ZoneInvOneRelay, PTL

-----------------------------------------------------------------------------
(* The firmware implements the master valve service. *)

\* A step of the zone service changes at most one output.
LEMMA ZoneStepSeenByMaster ==
    ASSUME ZoneInv, NEW t \in Tasks, ZoneServiceStep(t), UNCHANGED allMasterVars
    PROVE  [MasterNext]_masterVars
<1>. USE DEF masterVars, allMasterVars, storeZoneVars, ZoneInv, HolderInv, ArgPcs
<1>1. CASE OpenCommit(t) \/ CloseCommit(t) \/ FaultZone(t)
  <2>1. \E z \in Zones, o \in OutputStates : outputState' = [outputState EXCEPT ![z] = o]
    BY <1>1 DEF OpenCommit, WriteZoneOpen, CloseCommit, CloseZone, FaultZone,
                RecordZoneActuationFault, OutputStates
  <2>. QED  BY <2>1 DEF MasterNext, AroundMasterService, OutputsChange
<1>2. CASE UNCHANGED outputState
  BY <1>2
<1>. QED
  BY <1>1, <1>2
  DEF ZoneServiceStep, DriverCall, OtherZoneStep, ZoneCallUnchanged,
      AcquireZoneLock, RejectZoneCall,
      OpenCheck, OpenCheckRejects, OpenPrepare, OpenPrepareRejects, OpenDrive,
      OpenUndo, OpenConfirm, OpenWithdraw, CloseCheck, CloseCheckRejects,
      CloseDrive, LoopStart, LoopNext, LoopEnd

\* Every step of the firmware is one of MasterNext or leaves masterVars alone.
LEMMA MasterStepRefined == ZoneInv /\ [Next]_vars => [MasterNext]_masterVars
<1>. SUFFICES ASSUME ZoneInv, Next PROVE [MasterNext]_masterVars
  BY DEF vars, allZoneVars, allMasterVars, storeZoneVars, masterVars
<1>. USE ControllerAssumption DEF allZoneVars, allMasterVars, storeZoneVars, masterVars
<1>1. ASSUME NEW t \in Tasks, ServiceStep(t)
      PROVE  [MasterNext]_masterVars
  <2>1. CASE ZoneServiceStep(t) /\ UNCHANGED allMasterVars
    BY <2>1, ZoneStepSeenByMaster
  <2>2. CASE MasterServiceStep(t) /\ UNCHANGED allZoneVars
    BY <2>2 DEF MasterNext
  <2>3. CASE ProgramServiceStep(t)
    BY <2>3, ProgramIsMasterClient DEF MasterNext, AroundMasterService
  <2>. QED  BY <1>1, <2>1, <2>2, <2>3 DEF ServiceStep
<1>2. CASE SchedStep
  BY <1>2 DEF SchedStep, SchedMasterTime, SchedMasterTimeDone, SchedProcess,
              SchedNoProgram, SchedProcessDone, SchedSkipBusy, SchedStart,
              SchedStartDone, SchedRoundEnds, MasterNext, AroundMasterService,
              MasterClient, MasterOps
<1>3. CASE HttpHandler
  <2>1. CASE MasterHandler
    BY <2>1 DEF MasterHandler, MasterNext, AroundMasterService, MasterClient,
                MasterOps
  <2>2. CASE ZoneHandler \/ ProgramHandler
    BY <2>2 DEF ZoneHandler, ProgramHandler, CallZone
  <2>. QED  BY <1>3, <2>1, <2>2 DEF HttpHandler
<1>4. CASE Respond
  BY <1>4 DEF Respond, ZoneReturned, MasterNext, AroundMasterService, MasterClient
<1>5. CASE MasterDelayElapses \/ ProgramDelayElapses \/ RemoteValveActs
  BY <1>5 DEF MasterDelayElapses, ProgramDelayElapses, RemoteValveActs, MasterNext,
              AroundMasterService
<1>. QED  BY <1>1, <1>2, <1>3, <1>4, <1>5 DEF Next, SchedTask, HttpTask

\* The firmware implements the master valve service.
THEOREM ControllerImplementsMaster == Spec => MasterSpec
<1>1. Init => MasterInit
  BY DEF Init, ZoneStoreBooted, MasterInit
<1>. QED  BY <1>1, MasterStepRefined, ControllerZoneInv, PTL DEF Spec, MasterSpec

\* MasterInv of the firmware.
LEMMA ControllerMasterInv == Spec => []MasterInv
  BY ControllerImplementsMaster, MasterInitInv, MasterNextInv, PTL DEF MasterSpec

\* Type correctness of the firmware.
THEOREM ControllerTypeCorrect == Spec => []TypeOK
<1>1. ProgramInv /\ ZoneInv /\ MasterInv => TypeOK
  BY DEF ProgramInv, ZoneInv, MasterInv, TypeOK
<1>. QED  BY <1>1, ProgramInvariant, ControllerZoneInv, ControllerMasterInv, PTL

\* The operation lock of the program service is held by the task inside, on
\* every path through its calls of the other services.
THEOREM ProgramLockCorrect == Spec => []ProgramLockIsOwned
<1>1. ProgramInv => ProgramLockIsOwned
  BY DEF ProgramInv
<1>. QED  BY <1>1, ProgramInvariant, PTL

-----------------------------------------------------------------------------
(* The program state is the holder's. *)

\* What the holder of the program lock may rely on: the state it found at the
\* beginning of its operation, or wrote itself, is still there when the service
\* it called returns.
PlaceInv ==
    \A t \in Tasks :
        /\ programPc[t] \in {"start_master_wait", "master_time_wait", "master_read"}
              => programState = "WAITING_MASTER"
        /\ programPc[t] \in {"open_zone", "open_zone_wait"}
              => programState \in {"WAITING_MASTER", "RUNNING_ZONE"}
        /\ programPc[t] \in {"close_zone_wait", "abort_zone_wait"}
              => programState = "RUNNING_ZONE"
        /\ programPc[t] = "finish_wait"
              => programState = "WAITING_POST_PROGRAM_DELAY"

\* Only the holder writes the program state, and it moves on when it does.
LEMMA PlaceStep ==
    ASSUME ProgramInv, PlaceInv, NEW t \in Tasks, ProgramServiceStep(t)
    PROVE  PlaceInv'
<1>. USE DEF PlaceInv, ProgramInv, ProgramTypeOK, ProgramLockIsOwned,
             ProgramCallPcs, ProgramLockPcs, ProgramLockedPcs, ProgramWaitPcs,
             ProgramGoto, ProgramReturn, ProgramStateUnchanged, FinishAndReturn,
             SetProgramTerminal, storeProgramVars
<1>1. CASE CheckActive(t) \/ AcquireProgramLock(t) \/ RejectProgramCall(t)
  BY <1>1 DEF CheckActive, AcquireProgramLock, RejectProgramCall
<1>2. CASE StartBegin(t) \/ StartRejected(t) \/ StartOpened(t)
  BY <1>2 DEF StartBegin, StartProgram, StartRejected, StartOpened
<1>3. CASE \/ ProcessNothing(t)      \/ ProcessWaitingMaster(t)
           \/ MasterTimeProcessed(t) \/ MasterRead(t)
           \/ OpenCurrentZone(t)     \/ ProcessStepElapsed(t)
           \/ ProcessPostDelayElapsed(t)
  BY <1>3 DEF ProcessNothing, ProcessWaitingMaster, MasterTimeProcessed,
              MasterRead, OpenCurrentZone, ProcessStepElapsed,
              ProcessPostDelayElapsed
<1>4. CASE CurrentZoneOpened(t) \/ StepZoneClosed(t) \/ ProgramFinished(t)
  BY <1>4 DEF CurrentZoneOpened, StepZoneClosed, SetProgramRunningZone,
              SetProgramWaitingPostDelay, ProgramFinished
<1>5. CASE FaultCloseMaster(t) \/ FaultMasterClosed(t) \/ FaultLeaveMaster(t)
  BY <1>5 DEF FaultCloseMaster, FaultMasterClosed, FaultLeaveMaster
<1>6. CASE \/ AbortZone(t)        \/ AbortNoZone(t)
           \/ AbortZoneClosed(t)  \/ AbortCloseMaster(t)
           \/ AbortMasterAlreadyClosed(t)
           \/ AbortMasterClosed(t)
  BY <1>6 DEF AbortZone, AbortNoZone, AbortZoneClosed, AbortCloseMaster,
              AbortMasterAlreadyClosed, AbortMasterClosed
<1>. QED
  BY <1>1, <1>2, <1>3, <1>4, <1>5, <1>6 DEF ProgramServiceStep

\* Where a call of the program service begins and ends: the callers.
CallerMoves(t, pc) ==
    \/ programPc[t] \in {"ok", "fail"} /\ pc = "idle"
    \/ /\ programPc[t] = "idle"
       /\ \/ t = Sched /\ pc \in {"process_active", "start_active"}
          \/ t = Http /\ pc = "start_active" /\ "program_start" \in Requests
          \/ t = Http /\ pc = "abort_active" /\ "program_abort" \in Requests

\* The other steps leave the program alone and move no task that is inside the
\* program service.
LEMMA OutsideProgramService ==
    ASSUME [Next]_vars, \A t \in Tasks : ~ProgramServiceStep(t)
    PROVE  /\ UNCHANGED <<programState, stepIndex, program, programLock>>
           /\ \/ UNCHANGED programPc
              \/ \E t \in Tasks, pc \in ProgramPcs :
                    CallerMoves(t, pc) /\ programPc' = [programPc EXCEPT ![t] = pc]
<1>. USE ControllerAssumption
     DEF allProgramVars, storeProgramVars, programServiceVars, CallProgram,
         ProgramReturned, ProgramGoto, CallerMoves, ProgramPcs, ProgramCallPcs
<1>1. CASE SchedStep
  BY <1>1 DEF SchedStep, SchedMasterTime, SchedMasterTimeDone, SchedProcess,
              SchedNoProgram, SchedProcessDone, SchedSkipBusy, SchedStart,
              SchedStartDone, SchedRoundEnds
<1>2. CASE HttpHandler
  BY <1>2 DEF HttpHandler, Receive, ZoneHandler, MasterHandler, ProgramHandler
<1>3. CASE Respond
  BY <1>3 DEF Respond
<1>4. CASE \/ \E t \in Tasks : ServiceStep(t)
           \/ MasterDelayElapses \/ ProgramDelayElapses
           \/ RemoteValveActs    \/ UNCHANGED vars
  BY <1>4 DEF ServiceStep, MasterDelayElapses, ProgramDelayElapses, StepDelayElapses,
              RemoteValveActs, vars
<1>. QED  BY <1>1, <1>2, <1>3, <1>4 DEF Next, SchedTask, HttpTask

\* PlaceInv is inductive.
LEMMA PlaceNextInv == ProgramInv /\ PlaceInv /\ [Next]_vars => PlaceInv'
<1>. SUFFICES ASSUME ProgramInv, PlaceInv, [Next]_vars PROVE PlaceInv'
  OBVIOUS
<1>1. CASE \A t \in Tasks : ~ProgramServiceStep(t)
  BY <1>1, OutsideProgramService DEF PlaceInv, CallerMoves, ProgramInv, ProgramTypeOK
<1>. QED  BY <1>1, PlaceStep

\* At power-up no task is inside the program service.
LEMMA PlaceInitInv == Init => PlaceInv
  BY DEF Init, ProgramServiceInit, PlaceInv

NobodyAborts == "program_abort" \notin Requests

AbortPcs == {"abort_active", "abort_lock", "abort", "abort_zone_wait", "abort_master",
             "abort_master_wait"}

NoAbort == \A t \in Tasks : programPc[t] \notin AbortPcs

\* Nobody is in program_service_abort when no request calls it.
LEMMA NoAbortStep ==
    ASSUME NobodyAborts, ProgramInv, NoAbort, [Next]_vars
    PROVE  NoAbort'
<1>. USE DEF NoAbort, AbortPcs, ProgramInv, ProgramTypeOK
<1>1. ASSUME NEW t \in Tasks, ProgramServiceStep(t)
      PROVE  NoAbort'
  BY <1>1
  DEF ProgramServiceStep, ProgramGoto, ProgramReturn, FinishAndReturn, ProgramCallPcs,
      ProgramLockPcs, CheckActive, AcquireProgramLock, RejectProgramCall, StartBegin,
      StartRejected, StartOpened, ProcessNothing, ProcessWaitingMaster,
      MasterTimeProcessed, MasterRead, OpenCurrentZone, CurrentZoneOpened,
      ProcessStepElapsed, StepZoneClosed, ProcessPostDelayElapsed, ProgramFinished,
      FaultCloseMaster, FaultMasterClosed, FaultLeaveMaster, AbortZone, AbortNoZone,
      AbortZoneClosed, AbortCloseMaster, AbortMasterAlreadyClosed, AbortMasterClosed
<1>2. CASE \A t \in Tasks : ~ProgramServiceStep(t)
  BY <1>2, OutsideProgramService DEF CallerMoves, NobodyAborts
<1>. QED  BY <1>1, <1>2

\* FAULT is final as long as nobody aborts: no completion, rejected start or
\* belated result of another service writes over it.  (An abort that passed its
\* check of an active program before the fault does: run fault_overwritten.)
THEOREM FaultIsFinalWithoutAborts ==
    ASSUME NobodyAborts
    PROVE  Spec => ProgramFaultIsFinal
<1>1. ProgramInv /\ PlaceInv /\ NoAbort /\ [Next]_vars
        => [programState = "FAULT" => programState' = "FAULT"]_vars
  <2>. SUFFICES ASSUME ProgramInv, PlaceInv, NoAbort, [Next]_vars, programState = "FAULT"
                PROVE  programState' = "FAULT"
    OBVIOUS
  <2>1. ASSUME NEW t \in Tasks, ProgramServiceStep(t)
        PROVE  programState' = "FAULT"
    BY <2>1
    DEF PlaceInv, NoAbort, AbortPcs, ProgramServiceStep, ProgramGoto, ProgramStateUnchanged,
        FinishAndReturn, SetProgramTerminal, storeProgramVars,
        CheckActive, AcquireProgramLock, RejectProgramCall, StartBegin, StartProgram,
        CanStartProgram, StartRejected, StartOpened, ProcessNothing,
        ProcessWaitingMaster, MasterTimeProcessed, MasterRead, OpenCurrentZone,
        CurrentZoneOpened, SetProgramRunningZone, ProcessStepElapsed, StepZoneClosed,
        SetProgramWaitingPostDelay, ProcessPostDelayElapsed, ProgramFinished,
        FaultCloseMaster, FaultMasterClosed, FaultLeaveMaster, AbortZone, AbortNoZone,
        AbortZoneClosed, AbortCloseMaster, AbortMasterAlreadyClosed, AbortMasterClosed
  <2>2. CASE \A t \in Tasks : ~ProgramServiceStep(t)
    BY <2>2, OutsideProgramService
  <2>. QED  BY <2>1, <2>2
<1>2. Init => NoAbort
  BY DEF Init, ProgramServiceInit, NoAbort, AbortPcs
<1>3. ProgramInv /\ NoAbort /\ [Next]_vars => NoAbort'
  BY NoAbortStep
<1>. QED
  BY <1>1, <1>2, <1>3, PlaceInitInv, PlaceNextInv, ProgramInvariant, PTL
  DEF Spec, ProgramFaultIsFinal
=============================================================================
