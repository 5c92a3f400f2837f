--------------------------- MODULE ProgramService ---------------------------
(***************************************************************************)
(* The program service (domain/programs/program_service.c): runs one       *)
(* irrigation program, a sequence of zones, by calling the master valve    *)
(* and zone services.                                                      *)
(*                                                                         *)
(* The program fields of the store and service->program are written under  *)
(* the program operation lock only, so what process and abort snapshot at  *)
(* their start is read here where it is used.  Two things are read without *)
(* the lock and may be stale when used: whether a program is active, which *)
(* every operation asks before it tries the lock, and the state of the     *)
(* master valve and of the outputs.  A call to another service is two      *)
(* steps, the call and the collection of its result; between them the      *)
(* called service runs, and so does every other task.                      *)
(***************************************************************************)
EXTENDS ZoneService, MasterValveService, Sequences

CONSTANTS
    Programs,    \* the configured programs
    NoProgram,   \* service->program before the first start
    Steps        \* Steps[p]: the zones of program p in order

ASSUME ProgramAssumption ==
    /\ NoProgram \notin Programs
    /\ Steps \in [Programs -> Seq(Zones)]
    /\ \A p \in Programs : Steps[p] # <<>>
    /\ \A p \in Programs : 0..(Len(Steps[p]) - 1) \subseteq StepIndices

VARIABLES
    programLock,  \* operation_lock: the task that holds it, or NoTask
    programPc,    \* where each task stands in the service
    programArg,   \* the program it asked to start
    program       \* service->program

programServiceVars == <<programLock, programPc, programArg, program>>
allZoneVars    == <<storeZoneVars, zoneServiceVars>>
allMasterVars  == <<storeMasterVars, masterServiceVars>>
allProgramVars == <<storeProgramVars, programServiceVars>>

ProgramCallPcs   == {"start_active", "process_active", "abort_active"}
ProgramLockPcs   == {"start_lock", "process_lock", "abort_lock"}
ProgramWaitPcs   == {"start_master_wait", "master_time_wait", "open_zone_wait",
                     "close_zone_wait", "finish_wait", "fault_wait",
                     "abort_zone_wait", "abort_master_wait"}
ProgramLockedPcs == ProgramWaitPcs \cup
                    {"start", "process", "master_read", "open_zone", "fault",
                     "abort", "abort_master"}
ProgramPcs       == {"idle", "ok", "fail"} \cup ProgramCallPcs \cup ProgramLockPcs
                       \cup ProgramLockedPcs

ProgramServiceInit ==
    /\ programLock = NoTask
    /\ programPc = [t \in Tasks |-> "idle"]
    /\ programArg = [t \in Tasks |-> NoProgram]
    /\ program = NoProgram

ProgramGoto(t, from, to) ==
    programPc[t] = from /\ programPc' = [programPc EXCEPT ![t] = to]

\* operation_lock_release and return.
ProgramReturn(t, result) ==
    /\ programPc' = [programPc EXCEPT ![t] = result]
    /\ programLock' = NoTask

\* A step inside the locked part that changes no field of the store.
ProgramStateUnchanged == UNCHANGED <<storeProgramVars, programLock, programArg, program>>

\* finish and release: the terminal state is written whatever the state was.
FinishAndReturn(t, state, result) ==
    /\ SetProgramTerminal(state)
    /\ ProgramReturn(t, result)
    /\ UNCHANGED <<programArg, program>>

(***************************************************************************)
(* The calls and what becomes of their result                              *)
(***************************************************************************)

CallProgram(t, op, p) ==
    /\ ProgramGoto(t, "idle", CASE op = "start"   -> "start_active"
                                [] op = "process" -> "process_active"
                                [] op = "abort"   -> "abort_active")
    /\ programArg' = [programArg EXCEPT ![t] = p]
    /\ UNCHANGED <<storeProgramVars, programLock, program>>

ProgramReturned(t, result) ==
    /\ ProgramGoto(t, result, "idle")
    /\ programArg' = [programArg EXCEPT ![t] = NoProgram]
    /\ UNCHANGED <<storeProgramVars, programLock, program>>

\* program_service_is_active, asked before the lock is tried: start wants no
\* active program, process and abort want one.
CheckActive(t) ==
    /\ programPc[t] \in ProgramCallPcs
    /\ programPc' = [programPc EXCEPT ![t] =
          IF ProgramIsActive = (@ = "start_active") THEN "fail"
          ELSE CASE @ = "start_active"   -> "start_lock"
                 [] @ = "process_active" -> "process_lock"
                 [] @ = "abort_active"   -> "abort_lock"]
    /\ ProgramStateUnchanged

\* Mutant: the lock is taken without a look at it.
SeizeProgramLock(t) ==
    /\ programPc[t] \in ProgramLockPcs
    /\ programLock' = t
    /\ programPc' = [programPc EXCEPT ![t] =
          CASE @ = "start_lock"   -> "start"
            [] @ = "process_lock" -> "process"
            [] @ = "abort_lock"   -> "abort"]
    /\ UNCHANGED <<storeProgramVars, programArg, program>>

AcquireProgramLock(t) ==
    /\ programPc[t] \in ProgramLockPcs
    /\ programLock = NoTask
    /\ programLock' = t
    /\ programPc' = [programPc EXCEPT ![t] =
          CASE @ = "start_lock"   -> "start"
            [] @ = "process_lock" -> "process"
            [] @ = "abort_lock"   -> "abort"]
    /\ UNCHANGED <<storeProgramVars, programArg, program>>

RejectProgramCall(t) ==
    /\ programPc[t] \in ProgramLockPcs
    /\ programLock # NoTask
    /\ programPc' = [programPc EXCEPT ![t] = "fail"]
    /\ ProgramStateUnchanged

(***************************************************************************)
(* program_service_start_with_context                                      *)
(***************************************************************************)

\* service->program is written before the store accepts the start.
StartBegin(t) ==
    /\ program' = programArg[t]
    /\ ProgramGoto(t, "start", "start_master_wait")
    /\ StartProgram
    /\ CallMaster(t, "open")
    /\ UNCHANGED <<programLock, programArg>>

\* Mutant: an early return without operation_lock_release.
StartRejectedLocked(t) ==
    /\ ~CanStartProgram
    /\ program' = programArg[t]
    /\ stepElapsed' = FALSE
    /\ ProgramGoto(t, "start", "fail")
    /\ UNCHANGED <<programState, stepIndex, programLock, programArg, allMasterVars>>

\* The delay of a running step is now read from the steps of program'.
StartRejected(t) ==
    /\ programPc[t] = "start"
    /\ ~CanStartProgram
    /\ program' = programArg[t]
    /\ stepElapsed' = FALSE
    /\ ProgramReturn(t, "fail")
    /\ UNCHANGED <<programState, stepIndex, programArg, allMasterVars>>

StartOpened(t) ==
    /\ programPc[t] = "start_master_wait"
    /\ \/ /\ MasterReturned(t, "ok")
          /\ ProgramReturn(t, "ok")
          /\ UNCHANGED <<storeProgramVars, programArg, program>>
       \/ /\ MasterReturned(t, "fail")
          /\ FinishAndReturn(t, "FAULT", "fail")

(***************************************************************************)
(* program_service_process                                                 *)
(***************************************************************************)

\* The zone of the current step.  The index is not compared with step_count,
\* which another program's start may have changed (StartRejected): past the
\* end lies whatever step a deleted program left in the slot, or none.
StepZones ==
    IF program # NoProgram /\ stepIndex < Len(Steps[program])
    THEN {Steps[program][stepIndex + 1]}
    ELSE Zones \cup {NoZone}

\* Mutant: off by one.
HasNextStepOrNone == stepIndex + 1 <= Len(Steps[program])

HasNextStep == stepIndex + 1 < Len(Steps[program])

\* A state in which there is nothing to do yet, or no longer.
ProcessIdles ==
    \/ programState \notin ActivePrograms
    \/ programState # "WAITING_MASTER" /\ ~stepElapsed

ProcessNothing(t) ==
    /\ programPc[t] = "process"
    /\ ProcessIdles
    /\ ProgramReturn(t, "ok")
    /\ UNCHANGED <<storeProgramVars, programArg, program, allZoneVars, allMasterVars>>

ProcessWaitingMaster(t) ==
    /\ programState = "WAITING_MASTER"
    /\ ProgramGoto(t, "process", "master_time_wait")
    /\ CallMaster(t, "process_time")
    /\ ProgramStateUnchanged
    /\ UNCHANGED allZoneVars

MasterTimeProcessed(t) ==
    /\ \/ /\ MasterReturned(t, "ok")
          /\ ProgramGoto(t, "master_time_wait", "master_read")
       \/ /\ MasterReturned(t, "fail")
          /\ ProgramGoto(t, "master_time_wait", "fault")
    /\ ProgramStateUnchanged
    /\ UNCHANGED allZoneVars

\* master_valve_service_state, without the master valve's lock.
MasterRead(t) ==
    /\ programPc[t] = "master_read"
    /\ \/ /\ masterState = "OPEN"
          /\ ProgramGoto(t, "master_read", "open_zone")
          /\ UNCHANGED programLock
       \/ /\ masterState = "FAULT"
          /\ ProgramGoto(t, "master_read", "fault")
          /\ UNCHANGED programLock
       \/ /\ masterState \notin {"OPEN", "FAULT"}
          /\ ProgramReturn(t, "ok")
    /\ UNCHANGED <<storeProgramVars, programArg, program, allZoneVars, allMasterVars>>

\* open_current_zone
OpenCurrentZone(t) ==
    /\ ProgramGoto(t, "open_zone", "open_zone_wait")
    /\ \E z \in StepZones : CallZone(t, "open", z)
    /\ ProgramStateUnchanged
    /\ UNCHANGED allMasterVars

CurrentZoneOpened(t) ==
    /\ programPc[t] = "open_zone_wait"
    /\ \/ /\ ZoneReturned(t, "ok")
          /\ SetProgramRunningZone(stepIndex)
          /\ ProgramReturn(t, "ok")
          /\ UNCHANGED <<programArg, program>>
       \/ /\ ZoneReturned(t, "fail")
          /\ ProgramGoto(t, "open_zone_wait", "fault")
          /\ ProgramStateUnchanged
    /\ UNCHANGED allMasterVars

ProcessStepElapsed(t) ==
    /\ programState = "RUNNING_ZONE"
    /\ stepElapsed
    /\ ProgramGoto(t, "process", "close_zone_wait")
    /\ \E z \in StepZones : CallZone(t, "close", z)
    /\ ProgramStateUnchanged
    /\ UNCHANGED allMasterVars

StepZoneClosed(t) ==
    /\ programPc[t] = "close_zone_wait"
    /\ \/ /\ ZoneReturned(t, "ok")
          /\ HasNextStep
          /\ SetProgramRunningZone(stepIndex + 1)
          /\ ProgramGoto(t, "close_zone_wait", "open_zone")
          /\ UNCHANGED programLock
       \/ /\ ZoneReturned(t, "ok")
          /\ ~HasNextStep
          /\ SetProgramWaitingPostDelay
          /\ ProgramReturn(t, "ok")
       \/ /\ ZoneReturned(t, "fail")
          /\ ProgramGoto(t, "close_zone_wait", "fault")
          /\ UNCHANGED <<storeProgramVars, programLock>>
    /\ UNCHANGED <<programArg, program, allMasterVars>>

ProcessPostDelayElapsed(t) ==
    /\ programState = "WAITING_POST_PROGRAM_DELAY"
    /\ stepElapsed
    /\ ProgramGoto(t, "process", "finish_wait")
    /\ CallMaster(t, "close")
    /\ ProgramStateUnchanged
    /\ UNCHANGED allZoneVars

\* COMPLETED whether or not the master valve confirmed that it closed.
ProgramFinished(t) ==
    /\ programPc[t] = "finish_wait"
    /\ \E result \in {"ok", "fail"} :
          /\ MasterReturned(t, result)
          /\ FinishAndReturn(t, "COMPLETED", result)
    /\ UNCHANGED allZoneVars

(***************************************************************************)
(* fault                                                                   *)
(***************************************************************************)

\* Mutant: the store is told that the valve closes, the valve service is not.
FaultRecordsClosing(t) ==
    /\ programPc[t] = "fault"
    /\ BeginMasterValveClose
    /\ FinishAndReturn(t, "FAULT", "fail")
    /\ UNCHANGED <<masterServiceVars, allZoneVars>>

FaultCloseMaster(t) ==
    /\ MasterValveCloseIsEligible
    /\ ProgramGoto(t, "fault", "fault_wait")
    /\ CallMaster(t, "close")
    /\ ProgramStateUnchanged
    /\ UNCHANGED allZoneVars

FaultMasterClosed(t) ==
    /\ programPc[t] = "fault_wait"
    /\ \E result \in {"ok", "fail"} : MasterReturned(t, result)
    /\ FinishAndReturn(t, "FAULT", "fail")
    /\ UNCHANGED allZoneVars

\* Mutant: no finish, the program stays where the fault found it.
FaultReturns(t) ==
    /\ programPc[t] = "fault"
    /\ ~MasterValveCloseIsEligible
    /\ ProgramReturn(t, "fail")
    /\ UNCHANGED <<storeProgramVars, programArg, program, allZoneVars, allMasterVars>>

FaultLeaveMaster(t) ==
    /\ programPc[t] = "fault"
    /\ ~MasterValveCloseIsEligible
    /\ FinishAndReturn(t, "FAULT", "fail")
    /\ UNCHANGED <<allZoneVars, allMasterVars>>

(***************************************************************************)
(* program_service_abort                                                   *)
(***************************************************************************)

\* Mutant: the zone is closed in the store, not by the zone service.
AbortRecordsZoneClosed(t) ==
    /\ programState = "RUNNING_ZONE"
    /\ ProgramGoto(t, "abort", "abort_master")
    /\ \E z \in StepZones \ {NoZone} : CloseZone(z)
    /\ ProgramStateUnchanged
    /\ UNCHANGED <<zoneServiceVars, allMasterVars>>

\* Mutant: the zone is forgotten.
AbortForgetsZone(t) ==
    /\ programState = "RUNNING_ZONE"
    /\ ProgramGoto(t, "abort", "abort_master")
    /\ ProgramStateUnchanged
    /\ UNCHANGED <<allZoneVars, allMasterVars>>

AbortZone(t) ==
    /\ programState = "RUNNING_ZONE"
    /\ ProgramGoto(t, "abort", "abort_zone_wait")
    /\ \E z \in StepZones : CallZone(t, "close", z)
    /\ ProgramStateUnchanged
    /\ UNCHANGED allMasterVars

AbortNoZone(t) ==
    /\ programState # "RUNNING_ZONE"
    /\ ProgramGoto(t, "abort", "abort_master")
    /\ ProgramStateUnchanged
    /\ UNCHANGED <<allZoneVars, allMasterVars>>

AbortZoneClosed(t) ==
    /\ programPc[t] = "abort_zone_wait"
    /\ \/ /\ ZoneReturned(t, "ok")
          /\ ProgramGoto(t, "abort_zone_wait", "abort_master")
          /\ ProgramStateUnchanged
       \/ /\ ZoneReturned(t, "fail")
          /\ FinishAndReturn(t, "FAULT", "fail")
    /\ UNCHANGED allMasterVars

AbortCloseMaster(t) ==
    /\ masterState # "CLOSED"
    /\ ProgramGoto(t, "abort_master", "abort_master_wait")
    /\ CallMaster(t, "close")
    /\ ProgramStateUnchanged
    /\ UNCHANGED allZoneVars

AbortMasterAlreadyClosed(t) ==
    /\ programPc[t] = "abort_master"
    /\ masterState = "CLOSED"
    /\ FinishAndReturn(t, "ABORTED", "ok")
    /\ UNCHANGED <<allZoneVars, allMasterVars>>

AbortMasterClosed(t) ==
    /\ programPc[t] = "abort_master_wait"
    /\ \/ MasterReturned(t, "ok") /\ FinishAndReturn(t, "ABORTED", "ok")
       \/ MasterReturned(t, "fail") /\ FinishAndReturn(t, "FAULT", "fail")
    /\ UNCHANGED allZoneVars

(***************************************************************************)
(* One step of task t inside the service.                                  *)
(***************************************************************************)

ProgramServiceStep(t) ==
    \/ /\ \/ CheckActive(t)
          \/ AcquireProgramLock(t)
          \/ RejectProgramCall(t)
       /\ UNCHANGED <<allZoneVars, allMasterVars>>
    \/ /\ StartBegin(t) \/ StartRejected(t) \/ StartOpened(t)
       /\ UNCHANGED allZoneVars
    \/ ProcessNothing(t)
    \/ ProcessWaitingMaster(t)
    \/ MasterTimeProcessed(t)
    \/ MasterRead(t)
    \/ OpenCurrentZone(t)
    \/ CurrentZoneOpened(t)
    \/ ProcessStepElapsed(t)
    \/ StepZoneClosed(t)
    \/ ProcessPostDelayElapsed(t)
    \/ ProgramFinished(t)
    \/ FaultCloseMaster(t)
    \/ FaultMasterClosed(t)
    \/ FaultLeaveMaster(t)
    \/ AbortZone(t)
    \/ AbortNoZone(t)
    \/ AbortZoneClosed(t)
    \/ AbortCloseMaster(t)
    \/ AbortMasterAlreadyClosed(t)
    \/ AbortMasterClosed(t)

-----------------------------------------------------------------------------

\* Type invariant.
ProgramTypeOK ==
    /\ programState \in ProgramStates
    /\ stepIndex \in StepIndices
    /\ stepElapsed \in BOOLEAN
    /\ programLock \in Tasks \cup {NoTask}
    /\ programPc \in [Tasks -> ProgramPcs]
    /\ programArg \in [Tasks -> Programs \cup {NoProgram}]
    /\ program \in Programs \cup {NoProgram}

\* programLock is held exactly by the task inside the service, on every path
\* through the nested calls.
ProgramLockIsOwned == \A t \in Tasks : programLock = t <=> programPc[t] \in ProgramLockedPcs
=============================================================================
