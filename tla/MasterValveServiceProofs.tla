---------------------- MODULE MasterValveServiceProofs ----------------------
(***************************************************************************)
(* The safety of the master valve service, for every set of tasks.         *)
(*                                                                         *)
(* The record of the valve is written by the holder of the lock only, so   *)
(* what the holder read at its check is still so when the driver answers:  *)
(* MasterHolderInv.  The outputs, which this lock does not guard, have no  *)
(* part in it.  The valve at the start may stand either way; MasterInv     *)
(* says nothing of a valve recorded CLOSED, ClosedValveStep does.          *)
(***************************************************************************)
EXTENDS MasterValveService, TLAPS

\* What the holder of the lock may still rely on.
MasterHolderInv ==
    \A t \in Tasks :
        /\ masterPc[t] = "open_drive" => masterState \in {"CLOSED", "FAULT"}
        /\ masterPc[t] = "close_begin" => masterState \in {"OPEN", "OPENING"}
        /\ masterPc[t] = "close_drive" => masterState = "CLOSING"

MasterInv ==
    /\ MasterTypeOK
    /\ MasterLockIsOwned
    /\ MasterHolderInv
    /\ RemoteValveIsKnown
    /\ ClosingIsInProgress

\* Where a call enters the service, before and behind the lock.
LEMMA MasterPcsCover ==
    /\ \A op \in MasterOps : MasterLockPc(op) \in MasterCallPcs
    /\ \A pc \in MasterCallPcs : MasterFirstPc(pc) \in {"open_check", "process_time", "close_check"}
  BY DEF MasterOps, MasterLockPc, MasterCallPcs, MasterFirstPc

\* The service after power-up.
LEMMA MasterInitInv == MasterInit => MasterInv
  BY TasksAssumption
  DEF MasterInit, MasterServiceInit, MasterInv, MasterTypeOK, MasterLockIsOwned,
      MasterHolderInv, RemoteValveIsKnown, ClosingIsInProgress, MasterStates,
      MasterPcs, MasterCallPcs, MasterLockedPcs

\* Calls and returns take place outside the lock.
LEMMA MasterClientInv ==
    ASSUME MasterInv, NEW t \in Tasks, MasterClient(t)
    PROVE  MasterInv'
<1>. USE DEF MasterInv, MasterTypeOK, MasterLockIsOwned, MasterHolderInv,
             RemoteValveIsKnown, ClosingIsInProgress, MasterPcs, MasterCallPcs,
             MasterLockedPcs, MasterGoto, storeMasterVars
<1>1. ASSUME NEW op \in MasterOps, CallMaster(t, op)
      PROVE  MasterInv'
  BY <1>1, MasterPcsCover DEF CallMaster
<1>2. ASSUME NEW result \in {"ok", "fail"}, MasterReturned(t, result)
      PROVE  MasterInv'
  BY <1>2 DEF MasterReturned
<1>. QED  BY <1>1, <1>2 DEF MasterClient

\* Every step inside the service.
LEMMA MasterServiceStepInv ==
    ASSUME MasterInv, NEW t \in Tasks, MasterServiceStep(t)
    PROVE  MasterInv'
<1>. USE TasksAssumption
     DEF MasterInv, MasterTypeOK, MasterLockIsOwned, MasterHolderInv,
         RemoteValveIsKnown, ClosingIsInProgress, MasterStates, MasterPcs,
         MasterCallPcs, MasterLockedPcs, MasterGoto, MasterReturn, storeMasterVars
<1>1. CASE AcquireMasterLock(t)
  BY <1>1, MasterPcsCover DEF AcquireMasterLock
<1>2. CASE RejectMasterCall(t)
  BY <1>2 DEF RejectMasterCall
<1>3. CASE MasterOpenCheck(t) \/ MasterOpenRejects(t)
  BY <1>3 DEF MasterOpenCheck, MasterOpenRejects
<1>4. CASE MasterDrive(t)
  <2>1. CASE remoteValve' = Requested(t) /\ DriverConfirmed(t)
    BY <1>4, <2>1 DEF MasterDrive, DriverIsCalled, Requested, DriverConfirmed,
                      BeginMasterValveOpen, CompleteMasterValveClose
  <2>2. CASE remoteValve' \in {remoteValve, Requested(t)} /\ DriverFailed(t)
    BY <1>4, <2>2 DEF MasterDrive, DriverIsCalled, Requested, DriverFailed,
                      RecordMasterValveFault
  <2>. QED  BY <1>4, <2>1, <2>2 DEF MasterDrive
<1>5. CASE MasterProcessTime(t)
  BY <1>5 DEF MasterProcessTime, CompleteMasterValvePreOpenDelay
<1>6. CASE MasterCloseCheck(t) \/ MasterCloseRejects(t)
  BY <1>6 DEF MasterCloseCheck, MasterValveCloseIsEligible, MasterCloseRejects
<1>7. CASE MasterCloseBegin(t)
  BY <1>7 DEF MasterCloseBegin, WriteMasterValveClosing
<1>. QED
  BY <1>1, <1>2, <1>3, <1>4, <1>5, <1>6, <1>7 DEF MasterServiceStep, OtherMasterStep

\* MasterInv is inductive.
LEMMA MasterNextInv == MasterInv /\ [MasterNext]_masterVars => MasterInv'
<1>. SUFFICES ASSUME MasterInv, [MasterNext]_masterVars PROVE MasterInv'
  OBVIOUS
<1>1. CASE PreOpenDelayElapses /\ UNCHANGED <<outputState, masterServiceVars>>
  BY <1>1 DEF PreOpenDelayElapses, masterServiceVars, MasterInv, MasterTypeOK,
              MasterLockIsOwned, MasterHolderInv, RemoteValveIsKnown,
              ClosingIsInProgress
<1>2. CASE OutputsChange \/ UNCHANGED masterVars
  BY <1>2 DEF OutputsChange, masterVars, storeMasterVars, masterServiceVars,
              MasterInv, MasterTypeOK, MasterLockIsOwned, MasterHolderInv,
              RemoteValveIsKnown, ClosingIsInProgress
<1>3. CASE RemoteValveWorks
  <2>1. UNCHANGED <<storeMasterVars, masterLock, masterPc>>
    BY <1>3 DEF RemoteValveWorks
  <2>2. MasterTypeOK' /\ MasterLockIsOwned' /\ MasterHolderInv' /\ ClosingIsInProgress'
    BY <1>3, <2>1 DEF RemoteValveWorks, storeMasterVars, MasterInv, MasterTypeOK,
                      MasterLockIsOwned, MasterHolderInv, ClosingIsInProgress
  <2>3. RemoteValveIsKnown'
    BY <1>3, <2>1 DEF RemoteValveWorks, storeMasterVars, DriverIsCalled, MasterInv,
                      MasterHolderInv, MasterLockIsOwned, MasterLockedPcs,
                      RemoteValveIsKnown
  <2>. QED  BY <2>2, <2>3 DEF MasterInv
<1>. QED
  BY <1>1, <1>2, <1>3, MasterClientInv, MasterServiceStepInv
  DEF MasterNext, AroundMasterService

\* Type correctness of the master valve service.
THEOREM MasterTypeCorrect == MasterSpec => []MasterTypeOK
<1>1. MasterInv => MasterTypeOK
  BY DEF MasterInv
<1>. QED  BY <1>1, MasterInitInv, MasterNextInv, PTL DEF MasterSpec

\* The operation lock is held by the task inside and freed on every way out.
THEOREM MasterLockCorrect == MasterSpec => []MasterLockIsOwned
<1>1. MasterInv => MasterLockIsOwned
  BY DEF MasterInv
<1>. QED  BY <1>1, MasterInitInv, MasterNextInv, PTL DEF MasterSpec

\* A valve that is recorded OPENING or OPEN is open, whichever answers of the
\* driver are lost and whatever contrary requests the tasks make, also when the
\* valve stood open at the start behind the CLOSED of an initial store.
THEOREM RemoteValveCorrect == MasterSpec => []RemoteValveIsKnown
<1>1. MasterInv => RemoteValveIsKnown
  BY DEF MasterInv
<1>. QED  BY <1>1, MasterInitInv, MasterNextInv, PTL DEF MasterSpec

\* A true CLOSED stays true: only a confirming driver call records one, and a
\* valve that nobody has in a driver call moves in FAULT only.
LEMMA ClosedValveStep ==
    ASSUME MasterInv, ClosedIsTrue, [MasterNext]_masterVars
    PROVE  ClosedIsTrue'
<1>. USE DEF ClosedIsTrue, MasterInv, MasterTypeOK, storeMasterVars
<1>1. ASSUME NEW t \in Tasks, MasterDrive(t)
      PROVE  ClosedIsTrue'
  <2>1. CASE remoteValve' = Requested(t) /\ DriverConfirmed(t)
    BY <1>1, <2>1 DEF MasterDrive, DriverIsCalled, Requested, DriverConfirmed,
                      BeginMasterValveOpen, CompleteMasterValveClose
  <2>2. CASE DriverFailed(t)
    BY <2>2 DEF DriverFailed, RecordMasterValveFault
  <2>. QED  BY <1>1, <2>1, <2>2 DEF MasterDrive
<1>2. ASSUME NEW t \in Tasks, OtherMasterStep(t)
      PROVE  ClosedIsTrue'
  <2>. USE DEF MasterGoto, MasterReturn
  <2>1. CASE AcquireMasterLock(t) \/ RejectMasterCall(t)
    BY <2>1 DEF AcquireMasterLock, RejectMasterCall, MasterCallPcs
  <2>2. CASE MasterOpenCheck(t) \/ MasterOpenRejects(t)
    BY <2>2 DEF MasterOpenCheck, MasterOpenRejects
  <2>3. CASE MasterProcessTime(t)
    BY <2>3 DEF MasterProcessTime, CompleteMasterValvePreOpenDelay
  <2>4. CASE MasterCloseCheck(t) \/ MasterCloseRejects(t)
    BY <2>4 DEF MasterCloseCheck, MasterCloseRejects
  <2>5. CASE MasterCloseBegin(t)
    BY <2>5 DEF MasterCloseBegin, WriteMasterValveClosing
  <2>. QED  BY <1>2, <2>1, <2>2, <2>3, <2>4, <2>5 DEF OtherMasterStep
<1>3. CASE AroundMasterService
  BY <1>3 DEF AroundMasterService, MasterClient, CallMaster, MasterReturned,
              MasterGoto, PreOpenDelayElapses, OutputsChange, masterServiceVars
<1>4. CASE RemoteValveWorks
  <2>1. UNCHANGED <<storeMasterVars, masterPc>>
    BY <1>4 DEF RemoteValveWorks
  <2>2. CASE masterState = "FAULT"
    BY <2>1, <2>2
  <2>3. ASSUME NEW t \in Tasks, DriverIsCalled(t)
        PROVE  ClosedIsTrue'
    BY <2>1, <2>3 DEF DriverIsCalled, MasterHolderInv
  <2>. QED  BY <1>4, <2>2, <2>3 DEF RemoteValveWorks
<1>5. CASE UNCHANGED masterVars
  BY <1>5 DEF masterVars, masterServiceVars
<1>. QED
  BY <1>1, <1>2, <1>3, <1>4, <1>5 DEF MasterNext, MasterServiceStep

\* Every CLOSED that is recorded is recorded of a closed valve, and no step
\* opens a valve behind it.  The CLOSED of the initial store is excepted, of
\* which nobody has asked the valve.
THEOREM ClosedValveCorrect == MasterSpec => ClosedIsConfirmed
<1>1. MasterInv /\ [MasterNext]_masterVars => [ClosedIsTrue => ClosedIsTrue']_masterVars
  BY ClosedValveStep
<1>. QED
  BY <1>1, MasterInitInv, MasterNextInv, PTL DEF MasterSpec, ClosedIsConfirmed

\* From the moment the store says anything but CLOSED, which is the driver's
\* first answer, all it says of the valve is true.
COROLLARY ClosedIsTrueOnceLeft ==
    MasterSpec => [](masterState # "CLOSED" => []ClosedIsTrue)
<1>1. masterState # "CLOSED" => ClosedIsTrue
  BY DEF ClosedIsTrue
<1>2. MasterInv /\ ClosedIsTrue /\ [MasterNext]_masterVars => ClosedIsTrue'
  BY ClosedValveStep
<1>. QED  BY <1>1, <1>2, MasterInitInv, MasterNextInv, PTL DEF MasterSpec

\* CLOSING, from which no operation leads away, is only seen while a task waits
\* for the driver inside master_valve_service_close.
THEOREM ClosingIsTransient == MasterSpec => []ClosingIsInProgress
<1>1. MasterInv => ClosingIsInProgress
  BY DEF MasterInv
<1>. QED  BY <1>1, MasterInitInv, MasterNextInv, PTL DEF MasterSpec
=============================================================================
