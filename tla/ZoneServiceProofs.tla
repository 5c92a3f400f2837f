------------------------- MODULE ZoneServiceProofs --------------------------
(***************************************************************************)
(* The safety of the state store under any order of atomic calls, and that *)
(* of the zone service, for every set of zones and of tasks.               *)
(*                                                                         *)
(* The four invariants of the store are inductive only together: a zone    *)
(* may open because the scan found every output OFF, and it takes          *)
(* OutputMatchesZone to conclude from outputs that no zone is OPEN.        *)
(*                                                                         *)
(* In the zone service the calls are not atomic.  OneRelayEnergised speaks *)
(* of the board and the guards of the code speak of the store, so the      *)
(* inductive invariant ties the two: an output recorded OFF is dead and    *)
(* one recorded ON is live, except for the zone the holder of the lock is  *)
(* driving (RelayInv), about which the place of the holder in the code     *)
(* says enough (HolderInv).  That there is but one holder is               *)
(* ZoneLockIsOwned.                                                        *)
(***************************************************************************)
EXTENDS ZoneService, TLAPS

-----------------------------------------------------------------------------
(* The store on its own. *)

StoreInv ==
    /\ StoreTypeOK
    /\ OutputMatchesZone
    /\ OneOpenZone
    /\ NoOpenZoneBehindClosedMaster

\* A scan that finds no output active leaves no zone open: what opening a zone
\* and closing the master valve both rest on.
LEMMA QuietOutputsNoOpenZone ==
    ASSUME StoreTypeOK, OutputMatchesZone, ~HasActiveOrUnknownOutput
    PROVE  \A z \in Zones : zoneState[z] # "OPEN"
  BY DEF StoreTypeOK, OutputMatchesZone, HasActiveOrUnknownOutput

\* state_store_configure_zones leaves every configured zone IDLE or DISABLED.
LEMMA ConfiguredZonesType == ConfiguredZones \in [Zones -> {"IDLE", "DISABLED"}]
  BY DEF ConfiguredZones

\* The store after power-up.
LEMMA StoreInitInv == StoreInit => StoreInv
  BY StoreAssumption
  DEF StoreInit, StoreInv, StoreTypeOK, OutputMatchesZone, OneOpenZone,
      NoOpenZoneBehindClosedMaster, SystemStates, ZoneStates, OutputStates,
      MasterStates, ProgramStates

\* The zone fields: state_store_transition_system, _configure_zones,
\* _open_zone, _close_zone and _record_zone_actuation_fault.
LEMMA ZoneCallInv ==
    ASSUME StoreInv, ZoneCall, UNCHANGED <<storeMasterVars, storeProgramVars>>
    PROVE  StoreInv'
<1> USE DEF StoreInv, StoreTypeOK, OutputMatchesZone, OneOpenZone,
            NoOpenZoneBehindClosedMaster, storeMasterVars, storeProgramVars
<1>1. ASSUME NEW s \in SystemStates, TransitionSystem(s)
      PROVE  StoreInv'
  BY <1>1 DEF TransitionSystem
<1>2. CASE ConfigureZones
  <2>1. \A z \in Zones : zoneState[z] = "ABSENT" /\ outputState[z] = "OFF"
    BY <1>2 DEF ConfigureZones, OutputStates
  <2>2. /\ zoneState' \in [Zones -> {"IDLE", "DISABLED"}]
        /\ UNCHANGED <<systemState, outputState>>
    BY <1>2, ConfiguredZonesType DEF ConfigureZones
  <2>. QED  BY <2>1, <2>2 DEF ZoneStates
<1>3. ASSUME NEW z \in Zones, OpenZone(z)
      PROVE  StoreInv'
  <2>1. /\ \A y \in Zones : zoneState[y] # "OPEN" /\ outputState[y] = "OFF"
        /\ masterState = "OPEN"
    BY <1>3, QuietOutputsNoOpenZone DEF OpenZone, CanOpenZone, HasActiveOrUnknownOutput
  <2>2. /\ zoneState' = [zoneState EXCEPT ![z] = "OPEN"]
        /\ outputState' = [outputState EXCEPT ![z] = "ON"]
        /\ UNCHANGED systemState
    BY <1>3 DEF OpenZone, WriteZoneOpen
  <2>. QED  BY <2>1, <2>2 DEF ZoneStates, OutputStates
<1>4. ASSUME NEW z \in Zones, CloseZone(z)
      PROVE  StoreInv'
  <2>1. /\ zoneState' = [zoneState EXCEPT ![z] = "IDLE"]
        /\ outputState' = [outputState EXCEPT ![z] = "OFF"]
        /\ systemState' \in SystemStates
    BY <1>4 DEF CloseZone, SystemStates
  <2>. QED  BY <2>1 DEF ZoneStates, OutputStates
<1>5. ASSUME NEW z \in Zones, NEW o \in {"OFF", "UNKNOWN"}, RecordZoneActuationFault(z, o)
      PROVE  StoreInv'
  <2>1. /\ zoneState' = [zoneState EXCEPT ![z] = "FAULT"]
        /\ outputState' = [outputState EXCEPT ![z] = o]
        /\ systemState' = "ERROR"
    BY <1>5 DEF RecordZoneActuationFault
  <2>. QED  BY <2>1 DEF ZoneStates, OutputStates, SystemStates
<1>. QED  BY <1>1, <1>2, <1>3, <1>4, <1>5 DEF ZoneCall

\* The master valve fields: only a closing could leave an open zone behind it.
LEMMA MasterCallInv ==
    ASSUME StoreInv, MasterCall, UNCHANGED <<storeZoneVars, storeProgramVars>>
    PROVE  StoreInv'
<1> USE DEF StoreInv, storeZoneVars, storeProgramVars
<1>1. StoreTypeOK' /\ OutputMatchesZone' /\ OneOpenZone'
  BY DEF MasterCall, BeginMasterValveOpen, CompleteMasterValvePreOpenDelay,
         BeginMasterValveClose, WriteMasterValveClosing, CompleteMasterValveClose,
         RecordMasterValveFault, PreOpenDelayElapses, StoreTypeOK,
         OutputMatchesZone, OneOpenZone, MasterStates
<1>2. NoOpenZoneBehindClosedMaster'
  <2>1. CASE BeginMasterValveClose
    BY <2>1, QuietOutputsNoOpenZone
    DEF BeginMasterValveClose, MasterValveCloseIsEligible, NoOpenZoneBehindClosedMaster
  <2>2. CASE ~BeginMasterValveClose
    BY <2>2 DEF MasterCall, BeginMasterValveOpen, CompleteMasterValvePreOpenDelay,
                CompleteMasterValveClose, RecordMasterValveFault,
                PreOpenDelayElapses, NoOpenZoneBehindClosedMaster
  <2>. QED  BY <2>1, <2>2
<1>. QED  BY <1>1, <1>2

\* The program fields, which no invariant of the zones mentions.
LEMMA ProgramCallInv ==
    ASSUME StoreInv, ProgramCall, UNCHANGED <<storeZoneVars, storeMasterVars>>
    PROVE  StoreInv'
<1>1. StoreTypeOK'
  BY StoreAssumption
  DEF StoreInv, StoreTypeOK, storeZoneVars, storeMasterVars, ProgramCall,
      StartProgram, SetProgramRunningZone, SetProgramWaitingPostDelay,
      SetProgramTerminal, StepDelayElapses, ProgramStates, ActivePrograms,
      TerminalStates
<1>. QED
  BY <1>1 DEF StoreInv, OutputMatchesZone, OneOpenZone,
              NoOpenZoneBehindClosedMaster, storeZoneVars, storeMasterVars

\* StoreInv is an invariant of the store, hence each of its parts: the enums
\* keep to the states the code assigns (StoreTypeOK), state and output of a
\* zone never part (OutputMatchesZone), no two zones are OPEN (OneOpenZone),
\* none is OPEN behind a closed master valve (NoOpenZoneBehindClosedMaster).
THEOREM StoreInvariant ==
    StoreSpec => [](StoreTypeOK /\ OutputMatchesZone /\ OneOpenZone
                                /\ NoOpenZoneBehindClosedMaster)
<1>1. StoreInit => StoreInv
  BY StoreInitInv
<1>2. StoreInv /\ [StoreNext]_storeVars => StoreInv'
  <2>. SUFFICES ASSUME StoreInv, [StoreNext]_storeVars
                PROVE  StoreInv'
    OBVIOUS
  <2>1. CASE StoreNext
    BY <2>1, ZoneCallInv, MasterCallInv, ProgramCallInv DEF StoreNext
  <2>2. CASE UNCHANGED storeVars
    BY <2>2 DEF StoreInv, StoreTypeOK, OutputMatchesZone, OneOpenZone,
                NoOpenZoneBehindClosedMaster, storeVars, storeZoneVars,
                storeMasterVars, storeProgramVars
  <2>. QED  BY <2>1, <2>2
<1>3. StoreInv => StoreTypeOK /\ OutputMatchesZone /\ OneOpenZone
                              /\ NoOpenZoneBehindClosedMaster
  BY DEF StoreInv
<1>. QED  BY <1>1, <1>2, <1>3, PTL DEF StoreSpec

\* ERROR leads nowhere but to BOOT, whatever is closed or recorded meanwhile:
\* state_store_close_zone touches the system state in MANUAL only, and the
\* transition table has one way out of ERROR.
THEOREM ErrorIsSticky == StoreSpec => ErrorLeadsOnlyToBoot
<1>1. [StoreNext]_storeVars
        => [systemState = "ERROR" => systemState' \in {"ERROR", "BOOT"}]_storeVars
  BY DEF StoreNext, ZoneCall, MasterCall, ProgramCall, TransitionSystem,
         SystemTransitionIsAllowed, ConfigureZones, OpenZone, WriteZoneOpen,
         CloseZone, RecordZoneActuationFault, storeVars, storeZoneVars
<1>. QED  BY <1>1, PTL DEF StoreSpec, ErrorLeadsOnlyToBoot

-----------------------------------------------------------------------------
(* The zone service: its inductive invariant. *)

Busy(z) == zoneState[z] \in {"OPEN", "FAULT"}

OneBusyZone == \A a, b \in Zones : Busy(a) /\ Busy(b) => a = b

\* In this service's lifetime there is no way out of ERROR.
FaultMeansError == \A z \in Zones : zoneState[z] = "FAULT" => systemState = "ERROR"

\* The holder works on a zone of the table from its first check on.
ArgPcs == {"open_prepare", "open_drive", "open_confirm", "open_commit", "open_undo",
           "open_withdraw", "close_drive", "close_commit", "fault_off", "fault_unknown"}

\* Where the holder relies on the preparation of an opening.
PreparedPcs == {"open_drive", "open_confirm", "open_commit", "open_undo", "open_withdraw"}

\* Where the zone the holder works on may differ from its record.
DrivingPcs == {"open_confirm", "open_commit", "open_undo", "open_withdraw",
               "close_commit", "fault_off", "fault_unknown"}

HolderInv ==
    \A t \in Tasks :
        /\ zonePc[t] \in ArgPcs => zoneArg[t] \in Zones
        /\ zonePc[t] \in PreparedPcs =>
              /\ systemState = "MANUAL"
              /\ zoneState[zoneArg[t]] = "IDLE"
              /\ ~HasActiveOrUnknownOutput
        /\ zonePc[t] \in {"close_drive", "close_commit"} => Busy(zoneArg[t])
        /\ zonePc[t] \in FaultPcs => \A z \in Zones : Busy(z) => z = zoneArg[t]
        /\ zonePc[t] \in {"open_confirm", "open_commit"} => zoneArg[t] \in relays
        /\ zonePc[t] \in {"close_commit", "fault_off"} => zoneArg[t] \notin relays

Settled(z) ==
    /\ outputState[z] = "OFF" => z \notin relays
    /\ outputState[z] = "ON" => z \in relays

Driven(z) == \E t \in Tasks : zonePc[t] \in DrivingPcs /\ zoneArg[t] = z

RelayInv == \A z \in Zones : Settled(z) \/ Driven(z)

ZoneInv ==
    /\ ZoneTypeOK
    /\ ZoneLockIsOwned
    /\ OutputMatchesZone
    /\ OneBusyZone
    /\ FaultMeansError
    /\ HolderInv
    /\ RelayInv

\* At most one task is inside the service.
LEMMA OneHolder ==
    ASSUME ZoneLockIsOwned, NEW t \in Tasks, NEW u \in Tasks,
           zonePc[t] \in LockedPcs, zonePc[u] \in LockedPcs
    PROVE  t = u
  BY DEF ZoneLockIsOwned

-----------------------------------------------------------------------------
(* Steps of a task inside the service, one conjunct of ZoneInv after another. *)

\* The end of a zone_service_close_locked, alone or inside a loop, keeps the types of the call records.
LEMMA ReturnFromCloseType ==
    ASSUME ZoneTypeOK, NEW t \in Tasks, NEW result \in {"ok", "fail"},
           ReturnFromClose(t, result)
    PROVE  /\ closeFailed' \in [Tasks -> BOOLEAN]
           /\ zonePc' \in [Tasks -> ZonePcs]
           /\ zoneLock' \in Tasks \cup {NoTask}
           /\ UNCHANGED <<zoneOp, zoneArg, todo>>
<1>1. closeFailed' \in [Tasks -> BOOLEAN]
  <2>1. \/ closeFailed' = closeFailed
        \/ closeFailed' = [closeFailed EXCEPT ![t] = closeFailed[t] \/ result = "fail"]
    BY DEF ReturnFromClose
  <2>2. (closeFailed[t] \/ result = "fail") \in BOOLEAN
    BY Zenon
  <2>. QED  BY <2>1, <2>2, Zenon DEF ZoneTypeOK
<1>. QED  BY <1>1 DEF ReturnFromClose, ZoneReturn, ZoneTypeOK, ZonePcs,
                      LockedPcs, ClosePcs

\* A step inside the zone service keeps every variable in its type.
LEMMA TypeStep ==
    ASSUME ZoneInv, NEW t \in Tasks, ZoneServiceStep(t), UNCHANGED masterState
    PROVE  ZoneTypeOK'
<1>. USE DEF ZoneInv, ZoneTypeOK, ZonePcs, LockedPcs, OpenPcs, ClosePcs, FaultPcs,
             ZoneGoto, ZoneReturn, ZoneCallUnchanged, storeZoneVars
<1>1. CASE AcquireZoneLock(t) \/ RejectZoneCall(t)
  BY <1>1 DEF AcquireZoneLock, ZoneFirstPc, RejectZoneCall
<1>2. CASE \/ OpenCheck(t)   \/ OpenCheckRejects(t)
           \/ OpenPrepare(t) \/ OpenPrepareRejects(t)
           \/ OpenConfirm(t)
  BY <1>2 DEF OpenCheck, OpenCheckRejects, OpenPrepare, OpenPrepareRejects,
              OpenConfirm, SystemStates
<1>3. CASE OpenDrive(t)
  BY <1>3 DEF OpenDrive, DriveOn, HolderInv, ArgPcs
<1>4. CASE OpenUndo(t) \/ OpenWithdraw(t) \/ CloseCheck(t) \/ CloseDrive(t)
  BY <1>4 DEF OpenUndo, OpenWithdraw, CloseCheck, CloseDrive, DriveOff
<1>5. CASE OpenCommit(t)
  BY <1>5 DEF OpenCommit, WriteZoneOpen, ZoneStates, OutputStates
<1>6. CASE CloseCheckRejects(t) \/ CloseCommit(t) \/ FaultZone(t)
  <2>1. /\ closeFailed' \in [Tasks -> BOOLEAN]
        /\ zonePc' \in [Tasks -> ZonePcs]
        /\ zoneLock' \in Tasks \cup {NoTask}
        /\ UNCHANGED <<zoneOp, zoneArg, todo, zoneElapsed, relays>>
    BY <1>6, ReturnFromCloseType DEF CloseCheckRejects, CloseCommit, FaultZone
  <2>2. /\ systemState' \in SystemStates
        /\ zoneState' \in [Zones -> ZoneStates]
        /\ outputState' \in [Zones -> OutputStates]
    BY <1>6 DEF CloseCheckRejects, CloseCommit, CloseZone, FaultZone,
                RecordZoneActuationFault, SystemStates, ZoneStates, OutputStates
  <2>. QED  BY <2>1, <2>2
<1>7. CASE LoopStart(t) \/ LoopNext(t) \/ LoopEnd(t)
  BY <1>7 DEF LoopStart, LoopNext, LoopEnd
<1>. QED  BY <1>1, <1>2, <1>3, <1>4, <1>5, <1>6, <1>7 DEF ZoneServiceStep, DriverCall, OtherZoneStep

\* Every way out of the service frees the lock, and no other does.
LEMMA LockStep ==
    ASSUME ZoneTypeOK, ZoneLockIsOwned, NEW t \in Tasks, ZoneServiceStep(t)
    PROVE  ZoneLockIsOwned'
<1>. USE TasksAssumption
     DEF ZoneTypeOK, ZoneLockIsOwned, LockedPcs, OpenPcs, ClosePcs, FaultPcs,
         ZoneGoto, ZoneReturn, ZoneCallUnchanged
<1>1. CASE \/ AcquireZoneLock(t) \/ RejectZoneCall(t)
           \/ OpenCheck(t)       \/ OpenCheckRejects(t)
           \/ OpenPrepare(t)     \/ OpenPrepareRejects(t)
           \/ OpenDrive(t)       \/ OpenUndo(t)
           \/ OpenConfirm(t)     \/ OpenCommit(t)
           \/ OpenWithdraw(t)
  BY <1>1 DEF AcquireZoneLock, ZoneFirstPc, RejectZoneCall, OpenCheck,
              OpenCheckRejects, OpenPrepare, OpenPrepareRejects, OpenDrive,
              OpenUndo, OpenConfirm, OpenCommit, OpenWithdraw
<1>2. CASE \/ CloseCheck(t)  \/ CloseCheckRejects(t)
           \/ CloseDrive(t)  \/ CloseCommit(t)
           \/ FaultZone(t)
  BY <1>2 DEF CloseCheck, CloseCheckRejects, CloseDrive, CloseCommit, FaultZone,
              ReturnFromClose
<1>3. CASE LoopStart(t) \/ LoopNext(t) \/ LoopEnd(t)
  BY <1>3 DEF LoopStart, LoopNext, LoopEnd
<1>. QED  BY <1>1, <1>2, <1>3 DEF ZoneServiceStep, DriverCall, OtherZoneStep

\* Four actions write the record of the zones.
LEMMA RecordStep ==
    ASSUME ZoneInv, NEW t \in Tasks, ZoneServiceStep(t)
    PROVE  OutputMatchesZone' /\ OneBusyZone' /\ FaultMeansError'
<1>. USE DEF ZoneInv, ZoneTypeOK, OutputMatchesZone, OneBusyZone,
             FaultMeansError, Busy
<1>1. CASE OpenCheck(t)
  BY <1>1 DEF OpenCheck
<1>2. CASE OpenCommit(t)
  BY <1>2 DEF OpenCommit, WriteZoneOpen, HolderInv, ArgPcs, PreparedPcs,
              HasActiveOrUnknownOutput
<1>3. CASE CloseCommit(t)
  BY <1>3 DEF CloseCommit, CloseZone, HolderInv, ArgPcs
<1>4. CASE FaultZone(t)
  BY <1>4 DEF FaultZone, RecordZoneActuationFault, HolderInv, ArgPcs, FaultPcs
<1>5. CASE UNCHANGED storeZoneVars
  BY <1>5 DEF storeZoneVars
<1>. QED
  BY <1>1, <1>2, <1>3, <1>4, <1>5
  DEF ZoneServiceStep, DriverCall, OtherZoneStep, AcquireZoneLock, RejectZoneCall, OpenCheckRejects,
      OpenPrepare, OpenPrepareRejects, OpenDrive, OpenUndo, OpenConfirm,
      OpenWithdraw, CloseCheck, CloseCheckRejects, CloseDrive, LoopStart,
      LoopNext, LoopEnd

\* What the holder knows of its zone at its next step.  The other tasks are
\* outside the service, where HolderInv asks nothing of them.
LEMMA HolderStep ==
    ASSUME ZoneInv, NEW t \in Tasks, ZoneServiceStep(t)
    PROVE  HolderInv'
<1>. USE DEF ZoneInv, ZoneTypeOK, ZoneLockIsOwned, HolderInv, ArgPcs, PreparedPcs,
             LockedPcs, OpenPcs, ClosePcs, FaultPcs, ZoneGoto, ZoneReturn,
             ZoneCallUnchanged, storeZoneVars, Busy, HasActiveOrUnknownOutput
<1>1. CASE \/ RejectZoneCall(t)     \/ OpenCheckRejects(t)
           \/ OpenPrepareRejects(t) \/ CloseCheckRejects(t)
           \/ LoopStart(t)          \/ LoopNext(t)
           \/ LoopEnd(t)
  BY <1>1 DEF RejectZoneCall, OpenCheckRejects, OpenPrepareRejects,
              CloseCheckRejects, ReturnFromClose, LoopStart, LoopNext, LoopEnd
<1>2. CASE AcquireZoneLock(t)
  BY <1>2 DEF AcquireZoneLock, ZoneFirstPc
<1>3. CASE OpenCheck(t)
  BY <1>3 DEF OpenCheck, OpenIsAllowed
<1>4. CASE OpenPrepare(t)
  BY <1>4 DEF OpenPrepare, CanOpenZone
<1>5. CASE OpenDrive(t) \/ OpenConfirm(t)
  BY <1>5 DEF OpenDrive, DriveOn, OpenConfirm
<1>6. CASE OpenUndo(t) \/ OpenWithdraw(t)
  \* The system is MANUAL, so no zone is in FAULT, and no output is active.
  BY <1>6 DEF OpenUndo, OpenWithdraw, DriveOff, OutputMatchesZone, FaultMeansError
<1>7. CASE OpenCommit(t)
  BY <1>7 DEF OpenCommit, WriteZoneOpen
<1>8. CASE CloseCheck(t)
  BY <1>8 DEF CloseCheck, CloseIsAllowed
<1>9. CASE CloseDrive(t)
  BY <1>9 DEF CloseDrive, DriveOff, OneBusyZone
<1>10. CASE CloseCommit(t)
  BY <1>10 DEF CloseCommit, CloseZone, ReturnFromClose
<1>11. CASE FaultZone(t)
  BY <1>11 DEF FaultZone, RecordZoneActuationFault, ReturnFromClose
<1>. QED
  BY <1>1, <1>2, <1>3, <1>4, <1>5, <1>6, <1>7, <1>8, <1>9, <1>10, <1>11
  DEF ZoneServiceStep, DriverCall, OtherZoneStep

\* A zone other than the holder's stays settled, and the holder's is settled
\* again when the holder has done with it.
LEMMA RelayStep ==
    ASSUME ZoneInv, NEW t \in Tasks, ZoneServiceStep(t)
    PROVE  RelayInv'
<1>. USE DEF ZoneInv, ZoneTypeOK, ZoneLockIsOwned, RelayInv, Settled, Driven,
             DrivingPcs, LockedPcs, OpenPcs, ClosePcs, FaultPcs, HolderInv, ArgPcs,
             ZoneGoto, ZoneReturn, ZoneCallUnchanged, storeZoneVars
<1>1. CASE \/ AcquireZoneLock(t)    \/ RejectZoneCall(t)
           \/ OpenCheck(t)          \/ OpenCheckRejects(t)
           \/ OpenPrepare(t)        \/ OpenPrepareRejects(t)
           \/ OpenConfirm(t)
  BY <1>1 DEF AcquireZoneLock, ZoneFirstPc, RejectZoneCall, OpenCheck,
              OpenCheckRejects, OpenPrepare, OpenPrepareRejects, OpenConfirm
<1>2. CASE \/ CloseCheck(t) \/ CloseCheckRejects(t)
           \/ LoopStart(t)  \/ LoopNext(t)
           \/ LoopEnd(t)
  BY <1>2 DEF CloseCheck, CloseCheckRejects, ReturnFromClose, LoopStart, LoopNext,
              LoopEnd
<1>3. CASE OpenDrive(t) \/ OpenUndo(t) \/ OpenWithdraw(t)
  \* No output is recorded ON, so no zone can be missed on the board.
  BY <1>3 DEF OpenDrive, DriveOn, OpenUndo, OpenWithdraw, DriveOff, PreparedPcs,
              HasActiveOrUnknownOutput
<1>4. CASE OpenCommit(t)
  BY <1>4 DEF OpenCommit, WriteZoneOpen
<1>5. CASE CloseDrive(t)
  \* The zone being closed is the only one that may be recorded ON.
  BY <1>5 DEF CloseDrive, DriveOff, OutputMatchesZone, OneBusyZone, Busy
<1>6. CASE CloseCommit(t)
  BY <1>6 DEF CloseCommit, CloseZone, ReturnFromClose
<1>7. CASE FaultZone(t)
  BY <1>7 DEF FaultZone, RecordZoneActuationFault, ReturnFromClose
<1>. QED
  BY <1>1, <1>2, <1>3, <1>4, <1>5, <1>6, <1>7 DEF ZoneServiceStep, DriverCall, OtherZoneStep

-----------------------------------------------------------------------------
(* The other steps of ZoneNext write neither the store nor the board. *)

\* Issuing a call or taking its result keeps the whole invariant.
LEMMA ClientInv ==
    ASSUME ZoneInv, NEW t \in Tasks, ZoneClient(t), UNCHANGED masterState
    PROVE  ZoneInv'
<1>. USE DEF ZoneInv, ZoneTypeOK, ZoneGoto, storeZoneVars
<1>1. ASSUME NEW op \in {"open", "close", "safe_close", "timeouts"},
             NEW z \in Zones \cup {NoZone}, CallZone(t, op, z)
      PROVE  ZoneInv'
  <2>1. ZoneTypeOK' /\ ZoneLockIsOwned'
    BY <1>1 DEF CallZone, ZonePcs, ZoneOps, ZoneLockIsOwned, LockedPcs, OpenPcs,
                ClosePcs, FaultPcs
  <2>2. OutputMatchesZone' /\ OneBusyZone' /\ FaultMeansError'
    BY <1>1 DEF CallZone, OutputMatchesZone, OneBusyZone, FaultMeansError, Busy
  <2>3. HolderInv' /\ RelayInv'
    BY <1>1 DEF CallZone, HolderInv, ArgPcs, PreparedPcs, FaultPcs, Busy,
                HasActiveOrUnknownOutput, RelayInv, Settled, Driven, DrivingPcs
  <2>. QED  BY <2>1, <2>2, <2>3
<1>2. ASSUME NEW result \in {"ok", "fail"}, ZoneReturned(t, result)
      PROVE  ZoneInv'
  <2>1. ZoneTypeOK' /\ ZoneLockIsOwned'
    BY <1>2 DEF ZoneReturned, ZonePcs, ZoneOps, ZoneLockIsOwned, LockedPcs, OpenPcs,
                ClosePcs, FaultPcs
  <2>2. OutputMatchesZone' /\ OneBusyZone' /\ FaultMeansError'
    BY <1>2 DEF ZoneReturned, OutputMatchesZone, OneBusyZone, FaultMeansError, Busy
  <2>3. HolderInv' /\ RelayInv'
    BY <1>2 DEF ZoneReturned, HolderInv, ArgPcs, PreparedPcs, FaultPcs, Busy,
                HasActiveOrUnknownOutput, RelayInv, Settled, Driven, DrivingPcs
  <2>. QED  BY <2>1, <2>2, <2>3
<1>. QED  BY <1>1, <1>2 DEF ZoneClient

\* A zone whose time passes, a master valve that changes, or a stutter keeps the invariant.
LEMMA EnvironmentInv ==
    ASSUME ZoneInv,
           \/ \E z \in Zones : ZoneDurationElapses(z) /\ UNCHANGED masterState
           \/ MasterValveChanges
           \/ UNCHANGED zoneVars
    PROVE  ZoneInv'
<1>1. /\ UNCHANGED <<storeZoneVars, zoneLock, zonePc, zoneOp, zoneArg, todo,
                     closeFailed, relays>>
      /\ masterState' \in MasterStates
      /\ zoneElapsed' \in [Zones -> BOOLEAN]
  BY DEF ZoneDurationElapses, MasterValveChanges, zoneVars, zoneServiceVars,
         ZoneInv, ZoneTypeOK, storeZoneVars
<1>. QED
  BY <1>1 DEF ZoneInv, ZoneTypeOK, ZoneLockIsOwned, OutputMatchesZone,
              OneBusyZone, FaultMeansError, Busy, HolderInv,
              HasActiveOrUnknownOutput, RelayInv, Settled, Driven, storeZoneVars

-----------------------------------------------------------------------------

\* After power-up every relay is off, no lock is held and no call is under way.
LEMMA ZoneInitInv == ZoneInit => ZoneInv
<1>. SUFFICES ASSUME ZoneInit PROVE ZoneInv
  OBVIOUS
<1>. USE DEF ZoneInit, ZoneStoreBooted, ZoneServiceInit
<1>1. zoneState \in [Zones -> {"IDLE", "DISABLED"}]
  BY DEF ConfiguredZones
<1>2. ZoneTypeOK /\ ZoneLockIsOwned
  BY <1>1, TasksAssumption
  DEF ZoneTypeOK, ZoneLockIsOwned, SystemStates, ZoneStates, OutputStates,
      ZonePcs, LockedPcs, OpenPcs, ClosePcs, FaultPcs, ZoneOps
<1>3. OutputMatchesZone /\ OneBusyZone /\ FaultMeansError
  BY <1>1 DEF OutputMatchesZone, OneBusyZone, FaultMeansError, Busy
<1>4. HolderInv /\ RelayInv
  BY DEF HolderInv, ArgPcs, PreparedPcs, FaultPcs, RelayInv, Settled
<1>. QED  BY <1>2, <1>3, <1>4 DEF ZoneInv

\* The invariant is inductive: every step of the zone service and of its surroundings keeps it.
LEMMA ZoneNextInv == ZoneInv /\ [ZoneNext]_zoneVars => ZoneInv'
<1>. SUFFICES ASSUME ZoneInv, [ZoneNext]_zoneVars PROVE ZoneInv'
  OBVIOUS
<1>1. ASSUME NEW t \in Tasks, ZoneServiceStep(t), UNCHANGED masterState
      PROVE  ZoneInv'
  BY <1>1, TypeStep, LockStep, RecordStep, HolderStep, RelayStep DEF ZoneInv
<1>2. ASSUME NEW t \in Tasks, ZoneClient(t), UNCHANGED masterState
      PROVE  ZoneInv'
  BY <1>2, ClientInv
<1>. QED  BY <1>1, <1>2, EnvironmentInv DEF ZoneNext, AroundZoneService

\* The recorded and the energised outputs agree but for the holder's zone, so
\* two energised outputs would make two busy zones.
LEMMA ZoneInvOneRelay == ZoneInv => OneRelayEnergised
<1>. SUFFICES ASSUME ZoneInv, NEW a \in relays, NEW b \in relays
              PROVE  a = b
  BY DEF OneRelayEnergised
<1>0. a \in Zones /\ b \in Zones
  BY DEF ZoneInv, ZoneTypeOK
<1>1. \A z \in {a, b} : Busy(z) \/ Driven(z)
  BY <1>0 DEF ZoneInv, ZoneTypeOK, OutputStates, RelayInv, Settled,
              OutputMatchesZone, Busy
<1>2. ASSUME NEW c \in Zones, NEW d \in Zones, Driven(c), Busy(d), c \in relays
      PROVE  c = d
  BY <1>2 DEF ZoneInv, Driven, DrivingPcs, HolderInv, PreparedPcs, FaultPcs, Busy,
              OneBusyZone, OutputMatchesZone, FaultMeansError,
              HasActiveOrUnknownOutput
<1>3. CASE Driven(a) /\ Driven(b)
  BY <1>3, OneHolder DEF ZoneInv, Driven, DrivingPcs, LockedPcs, OpenPcs, ClosePcs,
                         FaultPcs
<1>. QED  BY <1>0, <1>1, <1>2, <1>3 DEF ZoneInv, OneBusyZone

\* With the lock free no zone is being driven.
LEMMA ZoneInvRelaysMatch == ZoneInv => RelaysMatchOutputs
<1>. SUFFICES ASSUME ZoneInv, zoneLock = NoTask
              PROVE  \A z \in Zones : Settled(z)
  BY DEF RelaysMatchOutputs, Settled
<1>1. \A t \in Tasks : zonePc[t] \notin LockedPcs
  BY TasksAssumption DEF ZoneInv, ZoneLockIsOwned
<1>2. DrivingPcs \subseteq LockedPcs
  BY DEF DrivingPcs, LockedPcs, OpenPcs, ClosePcs, FaultPcs
<1>. QED  BY <1>1, <1>2 DEF ZoneInv, RelayInv, Driven

\* The part of the invariant on faults gives the property on unknown outputs.
LEMMA ZoneInvUnknown == ZoneInv => UnknownOutputMeansError
  BY DEF ZoneInv, OutputMatchesZone, FaultMeansError, UnknownOutputMeansError

\* Type correctness of the zone service.
THEOREM ZoneTypeCorrect == ZoneSpec => []ZoneTypeOK
<1>1. ZoneInv => ZoneTypeOK
  BY DEF ZoneInv
<1>. QED  BY <1>1, ZoneInitInv, ZoneNextInv, PTL DEF ZoneSpec

\* The operation lock is a lock: held by the task inside, freed on every way
\* out (operation_lock_acquire and _release).
THEOREM ZoneLockCorrect == ZoneSpec => []ZoneLockIsOwned
<1>1. ZoneInv => ZoneLockIsOwned
  BY DEF ZoneInv
<1>. QED  BY <1>1, ZoneInitInv, ZoneNextInv, PTL DEF ZoneSpec

\* The one-active-zone rule on the board, for any number of zones and tasks,
\* any interleaving and any failures of the driver.
THEOREM OneActiveZone == ZoneSpec => []OneRelayEnergised
  BY ZoneInitInv, ZoneNextInv, ZoneInvOneRelay, PTL DEF ZoneSpec

\* The store tells the truth about the board whenever no operation is under
\* way, unless it says UNKNOWN.
THEOREM StoreIsTruthful == ZoneSpec => []RelaysMatchOutputs
  BY ZoneInitInv, ZoneNextInv, ZoneInvRelaysMatch, PTL DEF ZoneSpec

\* An output is lost track of in system state ERROR only.
THEOREM UnknownIsError == ZoneSpec => []UnknownOutputMeansError
  BY ZoneInitInv, ZoneNextInv, ZoneInvUnknown, PTL DEF ZoneSpec

\* The only driver call that energises is made in MANUAL.
LEMMA FaultStopsStep ==
    ZoneInv /\ [ZoneNext]_zoneVars
        => [systemState = "ERROR" => relays' \subseteq relays]_zoneVars
<1>. SUFFICES ASSUME ZoneInv, ZoneNext, systemState = "ERROR"
              PROVE  relays' \subseteq relays
  OBVIOUS
<1>1. ASSUME NEW t \in Tasks, ZoneServiceStep(t)
      PROVE  relays' \subseteq relays
  BY <1>1 DEF ZoneInv, HolderInv, PreparedPcs, ZoneServiceStep, DriverCall,
              OtherZoneStep, ZoneGoto, OpenDrive, DriveOn, OpenUndo,
              OpenWithdraw, CloseDrive, DriveOff, AcquireZoneLock,
              RejectZoneCall, OpenCheck, OpenCheckRejects, OpenPrepare,
              OpenPrepareRejects, OpenConfirm, OpenCommit, CloseCheck,
              CloseCheckRejects, CloseCommit, FaultZone, LoopStart, LoopNext,
              LoopEnd
<1>2. ~(\E t \in Tasks : ZoneServiceStep(t)) => UNCHANGED relays
  BY DEF ZoneNext, AroundZoneService, ZoneClient, CallZone, ZoneReturned, ZoneDurationElapses,
         MasterValveChanges, zoneServiceVars
<1>. QED  BY <1>1, <1>2

\* After an actuation fault nothing is energised any more, by whatever was
\* under way when it was recorded.
THEOREM FaultStopsIrrigation == ZoneSpec => NothingEnergisedAfterFault
  BY FaultStopsStep, ZoneInitInv, ZoneNextInv, PTL DEF ZoneSpec, NothingEnergisedAfterFault

\* The two views of a zone in the store agree at every moment, in the middle of
\* an operation too.
THEOREM RecordsAgree == ZoneSpec => []OutputMatchesZone
<1>1. ZoneInv => OutputMatchesZone
  BY DEF ZoneInv
<1>. QED  BY <1>1, ZoneInitInv, ZoneNextInv, PTL DEF ZoneSpec

\* The one-active-zone rule on the record: a zone in FAULT counts as busy, for
\* its relay may still be on.
LEMMA ZoneInvOneOpen == ZoneInv => OneOpenZone
  BY DEF ZoneInv, OneOpenZone, OneBusyZone, Busy

\* No two zones are ever recorded OPEN, though the check of an opening
\* (state_store_prepare_zone_open) and the write are apart.
THEOREM OneZoneOpen == ZoneSpec => []OneOpenZone
  BY ZoneInvOneOpen, ZoneInitInv, ZoneNextInv, PTL DEF ZoneSpec

\* A service that finds the system in ERROR leaves it there, whatever it closes
\* and whatever it had begun before, in an opening or in the loop of a safe_close.
THEOREM ServiceKeepsError == ZoneSpec => ErrorLeadsOnlyToBoot
<1>1. ZoneInv /\ [ZoneNext]_zoneVars
        => [systemState = "ERROR" => systemState' \in {"ERROR", "BOOT"}]_storeVars
  <2>. SUFFICES ASSUME ZoneInv, [ZoneNext]_zoneVars, systemState = "ERROR"
                PROVE  systemState' \in {"ERROR", "BOOT"}
    OBVIOUS
  <2>1. ASSUME NEW t \in Tasks, ZoneServiceStep(t)
        PROVE  systemState' \in {"ERROR", "BOOT"}
    BY <2>1
    DEF ZoneServiceStep, DriverCall, OtherZoneStep, storeZoneVars,
        ZoneCallUnchanged, OpenDrive, OpenUndo, OpenWithdraw, CloseDrive,
        AcquireZoneLock, RejectZoneCall, OpenCheck, OpenCheckRejects,
        OpenPrepare, OpenPrepareRejects, OpenConfirm, OpenCommit, WriteZoneOpen,
        CloseCheck, CloseCheckRejects, CloseCommit, CloseZone, FaultZone,
        RecordZoneActuationFault, LoopStart, LoopNext, LoopEnd,
        TransitionSystem, SystemTransitionIsAllowed
  <2>2. CASE AroundZoneService \/ UNCHANGED zoneVars
    BY <2>2 DEF AroundZoneService, ZoneClient, CallZone, ZoneReturned,
                ZoneDurationElapses, MasterValveChanges, zoneVars, storeZoneVars
  <2>. QED  BY <2>1, <2>2 DEF ZoneNext
<1>. QED  BY <1>1, ZoneInitInv, ZoneNextInv, PTL DEF ZoneSpec, ErrorLeadsOnlyToBoot

-----------------------------------------------------------------------------
(* The zone service implements ZoneValves. *)

\* Seen from the board a driver call energises the holder's zone, with every
\* other released, or releases it, or does nothing.
LEMMA DriverCallIsValveStep ==
    ASSUME ZoneInv, NEW t \in Tasks, DriverCall(t)
    PROVE  [Valves!Next]_<<relays, systemState = "ERROR">>
<1>. USE DEF DriverCall, ZoneGoto, storeZoneVars
<1>1. systemState' = systemState
  BY DEF OpenDrive, OpenUndo, OpenWithdraw, CloseDrive
<1>2. zoneArg[t] \in Zones
  BY DEF OpenDrive, OpenUndo, OpenWithdraw, CloseDrive, ZoneInv, HolderInv, ArgPcs
<1>3. relays \subseteq {zoneArg[t]}
  <2>. SUFFICES ASSUME NEW z \in relays PROVE z = zoneArg[t]
    OBVIOUS
  <2>0. z \in Zones
    BY DEF ZoneInv, ZoneTypeOK
  <2>1. CASE Driven(z)
    BY <2>1, OneHolder DEF ZoneInv, Driven, DrivingPcs, LockedPcs, OpenPcs, ClosePcs,
       FaultPcs, OpenDrive, OpenUndo, OpenWithdraw, CloseDrive
  <2>2. CASE Settled(z)
    <3>1. Busy(z)
      BY <2>0, <2>2 DEF Settled, ZoneInv, ZoneTypeOK, OutputStates, OutputMatchesZone, Busy
    <3>2. CASE zonePc[t] \in PreparedPcs
      BY <2>0, <2>2, <3>2 DEF Settled, ZoneInv, HolderInv, HasActiveOrUnknownOutput
    <3>3. CASE zonePc[t] = "close_drive"
      BY <2>0, <3>1, <3>3, <1>2 DEF ZoneInv, HolderInv, OneBusyZone
    <3>. QED  BY <3>2, <3>3 DEF OpenDrive, OpenUndo, OpenWithdraw, CloseDrive, PreparedPcs
  <2>. QED  BY <2>0, <2>1, <2>2 DEF ZoneInv, RelayInv
<1>4. CASE OpenDrive(t)
  <2>1. systemState # "ERROR"
    BY <1>4 DEF OpenDrive, ZoneInv, HolderInv, PreparedPcs
  <2>2. relays' \in {{}, {zoneArg[t]}}
    BY <1>3, <1>4 DEF OpenDrive, DriveOn
  <2>3. relays \in {{}, {zoneArg[t]}}
    BY <1>3
  <2>4. Valves!Energise(zoneArg[t]) \/ Valves!Release(zoneArg[t]) \/ UNCHANGED relays
    BY <1>1, <2>1, <2>2, <2>3 DEF Valves!Energise, Valves!Release
  <2>. QED  BY <1>1, <1>2, <2>4 DEF Valves!Next
<1>5. CASE OpenUndo(t) \/ OpenWithdraw(t) \/ CloseDrive(t)
  <2>1. relays' \subseteq relays
    BY <1>5 DEF OpenUndo, OpenWithdraw, CloseDrive, DriveOff
  <2>2. Valves!Release(zoneArg[t]) \/ UNCHANGED relays
    BY <1>1, <1>3, <2>1 DEF Valves!Release
  <2>. QED  BY <1>1, <1>2, <2>2 DEF Valves!Next
<1>. QED  BY <1>4, <1>5

\* No other step touches the board, and none leads out of ERROR.
LEMMA OtherIsValveStep ==
    ASSUME ZoneInv,
           \/ \E t \in Tasks : OtherZoneStep(t)
           \/ AroundZoneService
    PROVE  [Valves!Next]_<<relays, systemState = "ERROR">>
<1>1. UNCHANGED relays
  BY DEF OtherZoneStep, AcquireZoneLock, RejectZoneCall, OpenCheck, OpenCheckRejects,
         OpenPrepare, OpenPrepareRejects, OpenConfirm, OpenCommit, CloseCheck,
         CloseCheckRejects, CloseCommit, FaultZone, LoopStart, LoopNext, LoopEnd,
         AroundZoneService, ZoneClient, CallZone, ZoneReturned, ZoneDurationElapses,
         MasterValveChanges, zoneServiceVars
<1>2. systemState = "ERROR" => systemState' = "ERROR"
  BY DEF OtherZoneStep, AcquireZoneLock, RejectZoneCall, OpenCheck, OpenCheckRejects,
         OpenPrepare, OpenPrepareRejects, OpenConfirm, OpenCommit, WriteZoneOpen,
         CloseCheck, CloseCheckRejects, CloseCommit, CloseZone, FaultZone,
         RecordZoneActuationFault, LoopStart, LoopNext, LoopEnd, AroundZoneService,
         ZoneClient, CallZone, ZoneReturned, ZoneDurationElapses, MasterValveChanges,
         storeZoneVars
<1>. QED  BY <1>1, <1>2 DEF Valves!Next, Valves!Fault

\* Whatever zones, tasks, interleavings and failures: for the board the zone
\* service is one that energises a single valve at a time, and none after a
\* fault.
THEOREM ZoneServiceImplementsValves == ZoneSpec => ValvesSpec
<1>1. ZoneInit => Valves!Init
  BY DEF ZoneInit, ZoneStoreBooted, ZoneServiceInit, Valves!Init
<1>2. ZoneInv /\ [ZoneNext]_zoneVars => [Valves!Next]_<<relays, systemState = "ERROR">>
  <2>. SUFFICES ASSUME ZoneInv, [ZoneNext]_zoneVars
                PROVE  [Valves!Next]_<<relays, systemState = "ERROR">>
    OBVIOUS
  <2>1. CASE UNCHANGED zoneVars
    BY <2>1 DEF zoneVars, storeZoneVars, zoneServiceVars
  <2>2. CASE ZoneNext
    BY <2>2, DriverCallIsValveStep, OtherIsValveStep DEF ZoneNext, ZoneServiceStep
  <2>. QED  BY <2>1, <2>2
<1>. QED  BY <1>1, <1>2, ZoneInitInv, ZoneNextInv, PTL DEF ZoneSpec, ValvesSpec, Valves!Spec
=============================================================================
