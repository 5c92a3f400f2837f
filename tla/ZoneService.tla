---------------------------- MODULE ZoneService -----------------------------
(***************************************************************************)
(* The zone service (domain/zones/zone_service.c): the only writer of the  *)
(* zone fields of the store and the only caller of the output driver.      *)
(*                                                                         *)
(* Every operation tries the operation lock and gives up with REJECTED if  *)
(* another task holds it.  An operation is split where another task can    *)
(* see or change something in between: at the lock, at each reading of the *)
(* master valve (which this lock does not guard), at the driver call and   *)
(* at the write to the store.  zonePc[t] is where task t stands; the       *)
(* result is left in it ("ok" or "fail") for the caller to collect, who    *)
(* tells no failure from another.                                          *)
(***************************************************************************)
EXTENDS StateStore, FirmwareTasks

CONSTANT NoZone     \* an identifier find_zone knows no zone for

ASSUME NoZoneAssumption == NoZone \notin Zones

VARIABLES
    zoneLock,     \* operation_lock: the task that holds it, or NoTask
    zonePc,       \* where each task stands in the service
    zoneOp,       \* the operation it called
    zoneArg,      \* the zone it is working on
    todo,         \* zones the loop of safe_close or process_timeouts has left
    closeFailed,  \* safe_close: first_failure # OK
    zoneElapsed,  \* now - opened_at_ms >= duration_ms, for an open zone
    relays        \* the outputs that are energised on the board

zoneServiceVars == <<zoneLock, zonePc, zoneOp, zoneArg, todo, closeFailed, zoneElapsed, relays>>

ZoneOps == {"none", "open", "close", "safe_close", "timeouts"}

\* Where a task holds the operation lock.
OpenPcs   == {"open_check", "open_prepare", "open_drive", "open_confirm",
              "open_commit", "open_undo", "open_withdraw"}
ClosePcs  == {"loop_start", "loop", "close_check", "close_drive", "close_commit"}
FaultPcs  == {"fault_off", "fault_unknown"}
LockedPcs == OpenPcs \cup ClosePcs \cup FaultPcs
ZonePcs   == {"idle", "lock", "ok", "fail"} \cup LockedPcs

ZoneServiceInit ==
    /\ zoneLock = NoTask
    /\ zonePc = [t \in Tasks |-> "idle"]
    /\ zoneOp = [t \in Tasks |-> "none"]
    /\ zoneArg = [t \in Tasks |-> NoZone]
    /\ todo = [t \in Tasks |-> {}]
    /\ closeFailed = [t \in Tasks |-> FALSE]
    /\ zoneElapsed = [z \in Zones |-> FALSE]
    /\ relays = {}

(***************************************************************************)
(* Moving about                                                            *)
(***************************************************************************)

ZoneGoto(t, from, to) == zonePc[t] = from /\ zonePc' = [zonePc EXCEPT ![t] = to]

\* operation_lock_release and return.
ZoneReturn(t, result) ==
    /\ zonePc' = [zonePc EXCEPT ![t] = result]
    /\ zoneLock' = NoTask

\* What a step that neither takes nor frees the lock leaves alone.
ZoneCallUnchanged == UNCHANGED <<zoneLock, zoneOp, zoneArg, todo, closeFailed>>

(***************************************************************************)
(* The calls and what becomes of their result                              *)
(***************************************************************************)

CallZone(t, op, z) ==
    /\ ZoneGoto(t, "idle", "lock")
    /\ zoneOp' = [zoneOp EXCEPT ![t] = op]
    /\ zoneArg' = [zoneArg EXCEPT ![t] = z]
    /\ UNCHANGED <<storeZoneVars, zoneLock, todo, closeFailed, zoneElapsed, relays>>

\* The caller collects the result.
ZoneReturned(t, result) ==
    /\ ZoneGoto(t, result, "idle")
    /\ zoneOp' = [zoneOp EXCEPT ![t] = "none"]
    /\ zoneArg' = [zoneArg EXCEPT ![t] = NoZone]
    /\ closeFailed' = [closeFailed EXCEPT ![t] = FALSE]
    /\ UNCHANGED <<storeZoneVars, zoneLock, todo, zoneElapsed, relays>>

ZoneFirstPc(op) ==
    CASE op = "open"  -> "open_check"
      [] op = "close" -> "close_check"
      [] OTHER        -> "loop_start"

\* Mutant: the lock is taken without a look at it.
SeizeZoneLock(t) ==
    /\ ZoneGoto(t, "lock", ZoneFirstPc(zoneOp[t]))
    /\ zoneLock' = t
    /\ UNCHANGED <<storeZoneVars, zoneOp, zoneArg, todo, closeFailed, zoneElapsed, relays>>

\* operation_lock_acquire: an atomic test-and-set, never a wait.
AcquireZoneLock(t) ==
    /\ zoneLock = NoTask
    /\ ZoneGoto(t, "lock", ZoneFirstPc(zoneOp[t]))
    /\ zoneLock' = t
    /\ UNCHANGED <<storeZoneVars, zoneOp, zoneArg, todo, closeFailed, zoneElapsed, relays>>

RejectZoneCall(t) ==
    /\ zoneLock # NoTask
    /\ ZoneGoto(t, "lock", "fail")
    /\ ZoneCallUnchanged
    /\ UNCHANGED <<storeZoneVars, zoneElapsed, relays>>

(***************************************************************************)
(* The output driver, as far as this service relies on it: a call that     *)
(* succeeds has its effect, and no call energises an output other than the *)
(* one it is asked to.  It may switch others off: a driver that has failed *)
(* tries to switch off all of them (module OutputDriver).                  *)
(***************************************************************************)

\* output_driver_set(true).  The write that failed may have reached the board.
DriveOn(z, succeeds) ==
    /\ relays' \in SUBSET (relays \cup {z})
    /\ succeeds => z \in relays'

\* output_driver_set(false)
DriveOff(z, succeeds) ==
    /\ relays' \in SUBSET relays
    /\ succeeds => z \notin relays'

(***************************************************************************)
(* zone_service_open_locked                                                *)
(***************************************************************************)

\* get_zone, the snapshot, the precondition (master_valve_service_check_
\* zone_start): the two readings of the master valve reject alike, with no
\* effect, so one reading stands for both.
OpenIsAllowed(z) ==
    /\ z \in Zones
    /\ zoneState[z] = "IDLE"
    /\ masterState = "OPEN"
    /\ ~HasActiveOrUnknownOutput

OpenCheck(t) ==
    /\ ZoneGoto(t, "open_check", "open_prepare")
    /\ OpenIsAllowed(zoneArg[t])
    /\ systemState' = IF systemState = "READY" THEN "MANUAL" ELSE systemState
    /\ ZoneCallUnchanged
    /\ UNCHANGED <<zoneState, outputState, zoneElapsed, relays>>

OpenCheckRejects(t) ==
    /\ zonePc[t] = "open_check"
    /\ ~OpenIsAllowed(zoneArg[t])
    /\ ZoneReturn(t, "fail")
    /\ UNCHANGED <<storeZoneVars, zoneOp, zoneArg, todo, closeFailed, zoneElapsed, relays>>

\* state_store_prepare_zone_open reads the master valve again.
OpenPrepare(t) ==
    /\ ZoneGoto(t, "open_prepare", "open_drive")
    /\ CanOpenZone(zoneArg[t])
    /\ ZoneCallUnchanged
    /\ UNCHANGED <<storeZoneVars, zoneElapsed, relays>>

\* Mutant: an early return without operation_lock_release.
OpenPrepareRejectsLocked(t) ==
    /\ ZoneGoto(t, "open_prepare", "fail")
    /\ ~CanOpenZone(zoneArg[t])
    /\ ZoneCallUnchanged
    /\ UNCHANGED <<storeZoneVars, zoneElapsed, relays>>

\* A READY system that open_check moved to MANUAL stays there.
OpenPrepareRejects(t) ==
    /\ zonePc[t] = "open_prepare"
    /\ ~CanOpenZone(zoneArg[t])
    /\ ZoneReturn(t, "fail")
    /\ UNCHANGED <<storeZoneVars, zoneOp, zoneArg, todo, closeFailed, zoneElapsed, relays>>

OpenDrive(t) ==
    /\ \E succeeds \in BOOLEAN :
          /\ ZoneGoto(t, "open_drive", IF succeeds THEN "open_confirm" ELSE "open_undo")
          /\ DriveOn(zoneArg[t], succeeds)
    /\ ZoneCallUnchanged
    /\ UNCHANGED <<storeZoneVars, zoneElapsed>>

OpenUndo(t) ==
    /\ \E succeeds \in BOOLEAN :
          /\ ZoneGoto(t, "open_undo", IF succeeds THEN "fault_off" ELSE "fault_unknown")
          /\ DriveOff(zoneArg[t], succeeds)
    /\ ZoneCallUnchanged
    /\ UNCHANGED <<storeZoneVars, zoneElapsed>>

\* state_store_open_zone prepares once more ...
OpenConfirm(t) ==
    /\ zonePc[t] = "open_confirm"
    /\ zonePc' = [zonePc EXCEPT ![t] =
          IF CanOpenZone(zoneArg[t]) THEN "open_commit" ELSE "open_withdraw"]
    /\ ZoneCallUnchanged
    /\ UNCHANGED <<storeZoneVars, zoneElapsed, relays>>

\* ... and only then writes.
OpenCommit(t) ==
    /\ zonePc[t] = "open_commit"
    /\ WriteZoneOpen(zoneArg[t])
    /\ zoneElapsed' = [zoneElapsed EXCEPT ![zoneArg[t]] = FALSE]
    /\ ZoneReturn(t, "ok")
    /\ UNCHANGED <<zoneOp, zoneArg, todo, closeFailed, relays>>

\* The result of switching off is ignored: the output is UNKNOWN either way.
OpenWithdraw(t) ==
    /\ ZoneGoto(t, "open_withdraw", "fault_unknown")
    /\ \E succeeds \in BOOLEAN : DriveOff(zoneArg[t], succeeds)
    /\ ZoneCallUnchanged
    /\ UNCHANGED <<storeZoneVars, zoneElapsed>>

(***************************************************************************)
(* zone_service_close_locked, and the return from it: to the caller of the *)
(* service, or to the loop of safe_close or process_timeouts.              *)
(***************************************************************************)

ReturnFromClose(t, result) ==
    /\ UNCHANGED <<zoneOp, zoneArg, todo>>
    /\ \/ /\ zoneOp[t] \in {"open", "close"}
          /\ ZoneReturn(t, result)
          /\ UNCHANGED closeFailed
       \/ /\ zoneOp[t] = "safe_close"
          /\ zonePc' = [zonePc EXCEPT ![t] = "loop"]
          /\ closeFailed' = [closeFailed EXCEPT ![t] = @ \/ result = "fail"]
          /\ UNCHANGED zoneLock
       \/ /\ zoneOp[t] = "timeouts" /\ result = "ok"
          /\ zonePc' = [zonePc EXCEPT ![t] = "loop"]
          /\ UNCHANGED <<zoneLock, closeFailed>>
       \/ /\ zoneOp[t] = "timeouts" /\ result = "fail"
          /\ ZoneReturn(t, "fail")
          /\ UNCHANGED closeFailed

CloseIsAllowed(z) == z \in Zones /\ zoneState[z] \in {"OPEN", "FAULT"}

CloseCheck(t) ==
    /\ ZoneGoto(t, "close_check", "close_drive")
    /\ CloseIsAllowed(zoneArg[t])
    /\ ZoneCallUnchanged
    /\ UNCHANGED <<storeZoneVars, zoneElapsed, relays>>

CloseCheckRejects(t) ==
    /\ zonePc[t] = "close_check"
    /\ ~CloseIsAllowed(zoneArg[t])
    /\ ReturnFromClose(t, "fail")
    /\ UNCHANGED <<storeZoneVars, zoneElapsed, relays>>

CloseDrive(t) ==
    /\ \E succeeds \in BOOLEAN :
          /\ ZoneGoto(t, "close_drive", IF succeeds THEN "close_commit" ELSE "fault_unknown")
          /\ DriveOff(zoneArg[t], succeeds)
    /\ ZoneCallUnchanged
    /\ UNCHANGED <<storeZoneVars, zoneElapsed>>

CloseCommit(t) ==
    /\ zonePc[t] = "close_commit"
    /\ CloseZone(zoneArg[t])
    /\ ReturnFromClose(t, "ok")
    /\ UNCHANGED <<zoneElapsed, relays>>

\* fault_zone, the end of a failed opening or closing.
FaultZone(t) ==
    /\ \/ /\ zonePc[t] = "fault_off"
          /\ RecordZoneActuationFault(zoneArg[t], "OFF")
       \/ /\ zonePc[t] = "fault_unknown"
          /\ RecordZoneActuationFault(zoneArg[t], "UNKNOWN")
    /\ ReturnFromClose(t, "fail")
    /\ UNCHANGED <<zoneElapsed, relays>>

(***************************************************************************)
(* zone_service_safe_close and zone_service_process_timeouts: a snapshot   *)
(* chooses the zones, a loop closes them.  At most one output is active,   *)
(* so the order of the table is left open.                                 *)
(***************************************************************************)

LoopStart(t) ==
    /\ ZoneGoto(t, "loop_start", "loop")
    /\ todo' = [todo EXCEPT ![t] =
          IF zoneOp[t] = "safe_close"
          THEN {z \in Zones : outputState[z] # "OFF"}
          ELSE {z \in Zones : zoneState[z] = "OPEN" /\ zoneElapsed[z]}]
    /\ UNCHANGED <<storeZoneVars, zoneLock, zoneOp, zoneArg, closeFailed, zoneElapsed, relays>>

LoopNext(t) ==
    /\ \E z \in todo[t] :
          /\ zoneArg' = [zoneArg EXCEPT ![t] = z]
          /\ todo' = [todo EXCEPT ![t] = @ \ {z}]
    /\ ZoneGoto(t, "loop", "close_check")
    /\ UNCHANGED <<storeZoneVars, zoneLock, zoneOp, closeFailed, zoneElapsed, relays>>

LoopEnd(t) ==
    /\ zonePc[t] = "loop"
    /\ todo[t] = {}
    /\ ZoneReturn(t, IF closeFailed[t] THEN "fail" ELSE "ok")
    /\ UNCHANGED <<storeZoneVars, zoneOp, zoneArg, todo, closeFailed, zoneElapsed, relays>>

(***************************************************************************)
(* One step of task t inside the service.                                  *)
(***************************************************************************)

DriverCall(t) == OpenDrive(t) \/ OpenUndo(t) \/ OpenWithdraw(t) \/ CloseDrive(t)

OtherZoneStep(t) ==
    \/ AcquireZoneLock(t)
    \/ RejectZoneCall(t)
    \/ OpenCheck(t)
    \/ OpenCheckRejects(t)
    \/ OpenPrepare(t)
    \/ OpenPrepareRejects(t)
    \/ OpenConfirm(t)
    \/ OpenCommit(t)
    \/ CloseCheck(t)
    \/ CloseCheckRejects(t)
    \/ CloseCommit(t)
    \/ FaultZone(t)
    \/ LoopStart(t)
    \/ LoopNext(t)
    \/ LoopEnd(t)

ZoneServiceStep(t) == DriverCall(t) \/ OtherZoneStep(t)

(***************************************************************************)
(* The service on its own: any task calls any operation, and the master    *)
(* valve, which this service only reads, changes under it at any moment.   *)
(* The fields it never reads are left to the module that instantiates it.  *)
(***************************************************************************)

ZoneClient(t) ==
    \/ \E op \in {"open", "close"}, z \in Zones \cup {NoZone} : CallZone(t, op, z)
    \/ \E op \in {"safe_close", "timeouts"} : CallZone(t, op, NoZone)
    \/ \E result \in {"ok", "fail"} : ZoneReturned(t, result)

ZoneDurationElapses(z) ==
    /\ zoneState[z] = "OPEN"
    /\ ~zoneElapsed[z]
    /\ zoneElapsed' = [zoneElapsed EXCEPT ![z] = TRUE]
    /\ UNCHANGED <<storeZoneVars, zoneLock, zonePc, zoneOp, zoneArg, todo, closeFailed, relays>>

MasterValveChanges ==
    /\ masterState' \in MasterStates \ {masterState}
    /\ UNCHANGED <<storeZoneVars, zoneServiceVars>>

zoneVars == <<storeZoneVars, masterState, zoneServiceVars>>

\* After state_store_transition_system(READY) and state_store_configure_zones.
ZoneStoreBooted ==
    /\ systemState = "READY"
    /\ zoneState = ConfiguredZones
    /\ outputState = [z \in Zones |-> "OFF"]

ZoneInit ==
    /\ ZoneStoreBooted
    /\ masterState \in MasterStates
    /\ ZoneServiceInit

AroundZoneService ==
    \/ \E t \in Tasks : ZoneClient(t) /\ UNCHANGED masterState
    \/ \E z \in Zones : ZoneDurationElapses(z) /\ UNCHANGED masterState
    \/ MasterValveChanges

ZoneNext ==
    \/ \E t \in Tasks : ZoneServiceStep(t) /\ UNCHANGED masterState
    \/ AroundZoneService

ZoneSpec == ZoneInit /\ [][ZoneNext]_zoneVars

-----------------------------------------------------------------------------

\* Type invariant.
ZoneTypeOK ==
    /\ systemState \in SystemStates
    /\ zoneState \in [Zones -> ZoneStates]
    /\ outputState \in [Zones -> OutputStates]
    /\ masterState \in MasterStates
    /\ zoneLock \in Tasks \cup {NoTask}
    /\ zonePc \in [Tasks -> ZonePcs]
    /\ zoneOp \in [Tasks -> ZoneOps]
    /\ zoneArg \in [Tasks -> Zones \cup {NoZone}]
    /\ todo \in [Tasks -> SUBSET Zones]
    /\ closeFailed \in [Tasks -> BOOLEAN]
    /\ zoneElapsed \in [Zones -> BOOLEAN]
    /\ relays \in SUBSET Zones

\* The one-active-zone rule where it matters, on the board: whatever tasks
\* interleave and whichever driver calls fail, two zone valves are never
\* energised together (the reason for operation_lock and the output scan).
OneRelayEnergised == \A a, b \in relays : a = b

\* Between two operations the store tells the truth about the board: an output
\* recorded OFF is not energised and one recorded ON is.  Only UNKNOWN, the
\* record of a failed driver call, leaves it open.
RelaysMatchOutputs ==
    zoneLock = NoTask =>
        \A z \in Zones :
            /\ outputState[z] = "OFF" => z \notin relays
            /\ outputState[z] = "ON" => z \in relays

\* zoneLock is held exactly by the task inside the service: no early return of
\* an operation forgets operation_lock_release, none releases another's lock.
ZoneLockIsOwned == \A t \in Tasks : zoneLock = t <=> zonePc[t] \in LockedPcs

\* After an actuation fault (system ERROR, cleared only by a reboot) no call
\* energises anything any more; closing still works.
NothingEnergisedAfterFault ==
    [][systemState = "ERROR" => relays' \subseteq relays]_zoneVars

\* A fault is recorded whenever a driver call failed: an operation that ends
\* having lost track of an output (UNKNOWN) leaves the system in ERROR.
UnknownOutputMeansError ==
    (\E z \in Zones : outputState[z] = "UNKNOWN") => systemState = "ERROR"

(***************************************************************************)
(* What the service promises of the valves, whoever calls it.              *)
(***************************************************************************)

Valves == INSTANCE ZoneValves WITH
    energised <- relays,
    faulted   <- systemState = "ERROR"

\* Through every interleaving of its callers, every failure of the driver and
\* every loop that gives up halfway the service is, for the board, one that
\* energises a single valve at a time, and none after a fault.
ValvesSpec == Valves!Spec
=============================================================================
