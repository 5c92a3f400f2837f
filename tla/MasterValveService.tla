------------------------- MODULE MasterValveService -------------------------
(***************************************************************************)
(* The master valve service (domain/master_valve/master_valve_service.c):  *)
(* the only writer of the master valve fields of the store and the only    *)
(* caller of the master valve driver.                                      *)
(*                                                                         *)
(* It has an operation lock of its own, tried and never waited for, like   *)
(* the zone service's and independent of it: the outputs that decide       *)
(* whether the valve may close are read without the lock that guards them. *)
(* The lock is held across the driver call, an HTTP exchange with a remote *)
(* valve that may take many seconds.                                       *)
(***************************************************************************)
EXTENDS StateStore, FirmwareTasks

VARIABLES
    masterLock,   \* operation_lock: the task that holds it, or NoTask
    masterPc,     \* where each task stands in the service
    remoteValve   \* the remote valve itself: is water let through?

masterServiceVars == <<masterLock, masterPc, remoteValve>>

MasterOps       == {"open", "process_time", "close"}
MasterCallPcs   == {"open_lock", "process_time_lock", "close_lock"}
MasterLockedPcs == {"open_check", "open_drive", "process_time",
                    "close_check", "close_begin", "close_drive"}
MasterPcs       == {"idle", "ok", "fail"} \cup MasterCallPcs \cup MasterLockedPcs

\* The store records CLOSED (state_store_init), but nobody asks or closes the
\* valve at the start: it stands as it was left.
MasterServiceInit ==
    /\ masterLock = NoTask
    /\ masterPc = [t \in Tasks |-> "idle"]
    /\ remoteValve \in {"open", "closed"}

MasterGoto(t, from, to) == masterPc[t] = from /\ masterPc' = [masterPc EXCEPT ![t] = to]

\* operation_lock_release and return.
MasterReturn(t, result) ==
    /\ masterPc' = [masterPc EXCEPT ![t] = result]
    /\ masterLock' = NoTask

(***************************************************************************)
(* The calls and what becomes of their result                              *)
(***************************************************************************)

MasterLockPc(op) ==
    CASE op = "open"         -> "open_lock"
      [] op = "process_time" -> "process_time_lock"
      [] op = "close"        -> "close_lock"

MasterFirstPc(pc) ==
    CASE pc = "open_lock"         -> "open_check"
      [] pc = "process_time_lock" -> "process_time"
      [] pc = "close_lock"        -> "close_check"

CallMaster(t, op) ==
    /\ MasterGoto(t, "idle", MasterLockPc(op))
    /\ UNCHANGED <<storeMasterVars, masterLock, remoteValve>>

MasterReturned(t, result) ==
    /\ MasterGoto(t, result, "idle")
    /\ UNCHANGED <<storeMasterVars, masterLock, remoteValve>>

AcquireMasterLock(t) ==
    /\ masterPc[t] \in MasterCallPcs
    /\ masterLock = NoTask
    /\ masterLock' = t
    /\ masterPc' = [masterPc EXCEPT ![t] = MasterFirstPc(@)]
    /\ UNCHANGED <<storeMasterVars, remoteValve>>

RejectMasterCall(t) ==
    /\ masterPc[t] \in MasterCallPcs
    /\ masterLock # NoTask
    /\ masterPc' = [masterPc EXCEPT ![t] = "fail"]
    /\ UNCHANGED <<storeMasterVars, masterLock, remoteValve>>

(***************************************************************************)
(* master_valve_service_open                                               *)
(***************************************************************************)

MasterOpenCheck(t) ==
    /\ MasterGoto(t, "open_check", "open_drive")
    /\ masterState \in {"CLOSED", "FAULT"}
    /\ UNCHANGED <<storeMasterVars, masterLock, remoteValve>>

MasterOpenRejects(t) ==
    /\ masterPc[t] = "open_check"
    /\ masterState \notin {"CLOSED", "FAULT"}
    /\ MasterReturn(t, "fail")
    /\ UNCHANGED <<storeMasterVars, remoteValve>>

(***************************************************************************)
(* master_valve_service_process_time                                       *)
(***************************************************************************)

\* Mutant: TIMEOUT reaches the caller.
MasterProcessTimeTimesOut(t) ==
    /\ masterPc[t] = "process_time"
    /\ \/ /\ CompleteMasterValvePreOpenDelay
          /\ MasterReturn(t, "ok")
       \/ /\ ~(masterState = "OPENING" /\ preOpenElapsed)
          /\ UNCHANGED storeMasterVars
          /\ MasterReturn(t, "timeout")
    /\ UNCHANGED remoteValve

\* TIMEOUT from the store only says that it is too early, and becomes OK.
MasterProcessTime(t) ==
    /\ masterPc[t] = "process_time"
    /\ IF masterState = "OPENING" /\ preOpenElapsed
       THEN CompleteMasterValvePreOpenDelay
       ELSE UNCHANGED storeMasterVars
    /\ MasterReturn(t, "ok")
    /\ UNCHANGED remoteValve

(***************************************************************************)
(* master_valve_service_close                                              *)
(***************************************************************************)

\* state_store_begin_master_valve_close: reads the outputs ...
MasterCloseCheck(t) ==
    /\ MasterGoto(t, "close_check", "close_begin")
    /\ MasterValveCloseIsEligible
    /\ UNCHANGED <<storeMasterVars, masterLock, remoteValve>>

\* Mutant: an early return without operation_lock_release.
MasterCloseRejectsLocked(t) ==
    /\ MasterGoto(t, "close_check", "fail")
    /\ ~MasterValveCloseIsEligible
    /\ UNCHANGED <<storeMasterVars, masterLock, remoteValve>>

MasterCloseRejects(t) ==
    /\ masterPc[t] = "close_check"
    /\ ~MasterValveCloseIsEligible
    /\ MasterReturn(t, "fail")
    /\ UNCHANGED <<storeMasterVars, remoteValve>>

\* ... and then writes CLOSING.
MasterCloseBegin(t) ==
    /\ MasterGoto(t, "close_begin", "close_drive")
    /\ WriteMasterValveClosing
    /\ UNCHANGED <<masterLock, remoteValve>>

(***************************************************************************)
(* The driver call, with the lock held, and the record of its outcome.  A  *)
(* driver that confirms has seen the valve as it was asked for; one that   *)
(* fails has done it or not, and its request may still be carried out      *)
(* later (module ShellyMasterValve has the exchanges).                     *)
(***************************************************************************)

DriverIsCalled(t) == masterPc[t] \in {"open_drive", "close_drive"}
Requested(t) == IF masterPc[t] = "open_drive" THEN "open" ELSE "closed"

DriverConfirmed(t) ==
    /\ \/ masterPc[t] = "open_drive" /\ BeginMasterValveOpen
       \/ masterPc[t] = "close_drive" /\ CompleteMasterValveClose
    /\ MasterReturn(t, "ok")

\* Mutant: a failure is not recorded.
DriverFailureForgotten(t) ==
    /\ UNCHANGED storeMasterVars
    /\ MasterReturn(t, "fail")

DriverFailed(t) ==
    /\ RecordMasterValveFault
    /\ MasterReturn(t, "fail")

MasterDrive(t) ==
    /\ DriverIsCalled(t)
    /\ \/ remoteValve' = Requested(t) /\ DriverConfirmed(t)
       \/ remoteValve' \in {remoteValve, Requested(t)} /\ DriverFailed(t)

OtherMasterStep(t) ==
    \/ AcquireMasterLock(t)
    \/ RejectMasterCall(t)
    \/ MasterOpenCheck(t)
    \/ MasterOpenRejects(t)
    \/ MasterProcessTime(t)
    \/ MasterCloseCheck(t)
    \/ MasterCloseRejects(t)
    \/ MasterCloseBegin(t)

MasterServiceStep(t) == MasterDrive(t) \/ OtherMasterStep(t)

(***************************************************************************)
(* The service on its own: any task calls any operation, while the outputs *)
(* it only reads change under it at any moment.                            *)
(***************************************************************************)

MasterClient(t) ==
    \/ \E op \in MasterOps : CallMaster(t, op)
    \/ \E result \in {"ok", "fail"} : MasterReturned(t, result)

masterVars == <<storeMasterVars, outputState, masterServiceVars>>

OutputsChange ==
    /\ \E z \in Zones, o \in OutputStates : outputState' = [outputState EXCEPT ![z] = o]
    /\ UNCHANGED <<storeMasterVars, masterServiceVars>>

\* The valve carries out a request while the driver waits for the answer, or
\* after the driver has given up.
RemoteValveWorks ==
    /\ masterState = "FAULT" \/ \E t \in Tasks : DriverIsCalled(t)
    /\ remoteValve' \in {"open", "closed"}
    /\ UNCHANGED <<storeMasterVars, outputState, masterLock, masterPc>>

MasterInit ==
    /\ masterState = "CLOSED"
    /\ preOpenElapsed = FALSE
    /\ outputState = [z \in Zones |-> "OFF"]
    /\ MasterServiceInit

AroundMasterService ==
    \/ \E t \in Tasks : MasterClient(t) /\ UNCHANGED outputState
    \/ PreOpenDelayElapses /\ UNCHANGED <<outputState, masterServiceVars>>
    \/ OutputsChange

MasterNext ==
    \/ \E t \in Tasks : MasterServiceStep(t) /\ UNCHANGED outputState
    \/ AroundMasterService
    \/ RemoteValveWorks

MasterSpec == MasterInit /\ [][MasterNext]_masterVars

-----------------------------------------------------------------------------

\* Type invariant.
MasterTypeOK ==
    /\ masterState \in MasterStates
    /\ preOpenElapsed \in BOOLEAN
    /\ masterLock \in Tasks \cup {NoTask}
    /\ masterPc \in [Tasks -> MasterPcs]
    /\ remoteValve \in {"open", "closed"}

\* masterLock is held exactly by the task inside the service: no early return
\* forgets operation_lock_release, none releases another task's lock.
MasterLockIsOwned == \A t \in Tasks : masterLock = t <=> masterPc[t] \in MasterLockedPcs

\* The store tells the truth about an open remote valve: OPENING and OPEN are
\* only ever recorded of a valve that is open, whatever requests and answers
\* are lost or late and whichever tasks ask for contrary things.
RemoteValveIsKnown == masterState \in {"OPENING", "OPEN"} => remoteValve = "open"

\* A valve recorded CLOSED is closed, but for one that is being opened.  The
\* CLOSED of the start is the store's initial value and may be false ...
ClosedIsTrue ==
    masterState = "CLOSED" =>
        remoteValve = "closed" \/ \E t \in Tasks : masterPc[t] = "open_drive"

\* ... and it is the only one: no step makes a false CLOSED, neither by
\* recording one nor by moving a valve behind it.  So every CLOSED after the
\* first opening, and every one the driver has confirmed, is the truth.
ClosedIsConfirmed == [][ClosedIsTrue => ClosedIsTrue']_masterVars

\* CLOSING is never a resting state: the store says it only while a task is
\* inside the service waiting for the driver to confirm (so that a fault or an
\* answer always ends it, and no one is left in CLOSING, from which neither
\* an opening nor a closing is accepted).
ClosingIsInProgress ==
    masterState = "CLOSING" => \E t \in Tasks : masterPc[t] = "close_drive"
=============================================================================
