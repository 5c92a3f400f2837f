----------------------------- MODULE StateStore -----------------------------
(***************************************************************************)
(* The runtime state of the controller (app/state/state_store.c) and the   *)
(* calls that read and write it.                                           *)
(*                                                                         *)
(* RuntimeState is one C struct without a lock of its own.  Its fields fall *)
(* into three groups, each written only by the service whose operation     *)
(* lock guards it: zone fields (ZoneService), master valve fields          *)
(* (MasterValveService) and program fields (ProgramService).  An operator  *)
(* below changes the fields of one group and says nothing of the others,   *)
(* so the service modules conjoin what they leave alone.                   *)
(*                                                                         *)
(* state_store_configure_zones rejects two zones on one output, so an      *)
(* output is named by its zone.  A timestamp is abstracted to the only     *)
(* thing read from it: whether the delay measured from it has elapsed.     *)
(***************************************************************************)
EXTENDS Naturals

CONSTANTS
    Zones,          \* the zones of the board (DEV_ZONES), one output each
    EnabledZones,   \* those whose Zone.enabled is set
    StepIndices     \* bound: the step indices a program may reach

ASSUME StoreAssumption ==
    /\ EnabledZones \subseteq Zones
    /\ StepIndices \subseteq Nat
    /\ 0 \in StepIndices

VARIABLES
    systemState,    \* current.system_state
    zoneState,      \* current.zones[].state, "ABSENT" before configuration
    outputState,    \* current.output_states[]
    masterState,    \* current.master_valve.state
    preOpenElapsed, \* now - opening_confirmed_at_ms >= pre_open_delay_ms
    programState,   \* current.program.state
    stepIndex,      \* current.program.current_step_index
    stepElapsed     \* now - step_started_at_ms >= the delay of the step

storeZoneVars    == <<systemState, zoneState, outputState>>
storeMasterVars  == <<masterState, preOpenElapsed>>
storeProgramVars == <<programState, stepIndex, stepElapsed>>
storeVars        == <<storeZoneVars, storeMasterVars, storeProgramVars>>

\* The states the code assigns.  RUNNING, OTA and MAINTENANCE of SystemState
\* and OPENING and CLOSING of ZoneState are declared and never assigned.
SystemStates   == {"BOOT", "READY", "MANUAL", "ERROR"}
ZoneStates     == {"ABSENT", "DISABLED", "IDLE", "OPEN", "FAULT"}
OutputStates   == {"OFF", "ON", "UNKNOWN"}
MasterStates   == {"CLOSED", "OPENING", "OPEN", "CLOSING", "FAULT"}
ActivePrograms == {"WAITING_MASTER", "RUNNING_ZONE", "WAITING_POST_PROGRAM_DELAY"}
TerminalStates == {"COMPLETED", "ABORTED", "FAULT"}
ProgramStates  == {"IDLE"} \cup ActivePrograms \cup TerminalStates

StoreInit ==
    /\ systemState = "BOOT"
    /\ zoneState = [z \in Zones |-> "ABSENT"]
    /\ outputState = [z \in Zones |-> "OFF"]
    /\ masterState = "CLOSED"
    /\ preOpenElapsed = FALSE
    /\ programState = "IDLE"
    /\ stepIndex = 0
    /\ stepElapsed = FALSE

(***************************************************************************)
(* Zone fields                                                             *)
(***************************************************************************)

\* Mutant: the scan of the outputs overlooks the active ones.
HasUnknownOutputOnly == \E z \in Zones : outputState[z] = "UNKNOWN"

HasActiveOrUnknownOutput == \E z \in Zones : outputState[z] # "OFF"

SystemTransitionIsAllowed(from, to) ==
    \/ from = to
    \/ <<from, to>> \in { <<"BOOT", "READY">>, <<"READY", "MANUAL">>,
                          <<"MANUAL", "READY">>, <<"READY", "ERROR">>,
                          <<"ERROR", "BOOT">> }

TransitionSystem(next) ==
    /\ SystemTransitionIsAllowed(systemState, next)
    /\ systemState' = next
    /\ UNCHANGED <<zoneState, outputState>>

ConfiguredZones == [z \in Zones |-> IF z \in EnabledZones THEN "IDLE" ELSE "DISABLED"]

\* app_main calls it once, before any service exists, hence the first guard.
ConfigureZones ==
    /\ \A z \in Zones : zoneState[z] = "ABSENT"
    /\ zoneState' = ConfiguredZones
    /\ UNCHANGED <<systemState, outputState>>

\* Mutant: prepare_zone_open no longer asks for MANUAL.
CanOpenZoneInAnySystemState(z) ==
    /\ zoneState[z] = "IDLE"
    /\ masterState = "OPEN"
    /\ ~HasActiveOrUnknownOutput

\* state_store_prepare_zone_open, the check state_store_open_zone repeats.
CanOpenZone(z) ==
    /\ systemState = "MANUAL"
    /\ zoneState[z] = "IDLE"
    /\ masterState = "OPEN"
    /\ ~HasActiveOrUnknownOutput

\* Mutant: the opening stops at the declared state nobody handles.
WriteZoneOpening(z) ==
    /\ zoneState' = [zoneState EXCEPT ![z] = "OPENING"]
    /\ outputState' = [outputState EXCEPT ![z] = "ON"]
    /\ UNCHANGED systemState

WriteZoneOpen(z) ==
    /\ zoneState' = [zoneState EXCEPT ![z] = "OPEN"]
    /\ outputState' = [outputState EXCEPT ![z] = "ON"]
    /\ UNCHANGED systemState

OpenZone(z) == CanOpenZone(z) /\ WriteZoneOpen(z)

\* Mutant: the output keeps its recorded state.
CloseZoneOnly(z) ==
    /\ zoneState[z] \in {"OPEN", "FAULT"}
    /\ zoneState' = [zoneState EXCEPT ![z] = "IDLE"]
    /\ UNCHANGED <<systemState, outputState>>

\* Mutant: the last zone to close makes the system READY whatever it was.
CloseZoneMakesReady(z) ==
    /\ zoneState[z] \in {"OPEN", "FAULT"}
    /\ zoneState' = [zoneState EXCEPT ![z] = "IDLE"]
    /\ outputState' = [outputState EXCEPT ![z] = "OFF"]
    /\ systemState' = IF HasActiveOrUnknownOutput' THEN systemState ELSE "READY"

CloseZone(z) ==
    /\ zoneState[z] \in {"OPEN", "FAULT"}
    /\ zoneState' = [zoneState EXCEPT ![z] = "IDLE"]
    /\ outputState' = [outputState EXCEPT ![z] = "OFF"]
    /\ systemState' = IF HasActiveOrUnknownOutput' \/ systemState # "MANUAL"
                      THEN systemState
                      ELSE "READY"

\* Mutant: ERROR is asked of the transition table, which has no way to it
\* from MANUAL.
RecordZoneActuationFaultByTable(z, output) ==
    /\ zoneState[z] \notin {"ABSENT", "DISABLED"}
    /\ zoneState' = [zoneState EXCEPT ![z] = "FAULT"]
    /\ outputState' = [outputState EXCEPT ![z] = output]
    /\ systemState' = IF SystemTransitionIsAllowed(systemState, "ERROR")
                      THEN "ERROR" ELSE systemState

\* Every caller passes OFF or UNKNOWN.
RecordZoneActuationFault(z, output) ==
    /\ zoneState[z] \notin {"ABSENT", "DISABLED"}
    /\ zoneState' = [zoneState EXCEPT ![z] = "FAULT"]
    /\ outputState' = [outputState EXCEPT ![z] = output]
    /\ systemState' = "ERROR"

(***************************************************************************)
(* Master valve fields                                                     *)
(***************************************************************************)

MasterValveCloseIsEligible ==
    /\ masterState \in {"OPEN", "OPENING"}
    /\ ~HasActiveOrUnknownOutput

BeginMasterValveOpen ==
    /\ masterState \in {"CLOSED", "FAULT"}
    /\ masterState' = "OPENING"
    /\ preOpenElapsed' = FALSE

CompleteMasterValvePreOpenDelay ==
    /\ masterState = "OPENING"
    /\ preOpenElapsed
    /\ masterState' = "OPEN"
    /\ UNCHANGED preOpenElapsed

WriteMasterValveClosing ==
    /\ masterState' = "CLOSING"
    /\ UNCHANGED preOpenElapsed

BeginMasterValveClose == MasterValveCloseIsEligible /\ WriteMasterValveClosing

CompleteMasterValveClose ==
    /\ masterState = "CLOSING"
    /\ masterState' = "CLOSED"
    /\ UNCHANGED preOpenElapsed

RecordMasterValveFault ==
    /\ masterState' = "FAULT"
    /\ UNCHANGED preOpenElapsed

(***************************************************************************)
(* Program fields                                                          *)
(***************************************************************************)

ProgramIsActive == programState \in ActivePrograms

\* FAULT is absent from the states a program may start from: the lock-out.
CanStartProgram == programState \in {"IDLE", "COMPLETED", "ABORTED"}

StartProgram ==
    /\ CanStartProgram
    /\ programState' = "WAITING_MASTER"
    /\ stepIndex' = 0
    /\ stepElapsed' = FALSE

SetProgramRunningZone(index) ==
    /\ programState \in {"WAITING_MASTER", "RUNNING_ZONE"}
    /\ programState' = "RUNNING_ZONE"
    /\ stepIndex' = index
    /\ stepElapsed' = FALSE

SetProgramWaitingPostDelay ==
    /\ programState = "RUNNING_ZONE"
    /\ programState' = "WAITING_POST_PROGRAM_DELAY"
    /\ stepElapsed' = FALSE
    /\ UNCHANGED stepIndex

\* The code accepts it in every program state.
SetProgramTerminal(state) ==
    /\ programState' = state
    /\ UNCHANGED <<stepIndex, stepElapsed>>

(***************************************************************************)
(* The passage of time, seen through the two delays.                       *)
(***************************************************************************)

PreOpenDelayElapses ==
    /\ masterState = "OPENING"
    /\ ~preOpenElapsed
    /\ preOpenElapsed' = TRUE
    /\ UNCHANGED masterState

StepDelayElapses ==
    /\ programState \in {"RUNNING_ZONE", "WAITING_POST_PROGRAM_DELAY"}
    /\ ~stepElapsed
    /\ stepElapsed' = TRUE
    /\ UNCHANGED <<programState, stepIndex>>

(***************************************************************************)
(* The store on its own: any caller, any order, each call atomic.          *)
(***************************************************************************)

ZoneCall ==
    \/ \E s \in SystemStates : TransitionSystem(s)
    \/ ConfigureZones
    \/ \E z \in Zones : OpenZone(z)
    \/ \E z \in Zones : CloseZone(z)
    \/ \E z \in Zones, o \in {"OFF", "UNKNOWN"} : RecordZoneActuationFault(z, o)

MasterCall ==
    \/ BeginMasterValveOpen
    \/ CompleteMasterValvePreOpenDelay
    \/ BeginMasterValveClose
    \/ CompleteMasterValveClose
    \/ RecordMasterValveFault
    \/ PreOpenDelayElapses

ProgramCall ==
    \/ StartProgram
    \/ \E i \in StepIndices : SetProgramRunningZone(i)
    \/ SetProgramWaitingPostDelay
    \/ \E s \in TerminalStates : SetProgramTerminal(s)
    \/ StepDelayElapses

StoreNext ==
    \/ ZoneCall /\ UNCHANGED <<storeMasterVars, storeProgramVars>>
    \/ MasterCall /\ UNCHANGED <<storeZoneVars, storeProgramVars>>
    \/ ProgramCall /\ UNCHANGED <<storeZoneVars, storeMasterVars>>

StoreSpec == StoreInit /\ [][StoreNext]_storeVars

-----------------------------------------------------------------------------

\* Type invariant: the reserved states of the enumerations are never entered.
StoreTypeOK ==
    /\ systemState \in SystemStates
    /\ zoneState \in [Zones -> ZoneStates]
    /\ outputState \in [Zones -> OutputStates]
    /\ masterState \in MasterStates
    /\ preOpenElapsed \in BOOLEAN
    /\ programState \in ProgramStates
    /\ stepIndex \in StepIndices
    /\ stepElapsed \in BOOLEAN

\* The two views of one zone, its state and its output, never part: a zone is
\* OPEN exactly when its output is ON, and an output of unknown state belongs
\* to a zone in FAULT (so that state_store_close_zone can still reach it).
OutputMatchesZone ==
    \A z \in Zones :
        /\ outputState[z] = "ON" <=> zoneState[z] = "OPEN"
        /\ outputState[z] = "UNKNOWN" => zoneState[z] = "FAULT"

\* The one-active-zone rule on the recorded state: two zones are never OPEN
\* together (state_store_prepare_zone_open lets none open while another is).
OneOpenZone ==
    \A a, b \in Zones : zoneState[a] = "OPEN" /\ zoneState[b] = "OPEN" => a = b

\* No zone is recorded open behind a master valve recorded closed or closing:
\* state_store_master_valve_close_is_eligible guards the only way there.
NoOpenZoneBehindClosedMaster ==
    (\E z \in Zones : zoneState[z] = "OPEN") => masterState \notin {"CLOSED", "CLOSING"}

\* A fault is not forgotten on the way to READY: from ERROR the system state
\* goes nowhere but BOOT, whatever zones are closed meanwhile.
ErrorLeadsOnlyToBoot ==
    [][systemState = "ERROR" => systemState' \in {"ERROR", "BOOT"}]_storeVars
=============================================================================
