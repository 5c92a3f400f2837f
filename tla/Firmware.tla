------------------------------ MODULE Firmware ------------------------------
(***************************************************************************)
(* The controller from one reset to the next: app_main                     *)
(* (main/system_ready.c) builds the store and the services anew, and only  *)
(* then the two tasks run (module Controller).                             *)
(*                                                                         *)
(* Nothing of the runtime state is stored.  A reset finds the relays and   *)
(* the remote valve as it left them: the latch of the port expander keeps  *)
(* its bits unless the power goes too, and the remote valve has a supply   *)
(* of its own.  A reset may come at any moment, in app_main too.           *)
(***************************************************************************)
EXTENDS Controller

VARIABLE bootPc    \* where app_main stands

firmwareVars == <<vars, bootPc>>

BootPcs == {"outputs", "ready", "zones", "scheduler", "running", "unsafe", "halted"}

BootGoto(from, to) == bootPc = from /\ bootPc' = to

\* Power-up.
FirmwareInit ==
    /\ StoreInit
    /\ ZoneServiceInit
    /\ MasterServiceInit
    /\ ProgramServiceInit
    /\ schedPc = "master_time"
    /\ due = {}
    /\ request = "none"
    /\ bootPc = "outputs"

\* The memory is as after power-up, the relays and the remote valve are not.
\* The requests under way to the remote valve are carried out or lost before
\* it is asked for anything again.
Reset ==
    /\ relays' \in {relays, {}}
    /\ remoteValve' \in {"open", "closed"}
    /\ systemState' = "BOOT"
    /\ zoneState' = [z \in Zones |-> "ABSENT"]
    /\ outputState' = [z \in Zones |-> "OFF"]
    /\ masterState' = "CLOSED"
    /\ preOpenElapsed' = FALSE
    /\ programState' = "IDLE"
    /\ stepIndex' = 0
    /\ stepElapsed' = FALSE
    /\ zoneLock' = NoTask
    /\ zonePc' = [t \in Tasks |-> "idle"]
    /\ zoneOp' = [t \in Tasks |-> "none"]
    /\ zoneArg' = [t \in Tasks |-> NoZone]
    /\ todo' = [t \in Tasks |-> {}]
    /\ closeFailed' = [t \in Tasks |-> FALSE]
    /\ zoneElapsed' = [z \in Zones |-> FALSE]
    /\ masterLock' = NoTask
    /\ masterPc' = [t \in Tasks |-> "idle"]
    /\ programLock' = NoTask
    /\ programPc' = [t \in Tasks |-> "idle"]
    /\ programArg' = [t \in Tasks |-> NoProgram]
    /\ program' = NoProgram
    /\ schedPc' = "master_time"
    /\ due' = {}
    /\ request' = "none"
    /\ bootPc' = "outputs"

(***************************************************************************)
(* app_main, before any task runs.                                         *)
(***************************************************************************)

UnchangedInBoot ==
    UNCHANGED <<zoneServiceVars, allMasterVars, allProgramVars, taskVars>>

\* Mutant: the outputs of a store in its initial state are taken for off.
TrustStoredOutputs ==
    /\ BootGoto("outputs", "ready")
    /\ UNCHANGED vars

\* output_driver_initialize_safe_off.  Whoever fails here never leaves BOOT:
\* no service exists and no task is started.
SwitchOutputsOff ==
    /\ \/ BootGoto("outputs", "ready") /\ relays' = {}
       \/ BootGoto("outputs", "unsafe") /\ relays' \in {relays, {}}
    /\ UNCHANGED <<zoneLock, zonePc, zoneOp, zoneArg, todo, closeFailed, zoneElapsed>>
    /\ UNCHANGED <<storeZoneVars, allMasterVars, allProgramVars, taskVars>>

EnterReady ==
    /\ BootGoto("ready", "zones")
    /\ TransitionSystem("READY")
    /\ UnchangedInBoot

BootZones ==
    /\ BootGoto("zones", "scheduler")
    /\ ConfigureZones
    /\ UnchangedInBoot

\* configuration_manager_configure_scheduler, the last that may fail (module
\* ConfigurationManager says when); then xTaskCreate.
StartTasks ==
    /\ BootGoto("scheduler", "running") \/ BootGoto("scheduler", "halted")
    /\ UNCHANGED vars

BootStep == SwitchOutputsOff \/ EnterReady \/ BootZones \/ StartTasks

FirmwareNext ==
    \/ Reset
    \/ BootStep
    \/ bootPc = "running" /\ Next /\ UNCHANGED bootPc

(***************************************************************************)
(* Fairness: that of Controller while the tasks run.  Resets need not come *)
(* to an end.                                                              *)
(***************************************************************************)

FirmwareFairness ==
    /\ WF_firmwareVars(bootPc = "running" /\ SchedTask /\ UNCHANGED bootPc)
    /\ WF_firmwareVars(bootPc = "running" /\ HttpTask /\ UNCHANGED bootPc)
    /\ WF_firmwareVars(bootPc = "running" /\ MasterDelayElapses /\ UNCHANGED bootPc)
    /\ WF_firmwareVars(bootPc = "running" /\ ProgramDelayElapses /\ UNCHANGED bootPc)

FirmwareSpec == FirmwareInit /\ [][FirmwareNext]_firmwareVars /\ FirmwareFairness

-----------------------------------------------------------------------------

\* No relay is energised but that of the current step of a running program, or
\* one that could not be switched off and whose output is recorded UNKNOWN:
\* whenever no task is inside the program service, after every reset.  So the
\* remote valve, which a reset may leave open behind a store that says CLOSED
\* and which nobody closes then, lets no water out.  As OpenZoneIsProgrammed,
\* it is about schedules and aborts: users operate no zone by hand and start no
\* program (Requests).  If the outputs cannot be switched off at the start the
\* controller stays in BOOT ("unsafe").
EnergisedRelayIsProgrammed ==
    bootPc \notin {"outputs", "unsafe"} /\ programLock = NoTask =>
        \A z \in relays :
            \/ programState = "RUNNING_ZONE" /\ z \in StepZones
            \/ outputState[z] = "UNKNOWN"
=============================================================================
