----------------------------- MODULE Controller -----------------------------
(***************************************************************************)
(* The running firmware: the scheduler task (main/system_ready.c) and the  *)
(* HTTP server task (interfaces/http/dev_kit_web.c) call the three         *)
(* services and share the store.                                           *)
(*                                                                         *)
(* The HTTP server runs its handlers one after the other on one task, so   *)
(* at most one request is in progress; it interleaves freely with the      *)
(* scheduler task, which runs on the other core.                           *)
(***************************************************************************)
EXTENDS ProgramService

CONSTANTS
    Sched, Http,   \* the two tasks
    Requests       \* bound: the HTTP requests users make in this instance

AllRequests == {"zone_open", "zone_close", "master_open", "master_close",
                "program_start", "program_abort"}

ASSUME ControllerAssumption ==
    /\ Tasks = {Sched, Http}
    /\ Sched # Http
    /\ Requests \subseteq AllRequests

VARIABLES
    schedPc,       \* where the loop of scheduler_task stands
    due,           \* programs of the schedule entries found due in this round
    request        \* the request the HTTP server is serving

taskVars == <<schedPc, due, request>>
vars == <<allZoneVars, allMasterVars, allProgramVars, taskVars>>

SchedPcs == {"master_time", "master_time_wait", "check", "process_wait",
             "schedule", "start_wait"}

\* At the end of app_main the system is READY and its zones are configured.
Init ==
    /\ ZoneStoreBooted
    /\ masterState = "CLOSED"
    /\ preOpenElapsed = FALSE
    /\ programState = "IDLE"
    /\ stepIndex = 0
    /\ stepElapsed = FALSE
    /\ ZoneServiceInit
    /\ MasterServiceInit
    /\ ProgramServiceInit
    /\ schedPc = "master_time"
    /\ due = {}
    /\ request = "none"

(***************************************************************************)
(* scheduler_task: every 200 ms the master valve's delay, then the running *)
(* program; every 30 s the schedule.  Results are ignored.                 *)
(***************************************************************************)

SchedGoto(from, to) == schedPc = from /\ schedPc' = to /\ UNCHANGED request

SchedMasterTime ==
    /\ SchedGoto("master_time", "master_time_wait")
    /\ CallMaster(Sched, "process_time")
    /\ UNCHANGED <<due, allZoneVars, allProgramVars>>

SchedMasterTimeDone ==
    /\ SchedGoto("master_time_wait", "check")
    /\ \E result \in {"ok", "fail"} : MasterReturned(Sched, result)
    /\ UNCHANGED <<due, allZoneVars, allProgramVars>>

SchedProcess ==
    /\ ProgramIsActive
    /\ SchedGoto("check", "process_wait")
    /\ CallProgram(Sched, "process", NoProgram)
    /\ UNCHANGED <<due, allZoneVars, allMasterVars>>

\* scheduler_service_process: whichever entries the clock and the schedule
\* make due, none in the rounds in which it is not called.
FindDue == due' \in SUBSET Programs

SchedNoProgram ==
    /\ ~ProgramIsActive
    /\ SchedGoto("check", "schedule")
    /\ FindDue
    /\ UNCHANGED <<allZoneVars, allMasterVars, allProgramVars>>

SchedProcessDone ==
    /\ SchedGoto("process_wait", "schedule")
    /\ FindDue
    /\ \E result \in {"ok", "fail"} : ProgramReturned(Sched, result)
    /\ UNCHANGED <<allZoneVars, allMasterVars>>

SchedSkipBusy(p) ==
    /\ p \in due
    /\ ProgramIsActive
    /\ SchedGoto("schedule", "schedule")
    /\ due' = due \ {p}
    /\ UNCHANGED <<allZoneVars, allMasterVars, allProgramVars>>

SchedStart(p) ==
    /\ p \in due
    /\ ~ProgramIsActive
    /\ SchedGoto("schedule", "start_wait")
    /\ due' = due \ {p}
    /\ CallProgram(Sched, "start", p)
    /\ UNCHANGED <<allZoneVars, allMasterVars>>

SchedStartDone ==
    /\ SchedGoto("start_wait", "schedule")
    /\ \E result \in {"ok", "fail"} : ProgramReturned(Sched, result)
    /\ UNCHANGED <<due, allZoneVars, allMasterVars>>

\* vTaskDelay and round again.
SchedRoundEnds ==
    /\ due = {}
    /\ SchedGoto("schedule", "master_time")
    /\ UNCHANGED <<due, allZoneVars, allMasterVars, allProgramVars>>

SchedStep ==
    \/ SchedMasterTime
    \/ SchedMasterTimeDone
    \/ SchedProcess
    \/ SchedNoProgram
    \/ SchedProcessDone
    \/ \E p \in Programs : SchedSkipBusy(p) \/ SchedStart(p)
    \/ SchedStartDone
    \/ SchedRoundEnds

(***************************************************************************)
(* The HTTP handlers: each is one call of a service.                       *)
(***************************************************************************)

Receive(r) ==
    /\ request = "none"
    /\ r \in Requests
    /\ request' = r
    /\ UNCHANGED <<schedPc, due>>

ZoneHandler ==
    /\ \/ Receive("zone_open") /\ \E z \in Zones : CallZone(Http, "open", z)
       \/ Receive("zone_close") /\ \E z \in Zones : CallZone(Http, "close", z)
    /\ UNCHANGED <<allMasterVars, allProgramVars>>

MasterHandler ==
    /\ \/ Receive("master_open") /\ CallMaster(Http, "open")
       \/ Receive("master_close") /\ CallMaster(Http, "close")
    /\ UNCHANGED <<allZoneVars, allProgramVars>>

ProgramHandler ==
    /\ \/ Receive("program_start") /\ \E p \in Programs : CallProgram(Http, "start", p)
       \/ Receive("program_abort") /\ CallProgram(Http, "abort", NoProgram)
    /\ UNCHANGED <<allZoneVars, allMasterVars>>

\* send_result
Respond ==
    /\ \E result \in {"ok", "fail"} :
          \/ /\ request \in {"zone_open", "zone_close"}
             /\ ZoneReturned(Http, result)
             /\ UNCHANGED <<allMasterVars, allProgramVars>>
          \/ /\ request \in {"master_open", "master_close"}
             /\ MasterReturned(Http, result)
             /\ UNCHANGED <<allZoneVars, allProgramVars>>
          \/ /\ request \in {"program_start", "program_abort"}
             /\ ProgramReturned(Http, result)
             /\ UNCHANGED <<allZoneVars, allMasterVars>>
    /\ request' = "none"
    /\ UNCHANGED <<schedPc, due>>

HttpHandler == ZoneHandler \/ MasterHandler \/ ProgramHandler

(***************************************************************************)
(* The system                                                              *)
(***************************************************************************)

ServiceStep(t) ==
    /\ \/ ZoneServiceStep(t) /\ UNCHANGED <<allMasterVars, allProgramVars>>
       \/ MasterServiceStep(t) /\ UNCHANGED <<allZoneVars, allProgramVars>>
       \/ ProgramServiceStep(t)
    /\ UNCHANGED taskVars

MasterDelayElapses ==
    /\ PreOpenDelayElapses
    /\ UNCHANGED <<allZoneVars, masterServiceVars, allProgramVars, taskVars>>

ProgramDelayElapses ==
    /\ StepDelayElapses
    /\ UNCHANGED <<allZoneVars, allMasterVars, programServiceVars, taskVars>>

\* Requests to the remote valve that the driver has given up on.
RemoteValveActs ==
    /\ RemoteValveWorks
    /\ UNCHANGED <<allZoneVars, allProgramVars, taskVars>>

SchedTask == SchedStep \/ ServiceStep(Sched)
HttpTask == Respond \/ ServiceStep(Http)

Next ==
    \/ SchedTask
    \/ HttpHandler
    \/ HttpTask
    \/ MasterDelayElapses
    \/ ProgramDelayElapses
    \/ RemoteValveActs

Spec == Init /\ [][Next]_vars

(***************************************************************************)
(* Fairness: both tasks keep being scheduled (the loop sleeps between two  *)
(* rounds and blocks on nothing but driver calls with a timeout), time     *)
(* passes, and a request once begun is served.  Users need not make any.   *)
(***************************************************************************)

Fairness ==
    /\ WF_vars(SchedTask)
    /\ WF_vars(HttpTask)
    /\ WF_vars(MasterDelayElapses)
    /\ WF_vars(ProgramDelayElapses)

FairSpec == Spec /\ Fairness

-----------------------------------------------------------------------------

\* Type invariant.
TypeOK ==
    /\ ZoneTypeOK
    /\ MasterTypeOK
    /\ ProgramTypeOK
    /\ schedPc \in SchedPcs
    /\ due \subseteq Programs
    /\ request \in AllRequests \cup {"none"}

\* Irrigation without a program behind it: while no task is inside the program
\* service, a zone is open only as the current step of a running program.  It
\* holds as long as users operate no zone by hand and start no program of
\* their own (Requests), whatever driver calls fail on the way: a program that
\* completes, faults or is aborted has closed its zone.
OpenZoneIsProgrammed ==
    programLock = NoTask =>
        \A z \in Zones :
            zoneState[z] = "OPEN" => programState = "RUNNING_ZONE" /\ z \in StepZones

\* A program that faults has not left its own zone open (fault() closes the
\* master valve only, and only once every output is off).
FaultedProgramLeavesNoZoneOpen ==
    [][programState = "RUNNING_ZONE" /\ programState' = "FAULT"
          => \A z \in Zones : z \in StepZones => zoneState[z] # "OPEN"]_vars

\* The lock-out: no program state follows FAULT, only a reboot clears it
\* (state_store_start_program accepts no start from FAULT).
ProgramFaultIsFinal ==
    [][programState = "FAULT" => programState' = "FAULT"]_vars

\* Every program that starts comes to an end, be it by a fault, if nobody
\* closes the master valve by hand.
ProgramEnds == ProgramIsActive ~> ~ProgramIsActive
=============================================================================
