---------------------------- MODULE FirmwareTasks ---------------------------
(***************************************************************************)
(* The FreeRTOS tasks of the firmware that call the services: the          *)
(* scheduler task and the HTTP server task (main/system_ready.c and        *)
(* interfaces/http/dev_kit_web.c), on the two cores of the ESP32.  The     *)
(* services are written for any set of tasks.                              *)
(***************************************************************************)
CONSTANTS
    Tasks,     \* the tasks that may call the services
    NoTask     \* the owner of a free operation lock

ASSUME TasksAssumption == NoTask \notin Tasks
=============================================================================
