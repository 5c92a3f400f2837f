------------------------- MODULE MCSchedulerService -------------------------
(***************************************************************************)
(* Two cells for schedules, one weekday of two minutes over two weeks, and *)
(* five changes: enough to create two, delete the first and edit or roll   *)
(* back the second while both minutes come and go.                         *)
(***************************************************************************)
EXTENDS SchedulerService
=============================================================================
