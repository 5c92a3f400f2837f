---------------------------- MODULE MCController ----------------------------
(* Two zones, a program over both and a program over one. *)
EXTENDS Controller, TLC

CONSTANTS z1, z2, p1, p2

MCZones == {z1, z2}
MCPrograms == {p1, p2}
MCSteps == p1 :> <<z1, z2>> @@ p2 :> <<z2>>
MCStepIndices == 0..1
MCTasks == {Sched, Http}

(* Instances with a single program. *)
OneProgram == {p1}
OneProgramOneStep == p1 :> <<z1>>
=============================================================================
