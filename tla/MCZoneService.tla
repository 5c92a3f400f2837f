---------------------------- MODULE MCZoneService ---------------------------
(* Two tasks on two enabled zones and a disabled one. *)
EXTENDS OutputDriver, TLC

CONSTANTS z1, z2, z3, t1, t2

MCZones == {z1, z2, z3}
MCEnabledZones == {z1, z2}
MCTasks == {t1, t2}
MCStepIndices == {0}

(* The fields of the store this service never reads stay at rest. *)
OtherFieldsAtRest ==
    /\ preOpenElapsed = FALSE
    /\ programState = "IDLE"
    /\ stepIndex = 0
    /\ stepElapsed = FALSE

MCInit == DriverInit /\ OtherFieldsAtRest
MCNext == DriverNext /\ UNCHANGED <<preOpenElapsed, storeProgramVars>>
MCSpec == MCInit /\ [][MCNext]_<<driverVars, preOpenElapsed, storeProgramVars>>

MCSymmetry == Permutations(MCEnabledZones) \cup Permutations(MCTasks)
=============================================================================
