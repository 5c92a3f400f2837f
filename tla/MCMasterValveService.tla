------------------------ MODULE MCMasterValveService ------------------------
(* Three tasks on the Shelly valve, with one output that comes and goes. *)
EXTENDS ShellyMasterValve, TLC

CONSTANTS z1, t1, t2, t3

MCZones == {z1}
MCTasks == {t1, t2, t3}
MCStepIndices == {0}

(* The fields of the store this service never reads stay at rest. *)
OtherFields == <<systemState, zoneState, storeProgramVars>>
OtherFieldsAtRest ==
    /\ systemState = "READY"
    /\ zoneState = ConfiguredZones
    /\ programState = "IDLE"
    /\ stepIndex = 0
    /\ stepElapsed = FALSE

MCInit == ShellyInit /\ OtherFieldsAtRest
MCNext == ShellyNext /\ UNCHANGED OtherFields
MCSpec == MCInit /\ [][MCNext]_<<shellyVars, OtherFields>>

MCSymmetry == Permutations(MCTasks)
=============================================================================
