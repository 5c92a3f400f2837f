----------------------------- MODULE ZoneValves -----------------------------
(***************************************************************************)
(* What the zone valves of a controller do between two resets, with no     *)
(* word of tasks, locks, calls or records: the one-active-zone rule and    *)
(* the lock-out after a fault (the rules of domain/zones/zone_service.c    *)
(* and of state_store_prepare_zone_open).  ZoneService implements it.      *)
(***************************************************************************)
CONSTANT Zones

VARIABLES
    energised,  \* the valves with current
    faulted     \* an actuation has failed

Init == energised = {} /\ faulted = FALSE

\* Only with every other valve released, and never after a fault.
Energise(z) ==
    /\ ~faulted
    /\ energised = {}
    /\ energised' = {z}
    /\ UNCHANGED faulted

Release(z) ==
    /\ z \in energised
    /\ energised' = energised \ {z}
    /\ UNCHANGED faulted

\* A valve may be left energised: the record of it says UNKNOWN.
Fault ==
    /\ faulted' = TRUE
    /\ UNCHANGED energised

Next == Fault \/ \E z \in Zones : Energise(z) \/ Release(z)

Spec == Init /\ [][Next]_<<energised, faulted>>
=============================================================================
