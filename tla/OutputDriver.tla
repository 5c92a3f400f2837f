---------------------------- MODULE OutputDriver ----------------------------
(***************************************************************************)
(* The zone service on the driver of the controller board                  *)
(* (hal/outputs/irrigation_controller_output_driver.c): the relays hang on *)
(* the latch of an I2C port expander, one write of which sets them all.    *)
(* The driver keeps a mask of the relays it has switched on and asks for   *)
(* that mask with one bit changed.  After a write that failed it forgets   *)
(* the mask and tries to clear the port.                                   *)
(*                                                                         *)
(* The driver never reads the port back: the board may differ from the     *)
(* mask.  Its calls are made under the operation lock of the zone service. *)
(***************************************************************************)
EXTENDS ZoneService

VARIABLE outputMask    \* driver->output_mask, as a set

driverVars == <<zoneVars, outputMask>>

\* Mutant: the bit is not complemented.
RequestedMaskKeepsBit(z, enabled) ==
    IF enabled THEN outputMask \cup {z} ELSE outputMask \cap {z}

RequestedMask(z, enabled) ==
    IF enabled THEN outputMask \cup {z} ELSE outputMask \ {z}

\* Mutant: a write that fails is not followed by ensure_safe_off.
SetOutputKeepsMask(z, enabled, succeeds) ==
    LET requested == RequestedMask(z, enabled) IN
    IF succeeds
    THEN relays' = requested /\ outputMask' = requested
    ELSE relays' \in {relays, requested} /\ UNCHANGED outputMask

\* irrigation_controller_set_output.  Of the failed write and of the one that
\* clears the port each may or may not have reached the latch.
SetOutput(z, enabled, succeeds) ==
    LET requested == RequestedMask(z, enabled) IN
    IF succeeds
    THEN relays' = requested /\ outputMask' = requested
    ELSE relays' \in {relays, requested, {}} /\ outputMask' = {}

DriverOpen(t) ==
    /\ \E succeeds \in BOOLEAN :
          /\ ZoneGoto(t, "open_drive", IF succeeds THEN "open_confirm" ELSE "open_undo")
          /\ SetOutput(zoneArg[t], TRUE, succeeds)
    /\ ZoneCallUnchanged
    /\ UNCHANGED <<storeZoneVars, zoneElapsed>>

DriverUndo(t) ==
    /\ \E succeeds \in BOOLEAN :
          /\ ZoneGoto(t, "open_undo", IF succeeds THEN "fault_off" ELSE "fault_unknown")
          /\ SetOutput(zoneArg[t], FALSE, succeeds)
    /\ ZoneCallUnchanged
    /\ UNCHANGED <<storeZoneVars, zoneElapsed>>

DriverWithdraw(t) ==
    /\ ZoneGoto(t, "open_withdraw", "fault_unknown")
    /\ \E succeeds \in BOOLEAN : SetOutput(zoneArg[t], FALSE, succeeds)
    /\ ZoneCallUnchanged
    /\ UNCHANGED <<storeZoneVars, zoneElapsed>>

\* Mutant: the result of the driver is ignored.
DriverCloseUnchecked(t) ==
    /\ ZoneGoto(t, "close_drive", "close_commit")
    /\ \E succeeds \in BOOLEAN : SetOutput(zoneArg[t], FALSE, succeeds)
    /\ ZoneCallUnchanged
    /\ UNCHANGED <<storeZoneVars, zoneElapsed>>

DriverClose(t) ==
    /\ \E succeeds \in BOOLEAN :
          /\ ZoneGoto(t, "close_drive", IF succeeds THEN "close_commit" ELSE "fault_unknown")
          /\ SetOutput(zoneArg[t], FALSE, succeeds)
    /\ ZoneCallUnchanged
    /\ UNCHANGED <<storeZoneVars, zoneElapsed>>

\* After irrigation_controller_initialize_safe_off, without which the program
\* stays in BOOT.
DriverInit == ZoneInit /\ outputMask = {}

DriverNext ==
    \/ \E t \in Tasks :
          /\ DriverOpen(t) \/ DriverUndo(t) \/ DriverWithdraw(t) \/ DriverClose(t)
          /\ UNCHANGED masterState
    \/ /\ \/ \E t \in Tasks : OtherZoneStep(t) /\ UNCHANGED masterState
          \/ AroundZoneService
       /\ UNCHANGED outputMask

DriverSpec == DriverInit /\ [][DriverNext]_driverVars

-----------------------------------------------------------------------------

\* What the driver takes for on is on, whatever writes have failed.  A bit of
\* the mask whose relay is off would come on with the next write, be it one
\* that closes another zone.
MaskIsEnergised == outputMask \subseteq relays
=============================================================================
