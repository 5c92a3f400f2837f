----------------------- MODULE MCConfigurationManager -----------------------
(***************************************************************************)
(* Two programs and two schedules at most: tables that are full, an entry  *)
(* that moves when the one before it goes, a slot that is not the          *)
(* position, and a reboot onto the defaults with no slot left.             *)
(***************************************************************************)
EXTENDS ConfigurationManager
=============================================================================
