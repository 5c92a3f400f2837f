--------------------- MODULE MCConfigurationRepository ---------------------
(***************************************************************************)
(* The repository with a default and two other configurations, a counter   *)
(* of generations that wraps after a few saves, and two storage faults.    *)
(***************************************************************************)
EXTENDS ConfigurationRepository

CONSTANTS compiled, edited, other
=============================================================================
