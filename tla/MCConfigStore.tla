--------------------------- MODULE MCConfigStore ---------------------------
(* Instances of ConfigStore for TLC. *)
EXTENDS ConfigStore

CONSTANTS c1, c2

ReadsMayFail == SUBSET Slots

=============================================================================
