------------------------------ MODULE MCBench -------------------------------
(***************************************************************************)
(* Bench for TLC: one driver setting, two telemetry rates, the original    *)
(* and the tried host timeout, both directions.                            *)
(***************************************************************************)
EXTENDS Bench

CONSTANT d1

MCConfigs == [driver : {d1}, interval : {0, 1}, timeout : {1, 2},
              action : {"RAMP_STOP"},
              inverted : BOOLEAN]

MCDefaults == [driver |-> d1, interval |-> 0, timeout |-> 2,
               action |-> "RAMP_STOP", inverted |-> FALSE]

=============================================================================
