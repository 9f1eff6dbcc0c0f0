---------------------------- MODULE MCActuator ------------------------------
(***************************************************************************)
(* Instances of Actuator for TLC.  A configuration is built from the sets  *)
(* the .cfg gives; every combination is valid, as the fields modelled here *)
(* do not constrain one another in validate_config.                        *)
(***************************************************************************)
EXTENDS Actuator

CONSTANTS d1, d2

MCConfigs(drivers, intervals, timeouts, actions) ==
  [driver : drivers, interval : intervals, timeout : timeouts, action : actions,
   inverted : {FALSE}]

(* One driver setting, both timeout actions: motion and the watchdog. *)
MotionConfigs == MCConfigs({d1}, {0}, {1}, TimeoutActions)

(* Two driver settings and two telemetry rates: the configuration path. *)
EditConfigs == MCConfigs({d1, d2}, {0, 1}, {1}, {"RAMP_STOP"})

DefaultConfig == [driver |-> d1, interval |-> 0, timeout |-> 1,
                  action |-> "RAMP_STOP", inverted |-> FALSE]

=============================================================================
