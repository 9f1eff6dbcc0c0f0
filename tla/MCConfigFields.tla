-------------------------- MODULE MCConfigFields ----------------------------
(***************************************************************************)
(* ConfigFields and ConfigBlob for TLC: numbers of a few values, bytes of  *)
(* sixteen.  The members that no rule reads differ from one another; every *)
(* rule has values on both sides of it.                                    *)
(***************************************************************************)
EXTENDS ConfigBlob, FiniteSets

MCDefaults == [m \in {Layout[i][1] : i \in DOMAIN Layout} |->
  CASE m \in Flags \cup {"enable_active_low"} -> 0
    [] m \in {"interpolation", "binary_stream_enabled", "version", "MICROSTEPS",
              "RUN_CURRENT_MA", "DEFAULT_MAX_VELOCITY_SPS", "DEFAULT_MAX_ACCEL_SPS2",
              "DEFAULT_STOP_DECEL_SPS2", "VELOCITY_TIMEOUT_ACTION"} -> 1
    [] m \in {"HOLD_CURRENT_MA", "TELEMETRY_INTERVAL_MS", "DRIVER_MODE"} -> 0
    [] m = "SOFT_LIMIT_MIN_STEPS" -> -3
    [] m = "SOFT_LIMIT_MAX_STEPS" -> 5000
    [] m = "max_current_ma" -> 2
    [] m = "HOST_TIMEOUT_MS" -> 300
    [] m \in {"MAX_ALLOWED_CURRENT_MA", "MAX_ALLOWED_VELOCITY_SPS",
              "MAX_ALLOWED_ACCEL_SPS2"} -> 2
    [] m = "blank_time" -> 4
    [] m = "toff" -> 5
    [] OTHER -> 3 + CHOOSE i \in DOMAIN Layout : Layout[i][1] = m]

MCInputs == [f \in Known |->
  CASE f = "TELEMETRY_INTERVAL_MS" -> {-1, 0, 255, 256}
    [] f \in Flags -> {0, 2}
    [] f = "SOFT_LIMIT_MIN_STEPS" -> {-3, 5001}
    [] f = "SOFT_LIMIT_MAX_STEPS" -> {-4, 5000}
    [] f \in {"RUN_CURRENT_MA", "MAX_ALLOWED_CURRENT_MA"} -> {0, 1, 2, 3, 256}
    [] f = "HOLD_CURRENT_MA" -> {-1, 0, 1, 2}
    [] f = "MICROSTEPS" -> {0, 1, 3, 5}
    [] f = "DRIVER_MODE" -> {-1, 2}
    [] f = "VELOCITY_TIMEOUT_ACTION" -> {-1, 0, 1, 2}
    [] f \in Reserved -> {0}
    [] f = "HOST_TIMEOUT_MS" -> {99, 300, 600, 601}
    [] OTHER -> {-1, 0, 1, 2}]

(* Every combination within one group of rules, the rest as by default. *)
Group(fields) ==
  {[m \in Members |-> IF m \in fields THEN v[m] ELSE Defaults[m]] :
     v \in {w \in [fields -> UNION {Inputs[f] : f \in fields}] : \A f \in fields : w[f] \in Inputs[f]}}

MCTargets ==
  Group({"RUN_CURRENT_MA", "HOLD_CURRENT_MA", "MAX_ALLOWED_CURRENT_MA"})
    \cup Group({"DEFAULT_MAX_VELOCITY_SPS", "MAX_ALLOWED_VELOCITY_SPS"})
    \cup Group({"DEFAULT_MAX_ACCEL_SPS2", "DEFAULT_STOP_DECEL_SPS2", "MAX_ALLOWED_ACCEL_SPS2"})
    \cup Group({"SOFT_LIMITS_ENABLED", "SOFT_LIMIT_MIN_STEPS", "SOFT_LIMIT_MAX_STEPS"})
    \cup Group({"TELEMETRY_INTERVAL_MS", "HOST_TIMEOUT_MS", "MICROSTEPS"})

=============================================================================
