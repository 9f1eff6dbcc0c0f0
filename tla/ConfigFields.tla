---------------------------- MODULE ConfigFields ----------------------------
(***************************************************************************)
(* The configuration field by field, firmware/src/config_validation.cpp    *)
(* with firmware/include/daft/config.hpp: what CONFIG_STAGE_FIELD accepts, *)
(* what CONFIG_QUERY answers and what validate_config insists on.          *)
(*                                                                         *)
(* A configuration is a function from the members of ActuatorConfig to     *)
(* numbers; the members a host can name carry the name of their            *)
(* ConfigField.  Booleans and enumerations are their numbers.              *)
(***************************************************************************)
EXTENDS Integers

CONSTANTS
  U16Max,          (* 65535                                                 *)
  I32Max,          (* 2^31 - 1                                              *)
  Version,         (* CONFIG_VERSION                                        *)
  Microsteps,      (* supported_microsteps                                  *)
  MaxMicrosteps,   (* 256                                                   *)
  MinTimeout,      (* 100                                                   *)
  MaxTimeout,      (* 60000                                                 *)
  Defaults,        (* default_config()                                      *)
  Inputs,          (* the values a host tries for each field                *)
  Targets          (* the configurations a host may want to arrive at       *)

RuntimeSafe ==
  {"TELEMETRY_INTERVAL_MS", "SOFT_LIMITS_ENABLED", "SOFT_LIMIT_MIN_STEPS",
   "SOFT_LIMIT_MAX_STEPS", "DEFAULT_MAX_VELOCITY_SPS", "DEFAULT_MAX_ACCEL_SPS2",
   "DEFAULT_STOP_DECEL_SPS2", "DIRECTION_INVERTED", "HOST_TIMEOUT_MS",
   "VELOCITY_TIMEOUT_ACTION", "MAX_ALLOWED_CURRENT_MA", "MAX_ALLOWED_VELOCITY_SPS",
   "MAX_ALLOWED_ACCEL_SPS2"}

RequiresIdle == {"RUN_CURRENT_MA", "HOLD_CURRENT_MA", "MICROSTEPS", "DRIVER_MODE"}

Reserved == {"POSITION_OFFSET_STEPS", "HOME_POSITION_STEPS", "ENABLE_TIMEOUT_MS"}

(* config_field_mutability: neither reserved nor compile time only. *)
Stageable == RuntimeSafe \cup RequiresIdle

(* config_field_known *)
Known == Stageable \cup Reserved

(* Members no field names, as far as validate_config reads them. *)
MotorSpec ==
  {"version", "full_steps_per_rev", "gear_ratio_den", "units_per_rev", "max_current_ma"}

Members == DOMAIN Defaults

Flags == {"SOFT_LIMITS_ENABLED", "DIRECTION_INVERTED"}
Enumerations == {"DRIVER_MODE", "VELOCITY_TIMEOUT_ACTION"}
Unsigned16 == {"TELEMETRY_INTERVAL_MS", "RUN_CURRENT_MA", "HOLD_CURRENT_MA",
               "MAX_ALLOWED_CURRENT_MA"}
Positive == {"DEFAULT_MAX_VELOCITY_SPS", "DEFAULT_MAX_ACCEL_SPS2",
             "DEFAULT_STOP_DECEL_SPS2", "RUN_CURRENT_MA", "MICROSTEPS", "HOST_TIMEOUT_MS",
             "MAX_ALLOWED_CURRENT_MA", "MAX_ALLOWED_VELOCITY_SPS", "MAX_ALLOWED_ACCEL_SPS2"}

Unsigned32 == {"DEFAULT_MAX_VELOCITY_SPS", "DEFAULT_MAX_ACCEL_SPS2",
               "DEFAULT_STOP_DECEL_SPS2", "HOST_TIMEOUT_MS", "MAX_ALLOWED_VELOCITY_SPS",
               "MAX_ALLOWED_ACCEL_SPS2"}

Int32 == (0 - I32Max - 1)..I32Max

ASSUME FieldsAssumption ==
  /\ U16Max \in Nat /\ I32Max \in Nat /\ U16Max < I32Max
  /\ MaxMicrosteps \in Nat /\ Microsteps \subseteq 1..MaxMicrosteps
  /\ MaxMicrosteps < I32Max
  /\ Known \cup MotorSpec \subseteq Members
  /\ Inputs \in [Known -> SUBSET Int32]
  /\ Targets \subseteq [Members -> Int]

-----------------------------------------------------------------------------

(* validate_config, rule by rule *)
MotorValid(c) ==
  /\ c["version"] = Version
  /\ c["full_steps_per_rev"] # 0
  /\ c["gear_ratio_den"] # 0
  /\ c["units_per_rev"] # 0

CurrentsValid(c) ==
  /\ c["RUN_CURRENT_MA"] # 0
  /\ c["RUN_CURRENT_MA"] <= c["MAX_ALLOWED_CURRENT_MA"]
  /\ c["RUN_CURRENT_MA"] <= c["max_current_ma"]
  /\ c["HOLD_CURRENT_MA"] <= c["RUN_CURRENT_MA"]

VelocityValid(c) ==
  /\ c["DEFAULT_MAX_VELOCITY_SPS"] # 0
  /\ c["DEFAULT_MAX_VELOCITY_SPS"] <= c["MAX_ALLOWED_VELOCITY_SPS"]

AccelerationsValid(c) ==
  /\ c["DEFAULT_MAX_ACCEL_SPS2"] # 0
  /\ c["DEFAULT_MAX_ACCEL_SPS2"] <= c["MAX_ALLOWED_ACCEL_SPS2"]
  /\ c["DEFAULT_STOP_DECEL_SPS2"] # 0
  /\ c["DEFAULT_STOP_DECEL_SPS2"] <= c["MAX_ALLOWED_ACCEL_SPS2"]

SoftLimitsValid(c) ==
  c["SOFT_LIMITS_ENABLED"] # 0 => c["SOFT_LIMIT_MIN_STEPS"] <= c["SOFT_LIMIT_MAX_STEPS"]

Valid(c) ==
  /\ MotorValid(c)
  /\ CurrentsValid(c)
  /\ c["MICROSTEPS"] \in Microsteps
  /\ VelocityValid(c)
  /\ AccelerationsValid(c)
  /\ SoftLimitsValid(c)
  /\ c["HOST_TIMEOUT_MS"] \in MinTimeout..MaxTimeout

(* What the type of a member holds; the 32-bit ones as far as a field's     *)
(* int32_t reaches.  No edit touches the other members.                     *)
Representable(c) ==
  /\ \A f \in Stageable : c[f] \in Int32
  /\ \A f \in Flags \cup Enumerations : c[f] \in {0, 1}
  /\ \A f \in Unsigned16 : c[f] \in 0..U16Max
  /\ \A f \in Unsigned32 : c[f] >= 0
  /\ \A m \in Members \ Stageable : c[m] = Defaults[m]

(* HOST_TIMEOUT_MS is bounded away from zero. *)
ASSUME TimeoutAssumption == MinTimeout \in Nat \ {0} /\ MaxTimeout \in Nat

(* default_config() is a configuration. *)
ASSUME DefaultsAssumption ==
  /\ Defaults \in [Members -> Int]
  /\ Valid(Defaults)
  /\ Representable(Defaults)

(* A hold current that must be positive like the run current. *)
InRangePositive(f, v) ==
  /\ f \in Positive \cup {"HOLD_CURRENT_MA"} => v > 0
  /\ f \in Unsigned16 => v \in 0..U16Max
  /\ f = "MICROSTEPS" => v <= MaxMicrosteps
  /\ f \in Enumerations => v \in {0, 1}

(* The range stage_config_field checks before it converts a value. *)
InRange(f, v) ==
  /\ f \in Positive => v > 0
  /\ f \in Unsigned16 => v \in 0..U16Max
  /\ f = "MICROSTEPS" => v <= MaxMicrosteps
  /\ f \in Enumerations => v \in {0, 1}

(* What the conversion leaves in the member. *)
Stored(f, v) == IF f \in Flags /\ v # 0 THEN 1 ELSE v

(* Checked against the configuration before the edit. *)
AcceptsUnchecked(c, f, v) == f \in Stageable /\ InRange(f, v) /\ Valid(c)

(* stage_field with stage_config_field. *)
Accepts(c, f, v) ==
  f \in Stageable /\ InRange(f, v) /\ Valid([c EXCEPT ![f] = Stored(f, v)])

(* config_field_value: the value as an int32_t, into which a wider member   *)
(* wraps.                                                                   *)
FieldValue(c, f) == IF c[f] > I32Max THEN c[f] - 2 * (I32Max + 1) ELSE c[f]

-----------------------------------------------------------------------------

VARIABLE config   (* the copy being edited, staged_config_ *)

Init == config = Defaults

Stage(f, v) ==
  /\ Accepts(config, f, v)
  /\ config' = [config EXCEPT ![f] = Stored(f, v)]

(* A refused edit is forgotten. *)
Refuse(f, v) ==
  /\ ~Accepts(config, f, v)
  /\ UNCHANGED config

Next == \E f \in Known : \E v \in Inputs[f] : Stage(f, v) \/ Refuse(f, v)

Spec == Init /\ [][Next]_config

-----------------------------------------------------------------------------
(* Properties *)

(* Whatever is edited, in whatever order, the copy passes validate_config   *)
(* and each member stays in the range of its type: CONFIG_APPLY and         *)
(* CONFIG_SAVE never meet a configuration they would refuse.                *)
TypeOK ==
  /\ config \in [Members -> Int]
  /\ Valid(config)
  /\ Representable(config)

Wanted == {c \in Targets : Valid(c) /\ Representable(c)}

(* No edit leads into a dead end: between any two valid configurations      *)
(* there is an order of single edits that stage_field accepts one by one,   *)
(* with the values CONFIG_QUERY answered for the wanted one, so that what   *)
(* was read from a device field by field can be put back the same way.  The *)
(* rules tie fields together, and the wrong order is refused on the way.    *)
Restorable ==
  \A wanted \in Wanted :
    config # wanted =>
      \E f \in Stageable :
        /\ config[f] # wanted[f]
        /\ Accepts(config, f, FieldValue(wanted, f))
        /\ Stored(f, FieldValue(wanted, f)) = wanted[f]

=============================================================================
