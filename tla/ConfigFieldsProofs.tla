------------------------- MODULE ConfigFieldsProofs -------------------------
(***************************************************************************)
(* Proofs about ConfigFields and ConfigBlob, for every value of their      *)
(* constants: edits keep the copy valid and representable, there is always *)
(* a next edit on the way to any wanted configuration, and what is written *)
(* as bytes is read back.                                                  *)
(*                                                                         *)
(* The last in three parts: where the members lie (the sum of the widths,  *)
(* by least counterexample, so that no byte is of two members); that the   *)
(* bytes of a number add up to it (by quotients and remainders); and that  *)
(* every member holds a number of its type.                                *)
(***************************************************************************)
EXTENDS ConfigBlob, WellFoundedInduction, TLAPS

Sound(c) == c \in [Members -> Int] /\ Valid(c) /\ Representable(c)

(* One edit of field f on the way from c to w. *)
Helps(c, w, f) ==
  /\ c[f] # w[f]
  /\ Accepts(c, f, FieldValue(w, f))
  /\ Stored(f, FieldValue(w, f)) = w[f]

(* The two rules that compare with constants alone. *)
LEMMA SteppingAndTimeout ==
  ASSUME NEW w, Sound(w)
  PROVE  /\ w["MICROSTEPS"] \in 1..MaxMicrosteps
         /\ w["HOST_TIMEOUT_MS"] > 0
<1>1. w["MICROSTEPS"] \in Microsteps /\ w["HOST_TIMEOUT_MS"] \in MinTimeout..MaxTimeout
  BY DEF Sound, Valid
<1>2. Microsteps \subseteq 1..MaxMicrosteps
  BY FieldsAssumption DEF FieldsAssumption
<1>3. MinTimeout \in Nat \ {0} /\ MaxTimeout \in Nat
  BY TimeoutAssumption DEF TimeoutAssumption
<1>4. ASSUME NEW t \in MinTimeout..MaxTimeout PROVE t > 0
  BY <1>3
<1>5. w["HOST_TIMEOUT_MS"] > 0
  BY <1>1, <1>4
<1>6. w["MICROSTEPS"] \in 1..MaxMicrosteps
  BY <1>1, <1>2
<1> QED BY <1>5, <1>6

(* A value that a sound configuration holds passes the range check, and the *)
(* conversion leaves it as it is.                                           *)
LEMMA HeldInRange ==
  ASSUME NEW w, Sound(w), NEW f \in Stageable
  PROVE  /\ InRange(f, w[f])
         /\ Stored(f, w[f]) = w[f]
         /\ f \in Members
<1>1. /\ w[f] \in Int
      /\ f \in Members
  BY FieldsAssumption DEF FieldsAssumption, Sound, Representable, Known, Int32
<1>2. ASSUME f \in Positive PROVE w[f] > 0
  <2>1. \A g \in Unsigned16 \cup Unsigned32 : w[g] \in Int /\ w[g] >= 0
    <3>1. Unsigned16 \cup Unsigned32 \subseteq Stageable
      BY DEF Unsigned16, Unsigned32, Stageable, RuntimeSafe, RequiresIdle
    <3> QED BY <3>1, FieldsAssumption DEF FieldsAssumption, Sound, Representable, Known
  <2>2. /\ w["RUN_CURRENT_MA"] # 0
        /\ w["RUN_CURRENT_MA"] <= w["MAX_ALLOWED_CURRENT_MA"]
        /\ w["DEFAULT_MAX_VELOCITY_SPS"] # 0
        /\ w["DEFAULT_MAX_VELOCITY_SPS"] <= w["MAX_ALLOWED_VELOCITY_SPS"]
        /\ w["DEFAULT_MAX_ACCEL_SPS2"] # 0
        /\ w["DEFAULT_MAX_ACCEL_SPS2"] <= w["MAX_ALLOWED_ACCEL_SPS2"]
        /\ w["DEFAULT_STOP_DECEL_SPS2"] # 0
    BY DEF Sound, Valid, CurrentsValid, VelocityValid, AccelerationsValid
  <2>3. w["MICROSTEPS"] > 0 /\ w["HOST_TIMEOUT_MS"] > 0
    BY SteppingAndTimeout, FieldsAssumption DEF FieldsAssumption
  <2> QED BY <1>2, <2>1, <2>2, <2>3 DEF Positive, Unsigned16, Unsigned32
<1>3. f = "MICROSTEPS" => w[f] <= MaxMicrosteps
  BY SteppingAndTimeout, FieldsAssumption DEF FieldsAssumption
<1>4. /\ f \in Unsigned16 => w[f] \in 0..U16Max
      /\ f \in Flags \cup Enumerations => w[f] \in {0, 1}
  BY DEF Sound, Representable
<1> QED BY <1>1, <1>2, <1>3, <1>4 DEF InRange, Stored

Edit(c, w, f) == [c EXCEPT ![f] = w[f]]

CurrentFields == {"RUN_CURRENT_MA", "HOLD_CURRENT_MA", "MAX_ALLOWED_CURRENT_MA"}
VelocityFields == {"DEFAULT_MAX_VELOCITY_SPS", "MAX_ALLOWED_VELOCITY_SPS"}
AccelerationFields ==
  {"DEFAULT_MAX_ACCEL_SPS2", "DEFAULT_STOP_DECEL_SPS2", "MAX_ALLOWED_ACCEL_SPS2"}
LimitFields == {"SOFT_LIMITS_ENABLED", "SOFT_LIMIT_MIN_STEPS", "SOFT_LIMIT_MAX_STEPS"}

Ruled == CurrentFields \cup VelocityFields \cup AccelerationFields \cup LimitFields

(* The members the rules speak of are members. *)
LEMMA RuleMembers ==
  Ruled \cup MotorSpec \cup {"MICROSTEPS", "HOST_TIMEOUT_MS"} \subseteq Members
BY FieldsAssumption
   DEF FieldsAssumption, Known, Stageable, RuntimeSafe, RequiresIdle, Ruled,
       CurrentFields, VelocityFields, AccelerationFields, LimitFields

(* An edit changes its member and no other. *)
LEMMA EditEffect ==
  ASSUME NEW c, Sound(c), NEW w, Sound(w), NEW f \in Stageable
  PROVE  /\ Edit(c, w, f)[f] = w[f]
         /\ \A m \in Members \ {f} : Edit(c, w, f)[m] = c[m]
<1>1. c \in [Members -> Int] /\ f \in Members
  BY HeldInRange DEF Sound
<1> QED BY <1>1 DEF Edit

(* An edit leaves a rule alone that does not read the field. *)
LEMMA OtherRules ==
  ASSUME NEW c, Sound(c), NEW w, Sound(w), NEW f \in Stageable
  PROVE  /\ MotorValid(Edit(c, w, f))
         /\ f \notin CurrentFields => CurrentsValid(Edit(c, w, f))
         /\ f \notin VelocityFields => VelocityValid(Edit(c, w, f))
         /\ f \notin AccelerationFields => AccelerationsValid(Edit(c, w, f))
         /\ f \notin LimitFields => SoftLimitsValid(Edit(c, w, f))
<1> DEFINE d == Edit(c, w, f)
<1>1. \A m \in Members \ {f} : d[m] = c[m]
  BY EditEffect
<1> HIDE DEF d
<1>2. /\ MotorValid(c) /\ CurrentsValid(c) /\ VelocityValid(c)
      /\ AccelerationsValid(c) /\ SoftLimitsValid(c)
  BY DEF Sound, Valid
<1>3. MotorValid(d)
  <2>1. f \notin MotorSpec
    BY DEF Stageable, RuntimeSafe, RequiresIdle, MotorSpec
  <2> QED BY <1>1, <1>2, <2>1, RuleMembers DEF MotorSpec, MotorValid
<1>4. f \notin CurrentFields => CurrentsValid(d)
  <2>1. f # "max_current_ma" /\ "max_current_ma" \in Members
    BY RuleMembers DEF Stageable, RuntimeSafe, RequiresIdle, MotorSpec
  <2> QED BY <1>1, <1>2, <2>1, RuleMembers DEF Ruled, CurrentFields, CurrentsValid
<1>5. f \notin VelocityFields => VelocityValid(d)
  BY <1>1, <1>2, RuleMembers DEF Ruled, VelocityFields, VelocityValid
<1>6. f \notin AccelerationFields => AccelerationsValid(d)
  BY <1>1, <1>2, RuleMembers DEF Ruled, AccelerationFields, AccelerationsValid
<1>7. f \notin LimitFields => SoftLimitsValid(d)
  BY <1>1, <1>2, RuleMembers DEF Ruled, LimitFields, SoftLimitsValid
<1> QED BY <1>3, <1>4, <1>5, <1>6, <1>7 DEF d

(* An edit is accepted as soon as the rules that read the field allow it. *)
LEMMA RuledEdit ==
  ASSUME NEW c, Sound(c), NEW w, Sound(w), NEW f \in Stageable, c[f] # w[f],
         CurrentsValid(Edit(c, w, f)), VelocityValid(Edit(c, w, f)),
         AccelerationsValid(Edit(c, w, f)), SoftLimitsValid(Edit(c, w, f))
  PROVE  Helps(c, w, f)
<1> DEFINE d == Edit(c, w, f)
<1>1. d["MICROSTEPS"] \in Microsteps /\ d["HOST_TIMEOUT_MS"] \in MinTimeout..MaxTimeout
  <2>1. d[f] = w[f] /\ \A m \in Members \ {f} : d[m] = c[m]
    BY EditEffect
  <2>2. \A m \in {"MICROSTEPS", "HOST_TIMEOUT_MS"} : d[m] \in {c[m], w[m]}
    BY <2>1, RuleMembers
  <2> QED BY <2>2 DEF Sound, Valid
<1>2. Valid(d)
  BY <1>1, OtherRules DEF Valid
<1>3. FieldValue(w, f) = w[f]
  BY FieldsAssumption DEF FieldValue, Sound, Representable, Int32
<1> QED BY <1>2, <1>3, HeldInRange DEF Helps, Accepts, Edit

(* No rule reads the other fields. *)
LEMMA FreeEdit ==
  ASSUME NEW c, Sound(c), NEW w, Sound(w), NEW f \in Stageable \ Ruled, c[f] # w[f]
  PROVE  Helps(c, w, f)
BY OtherRules, RuledEdit DEF Ruled

(* What the members of a sound configuration are to the arithmetic. *)
LEMMA Numbers ==
  ASSUME NEW w, Sound(w)
  PROVE  /\ \A f \in Ruled : w[f] \in Int
         /\ \A f \in Ruled : f \in Stageable
         /\ w["max_current_ma"] = Defaults["max_current_ma"]
         /\ w["max_current_ma"] \in Int
         /\ CurrentsValid(w) /\ VelocityValid(w) /\ AccelerationsValid(w)
         /\ SoftLimitsValid(w)
<1>1. \A f \in Ruled : f \in Stageable
  BY DEF Stageable, RuntimeSafe, RequiresIdle, Ruled,
         CurrentFields, VelocityFields, AccelerationFields, LimitFields
<1>2. "max_current_ma" \in Members \ Stageable
  BY RuleMembers DEF MotorSpec, Stageable, RuntimeSafe, RequiresIdle
<1>3. \A f \in Ruled : w[f] \in Int
  BY RuleMembers DEF Sound
<1>4. w["max_current_ma"] = Defaults["max_current_ma"] /\ w["max_current_ma"] \in Int
  BY <1>2 DEF Sound, Representable
<1> QED BY <1>1, <1>3, <1>4 DEF Sound, Valid

(* The ceiling first when it rises, last when it falls. *)
LEMMA VelocityEdit ==
  ASSUME NEW c, Sound(c), NEW w, Sound(w), NEW g \in VelocityFields, c[g] # w[g]
  PROVE  \E f \in VelocityFields : Helps(c, w, f)
<1> DEFINE default == "DEFAULT_MAX_VELOCITY_SPS"
           ceiling == "MAX_ALLOWED_VELOCITY_SPS"
<1>1. ASSUME NEW f \in VelocityFields, c[f] # w[f], VelocityValid(Edit(c, w, f))
      PROVE  Helps(c, w, f)
  <2>1. f \in Stageable /\ f \notin CurrentFields
        /\ f \notin AccelerationFields /\ f \notin LimitFields
    BY Numbers DEF Ruled, VelocityFields, CurrentFields, AccelerationFields, LimitFields
  <2> QED BY <1>1, <2>1, OtherRules, RuledEdit
<1>2. /\ c[default] \in Int /\ c[ceiling] \in Int
      /\ w[default] \in Int /\ w[ceiling] \in Int
      /\ c[default] # 0 /\ c[default] <= c[ceiling]
      /\ w[default] # 0 /\ w[default] <= w[ceiling]
  BY Numbers DEF Ruled, VelocityFields, VelocityValid
<1>3. ASSUME NEW f \in VelocityFields
      PROVE  /\ Edit(c, w, f)[f] = w[f]
             /\ \A m \in VelocityFields \ {f} : Edit(c, w, f)[m] = c[m]
  BY EditEffect, Numbers, RuleMembers DEF Ruled
<1>4. CASE c[ceiling] # w[ceiling] /\ (c[ceiling] < w[ceiling] \/ c[default] = w[default])
  <2>1. /\ Edit(c, w, ceiling)[ceiling] = w[ceiling]
        /\ Edit(c, w, ceiling)[default] = c[default]
    BY <1>3 DEF VelocityFields
  <2>2. VelocityValid(Edit(c, w, ceiling))
    BY <1>2, <1>4, <2>1 DEF VelocityValid
  <2> QED BY <1>1, <1>4, <2>2 DEF VelocityFields
<1>5. CASE c[default] # w[default] /\ c[ceiling] >= w[ceiling]
  <2>1. /\ Edit(c, w, default)[default] = w[default]
        /\ Edit(c, w, default)[ceiling] = c[ceiling]
    BY <1>3 DEF VelocityFields
  <2>2. VelocityValid(Edit(c, w, default))
    BY <1>2, <1>5, <2>1 DEF VelocityValid
  <2> QED BY <1>1, <1>5, <2>2 DEF VelocityFields
<1> QED BY <1>2, <1>4, <1>5 DEF VelocityFields

(* Both accelerations are under one ceiling. *)
LEMMA AccelerationEdit ==
  ASSUME NEW c, Sound(c), NEW w, Sound(w), NEW g \in AccelerationFields, c[g] # w[g]
  PROVE  \E f \in AccelerationFields : Helps(c, w, f)
<1> DEFINE accel == "DEFAULT_MAX_ACCEL_SPS2"
           decel == "DEFAULT_STOP_DECEL_SPS2"
           ceiling == "MAX_ALLOWED_ACCEL_SPS2"
<1>1. ASSUME NEW f \in AccelerationFields, c[f] # w[f], AccelerationsValid(Edit(c, w, f))
      PROVE  Helps(c, w, f)
  <2>1. f \in Stageable /\ f \notin CurrentFields
        /\ f \notin VelocityFields /\ f \notin LimitFields
    BY Numbers DEF Ruled, VelocityFields, CurrentFields, AccelerationFields, LimitFields
  <2> QED BY <1>1, <2>1, OtherRules, RuledEdit
<1>2. /\ c[accel] \in Int /\ c[decel] \in Int /\ c[ceiling] \in Int
      /\ w[accel] \in Int /\ w[decel] \in Int /\ w[ceiling] \in Int
      /\ c[accel] # 0 /\ c[accel] <= c[ceiling] /\ c[decel] # 0 /\ c[decel] <= c[ceiling]
      /\ w[accel] # 0 /\ w[accel] <= w[ceiling] /\ w[decel] # 0 /\ w[decel] <= w[ceiling]
  BY Numbers DEF Ruled, AccelerationFields, AccelerationsValid
<1>3. ASSUME NEW f \in AccelerationFields
      PROVE  /\ Edit(c, w, f)[f] = w[f]
             /\ \A m \in AccelerationFields \ {f} : Edit(c, w, f)[m] = c[m]
  BY EditEffect, Numbers, RuleMembers DEF Ruled
<1>4. CASE /\ c[ceiling] # w[ceiling]
           /\ \/ c[ceiling] < w[ceiling]
              \/ c[accel] = w[accel] /\ c[decel] = w[decel]
  <2>1. /\ Edit(c, w, ceiling)[ceiling] = w[ceiling]
        /\ Edit(c, w, ceiling)[accel] = c[accel]
        /\ Edit(c, w, ceiling)[decel] = c[decel]
    BY <1>3 DEF AccelerationFields
  <2>2. AccelerationsValid(Edit(c, w, ceiling))
    BY <1>2, <1>4, <2>1 DEF AccelerationsValid
  <2> QED BY <1>1, <1>4, <2>2 DEF AccelerationFields
<1>5. CASE c[accel] # w[accel] /\ c[ceiling] >= w[ceiling]
  <2>1. /\ Edit(c, w, accel)[accel] = w[accel]
        /\ Edit(c, w, accel)[decel] = c[decel]
        /\ Edit(c, w, accel)[ceiling] = c[ceiling]
    BY <1>3 DEF AccelerationFields
  <2>2. AccelerationsValid(Edit(c, w, accel))
    BY <1>2, <1>5, <2>1 DEF AccelerationsValid
  <2> QED BY <1>1, <1>5, <2>2 DEF AccelerationFields
<1>6. CASE c[decel] # w[decel] /\ c[ceiling] >= w[ceiling]
  <2>1. /\ Edit(c, w, decel)[decel] = w[decel]
        /\ Edit(c, w, decel)[accel] = c[accel]
        /\ Edit(c, w, decel)[ceiling] = c[ceiling]
    BY <1>3 DEF AccelerationFields
  <2>2. AccelerationsValid(Edit(c, w, decel))
    BY <1>2, <1>6, <2>1 DEF AccelerationsValid
  <2> QED BY <1>1, <1>6, <2>2 DEF AccelerationFields
<1> QED BY <1>2, <1>4, <1>5, <1>6 DEF AccelerationFields

(* The run current sits between the hold current and the ceiling. *)
LEMMA CurrentEdit ==
  ASSUME NEW c, Sound(c), NEW w, Sound(w), NEW g \in CurrentFields, c[g] # w[g]
  PROVE  \E f \in CurrentFields : Helps(c, w, f)
<1> DEFINE run == "RUN_CURRENT_MA"
           hold == "HOLD_CURRENT_MA"
           ceiling == "MAX_ALLOWED_CURRENT_MA"
           motor == "max_current_ma"
<1>1. ASSUME NEW f \in CurrentFields, c[f] # w[f], CurrentsValid(Edit(c, w, f))
      PROVE  Helps(c, w, f)
  <2>1. f \in Stageable /\ f \notin AccelerationFields
        /\ f \notin VelocityFields /\ f \notin LimitFields
    BY Numbers DEF Ruled, VelocityFields, CurrentFields, AccelerationFields, LimitFields
  <2> QED BY <1>1, <2>1, OtherRules, RuledEdit
<1>2. /\ c[run] \in Int /\ c[hold] \in Int /\ c[ceiling] \in Int /\ c[motor] \in Int
      /\ w[run] \in Int /\ w[hold] \in Int /\ w[ceiling] \in Int
      /\ c[motor] = w[motor]
      /\ c[run] # 0 /\ c[run] <= c[ceiling] /\ c[run] <= c[motor] /\ c[hold] <= c[run]
      /\ w[run] # 0 /\ w[run] <= w[ceiling] /\ w[run] <= w[motor] /\ w[hold] <= w[run]
  BY Numbers DEF Ruled, CurrentFields, CurrentsValid
<1>3. ASSUME NEW f \in CurrentFields
      PROVE  /\ Edit(c, w, f)[f] = w[f]
             /\ \A m \in (CurrentFields \cup {motor}) \ {f} : Edit(c, w, f)[m] = c[m]
  BY EditEffect, Numbers, RuleMembers DEF Ruled, MotorSpec
<1>4. CASE c[ceiling] # w[ceiling] /\ (c[ceiling] < w[ceiling] \/ c[run] = w[run])
  <2>1. /\ Edit(c, w, ceiling)[ceiling] = w[ceiling]
        /\ \A m \in {run, hold, motor} : Edit(c, w, ceiling)[m] = c[m]
    BY <1>3 DEF CurrentFields
  <2>2. CurrentsValid(Edit(c, w, ceiling))
    BY <1>2, <1>4, <2>1 DEF CurrentsValid
  <2> QED BY <1>1, <1>4, <2>2 DEF CurrentFields
<1>5. CASE /\ c[run] # w[run] /\ c[ceiling] >= w[ceiling]
           /\ c[run] < w[run] \/ c[hold] = w[hold]
  <2>1. /\ Edit(c, w, run)[run] = w[run]
        /\ \A m \in {ceiling, hold, motor} : Edit(c, w, run)[m] = c[m]
    BY <1>3 DEF CurrentFields
  <2>2. CurrentsValid(Edit(c, w, run))
    BY <1>2, <1>5, <2>1 DEF CurrentsValid
  <2> QED BY <1>1, <1>5, <2>2 DEF CurrentFields
<1>6. CASE c[hold] # w[hold] /\ c[run] >= w[run]
  <2>1. /\ Edit(c, w, hold)[hold] = w[hold]
        /\ \A m \in {ceiling, run, motor} : Edit(c, w, hold)[m] = c[m]
    BY <1>3 DEF CurrentFields
  <2>2. CurrentsValid(Edit(c, w, hold))
    BY <1>2, <1>6, <2>1 DEF CurrentsValid
  <2> QED BY <1>1, <1>6, <2>2 DEF CurrentFields
<1> QED BY <1>2, <1>4, <1>5, <1>6 DEF CurrentFields

(* Off first, on last; between the bounds the one that widens goes first. *)
LEMMA LimitEdit ==
  ASSUME NEW c, Sound(c), NEW w, Sound(w), NEW g \in LimitFields, c[g] # w[g]
  PROVE  \E f \in LimitFields : Helps(c, w, f)
<1> DEFINE on == "SOFT_LIMITS_ENABLED"
           low == "SOFT_LIMIT_MIN_STEPS"
           high == "SOFT_LIMIT_MAX_STEPS"
<1>1. ASSUME NEW f \in LimitFields, c[f] # w[f], SoftLimitsValid(Edit(c, w, f))
      PROVE  Helps(c, w, f)
  <2>1. f \in Stageable /\ f \notin AccelerationFields
        /\ f \notin VelocityFields /\ f \notin CurrentFields
    BY Numbers DEF Ruled, VelocityFields, CurrentFields, AccelerationFields, LimitFields
  <2> QED BY <1>1, <2>1, OtherRules, RuledEdit
<1>2. /\ c[low] \in Int /\ c[high] \in Int /\ w[low] \in Int /\ w[high] \in Int
      /\ c[on] # 0 => c[low] <= c[high]
      /\ w[on] # 0 => w[low] <= w[high]
  BY Numbers DEF Ruled, LimitFields, SoftLimitsValid
<1>3. ASSUME NEW f \in LimitFields
      PROVE  /\ Edit(c, w, f)[f] = w[f]
             /\ \A m \in LimitFields \ {f} : Edit(c, w, f)[m] = c[m]
  BY EditEffect, Numbers, RuleMembers DEF Ruled
<1>4. CASE c[on] # w[on] /\ (w[on] = 0 \/ (c[low] = w[low] /\ c[high] = w[high]))
  <2>1. /\ Edit(c, w, on)[on] = w[on]
        /\ Edit(c, w, on)[low] = c[low] /\ Edit(c, w, on)[high] = c[high]
    BY <1>3 DEF LimitFields
  <2>2. SoftLimitsValid(Edit(c, w, on))
    BY <1>2, <1>4, <2>1 DEF SoftLimitsValid
  <2> QED BY <1>1, <1>4, <2>2 DEF LimitFields
<1>5. CASE /\ c[high] # w[high]
           /\ c[on] = 0 \/ (w[on] # 0 /\ (c[high] < w[high] \/ c[low] = w[low]))
  <2>1. /\ Edit(c, w, high)[high] = w[high]
        /\ Edit(c, w, high)[low] = c[low] /\ Edit(c, w, high)[on] = c[on]
    BY <1>3 DEF LimitFields
  <2>2. SoftLimitsValid(Edit(c, w, high))
    BY <1>2, <1>5, <2>1 DEF SoftLimitsValid
  <2> QED BY <1>1, <1>5, <2>2 DEF LimitFields
<1>6. CASE c[low] # w[low] /\ (c[on] = 0 \/ (w[on] # 0 /\ c[high] >= w[high]))
  <2>1. /\ Edit(c, w, low)[low] = w[low]
        /\ Edit(c, w, low)[high] = c[high] /\ Edit(c, w, low)[on] = c[on]
    BY <1>3 DEF LimitFields
  <2>2. SoftLimitsValid(Edit(c, w, low))
    BY <1>2, <1>6, <2>1 DEF SoftLimitsValid
  <2> QED BY <1>1, <1>6, <2>2 DEF LimitFields
<1> QED BY <1>2, <1>4, <1>5, <1>6 DEF LimitFields

-----------------------------------------------------------------------------

(* Every edit that stage_field accepts, with a value a host may send, keeps *)
(* the copy valid and within the types of its members.                      *)
THEOREM TypeCorrect == Spec => []TypeOK
<1>1. Init => TypeOK
  BY DefaultsAssumption DEF DefaultsAssumption, Init, TypeOK
<1>2. TypeOK /\ [Next]_config => TypeOK'
  <2> SUFFICES ASSUME TypeOK, [Next]_config PROVE TypeOK'
    OBVIOUS
  <2>1. CASE UNCHANGED config
    BY <2>1 DEF TypeOK
  <2>2. ASSUME NEW f \in Known, NEW v \in Inputs[f], Refuse(f, v) PROVE TypeOK'
    BY <2>2 DEF Refuse, TypeOK
  <2>3. ASSUME NEW f \in Known, NEW v \in Inputs[f], Stage(f, v) PROVE TypeOK'
    <3>1. /\ f \in Stageable /\ InRange(f, v)
          /\ Valid(config')
          /\ config' = [config EXCEPT ![f] = Stored(f, v)]
      BY <2>3 DEF Stage, Accepts
    <3>2. v \in Int32 /\ f \in Members
      BY FieldsAssumption DEF FieldsAssumption
    <3>3. Stored(f, v) \in Int32 /\ (f \in Flags => Stored(f, v) \in {0, 1})
      <4>1. CASE f \in Flags
        <5>1. 0 \in Int32 /\ 1 \in Int32
          BY FieldsAssumption DEF FieldsAssumption, Int32
        <5> QED BY <3>2, <4>1, <5>1 DEF Stored
      <4>2. CASE f \notin Flags
        BY <3>2, <4>2 DEF Stored
      <4> QED BY <4>1, <4>2
    <3>4. /\ config'[f] = Stored(f, v)
          /\ \A m \in Members \ {f} : config'[m] = config[m]
      BY <3>1, <3>2 DEF TypeOK
    <3>5. config' \in [Members -> Int]
      <4>1. Int32 \subseteq Int
        BY FieldsAssumption DEF FieldsAssumption, Int32
      <4> QED BY <3>1, <3>3, <4>1 DEF TypeOK
    <3>6. /\ Stageable \subseteq Members
          /\ Flags \cup Enumerations \cup Unsigned16 \cup Unsigned32 \subseteq Stageable
          /\ Unsigned32 \subseteq Positive
          /\ (Flags \cap (Enumerations \cup Unsigned16 \cup Unsigned32)) = {}
      BY FieldsAssumption DEF FieldsAssumption, Known, Stageable, RuntimeSafe, RequiresIdle,
         Flags, Enumerations, Unsigned16, Unsigned32, Positive
    <3>7. Representable(config')
      <4>1. \A m \in Members \ Stageable : config'[m] = Defaults[m]
        BY <3>1, <3>4 DEF TypeOK, Representable
      <4>2. \A g \in Stageable : config'[g] \in Int32
        BY <3>3, <3>4, <3>6 DEF TypeOK, Representable
      <4>3. \A g \in Flags \cup Enumerations : config'[g] \in {0, 1}
        <5> SUFFICES ASSUME NEW g \in Flags \cup Enumerations PROVE config'[g] \in {0, 1}
          OBVIOUS
        <5>1. CASE g # f
          BY <3>4, <3>6, <5>1 DEF TypeOK, Representable
        <5>2. CASE g = f
          BY <3>1, <3>3, <3>4, <3>6, <5>2 DEF InRange, Stored
        <5> QED BY <5>1, <5>2
      <4>4. \A g \in Unsigned16 : config'[g] \in 0..U16Max
        <5> SUFFICES ASSUME NEW g \in Unsigned16 PROVE config'[g] \in 0..U16Max
          OBVIOUS
        <5>1. CASE g # f
          BY <3>4, <3>6, <5>1 DEF TypeOK, Representable
        <5>2. CASE g = f
          BY <3>1, <3>4, <3>6, <5>2 DEF InRange, Stored
        <5> QED BY <5>1, <5>2
      <4>5. \A g \in Unsigned32 : config'[g] >= 0
        <5> SUFFICES ASSUME NEW g \in Unsigned32 PROVE config'[g] >= 0
          OBVIOUS
        <5>1. CASE g # f
          BY <3>4, <3>6, <5>1 DEF TypeOK, Representable
        <5>2. CASE g = f
          <6>1. v > 0 /\ config'[g] = v
            BY <3>1, <3>4, <3>6, <5>2 DEF InRange, Stored
          <6> QED BY <6>1, <3>2 DEF Int32
        <5> QED BY <5>1, <5>2
      <4> QED BY <4>1, <4>2, <4>3, <4>4, <4>5 DEF Representable
    <3> QED BY <3>1, <3>5, <3>7 DEF TypeOK
  <2> QED BY <2>1, <2>2, <2>3 DEF Next
<1> QED BY <1>1, <1>2, PTL DEF Spec

(* Between two sound configurations that differ there is an accepted edit   *)
(* that brings one member closer.                                           *)
LEMMA NextEdit ==
  ASSUME NEW c, Sound(c), NEW w, Sound(w), c # w
  PROVE  \E f \in Stageable : Helps(c, w, f)
<1>1. PICK g \in Stageable : c[g] # w[g]
  <2>1. c \in [Members -> Int] /\ w \in [Members -> Int]
    BY DEF Sound
  <2>2. \A m \in Members \ Stageable : c[m] = w[m]
    BY DEF Sound, Representable
  <2>3. \E m \in Members : c[m] # w[m]
    BY <2>1
  <2> QED BY <2>2, <2>3
<1>2. \A f \in Ruled : f \in Stageable
  BY Numbers
<1>3. CASE g \in Ruled
  BY <1>1, <1>2, <1>3, CurrentEdit, VelocityEdit, AccelerationEdit, LimitEdit DEF Ruled
<1>4. CASE g \notin Ruled
  BY <1>1, <1>4, FreeEdit
<1> QED BY <1>3, <1>4

(* However the rules tie the fields together, no sequence of accepted edits *)
(* leaves a host where it cannot get to a configuration it wants.           *)
THEOREM AlwaysRestorable == Spec => []Restorable
<1>1. TypeOK => Restorable
  <2> SUFFICES ASSUME TypeOK, NEW wanted \in Wanted, config # wanted
               PROVE  \E f \in Stageable : Helps(config, wanted, f)
    BY DEF Restorable, Helps
  <2>1. Sound(config)
    BY DEF TypeOK, Sound
  <2>2. Sound(wanted)
    BY FieldsAssumption DEF FieldsAssumption, Wanted, Sound
  <2> QED BY <2>1, <2>2, NextEdit
<1> QED BY <1>1, TypeCorrect, PTL

-----------------------------------------------------------------------------
(* Where the members lie *)

(* The types of the members. *)
Types == {"u8", "bool", "u16", "i16", "u32", "i32"}

(* Both functions take forty-two members. *)
LEMMA LayoutTypes ==
  /\ DOMAIN Layout = 1..42 /\ Len(Layout) = 42
  /\ \A i \in 1..42 : Layout[i][2] \in Types
BY DEF Layout, Types

(* The members a host can edit have the type their rules speak of. *)
LEMMA LayoutKinds ==
  ASSUME NEW i \in 1..42
  PROVE  /\ Layout[i][1] \in Flags => Layout[i][2] = "bool"
         /\ Layout[i][1] \in Enumerations => Layout[i][2] = "u8"
         /\ Layout[i][1] \in Unsigned16 \cup {"MICROSTEPS"} => Layout[i][2] = "u16"
         /\ Layout[i][1] \in Unsigned32 => Layout[i][2] = "u32"
         /\ Layout[i][1] \in {"SOFT_LIMIT_MIN_STEPS", "SOFT_LIMIT_MAX_STEPS"} => Layout[i][2] = "i32"
BY SMTT(60) DEF Layout, Flags, Enumerations, Unsigned16, Unsigned32

(* Among places there is a first one. *)
LEMMA FirstPlace ==
  ASSUME NEW T, T \subseteq Nat, T # {}
  PROVE  \E x \in T : \A y \in T : ~(y < x)
<1> DEFINE less == OpToRel(<, Nat)
<1>1. PICK x \in T : \A y \in T : ~(<<y, x>> \in less)
  <2> HIDE DEF less
  <2>1. IsWellFoundedOn(less, Nat)
    BY NatLessThanWellFounded DEF less
  <2> QED BY <2>1, WFMin, Zenon
<1> QED BY <1>1 DEF OpToRel

LEMMA Widths ==
  ASSUME NEW i \in 1..42
  PROVE  /\ Width(Layout[i][2]) \in {1, 2, 4}
         /\ Width(Layout[i][2]) \in Nat /\ Width(Layout[i][2]) > 0
BY LayoutTypes DEF Width

(* The widths of the first n members, added up. *)
Summed(f, n) == f = [k \in 0..n |-> IF k = 0 THEN 0 ELSE f[k - 1] + Width(Layout[k][2])]

(* There is such a sum: at the first place without one, the sum before it   *)
(* and one width more would do.                                             *)
LEMMA SumExists ==
  ASSUME NEW N \in Nat
  PROVE  \E f : Summed(f, N)
<1> DEFINE Bad == {n \in 0..N : ~ \E f : Summed(f, n)}
<1>1. Bad = {}
  <2>1. SUFFICES ASSUME Bad # {} PROVE FALSE
    OBVIOUS
  <2>2. PICK n \in Bad : \A k \in Bad : ~(k < n)
    <3>1. Bad \subseteq Nat
      OBVIOUS
    <3> HIDE DEF Bad
    <3> QED BY <2>1, <3>1, FirstPlace
  <2>3. n # 0
    <3> DEFINE e == [k \in 0..0 |-> 0]
    <3>1. Summed(e, 0)
      BY DEF Summed
    <3> QED BY <3>1
  <2>4. n \in 1..N /\ n - 1 \notin Bad
    <3>1. n \in 0..N
      OBVIOUS
    <3>2. n \in 1..N /\ n - 1 < n
      BY <2>3, <3>1
    <3> HIDE DEF Bad
    <3> QED BY <2>2, <3>2
  <2>5. PICK f : Summed(f, n - 1)
    BY <2>4
  <2> DEFINE g == [k \in 0..n |-> IF k = n THEN f[n - 1] + Width(Layout[n][2]) ELSE f[k]]
  <2>6. \A k \in 0..n : g[k] = IF k = 0 THEN 0 ELSE g[k - 1] + Width(Layout[k][2])
    <3> TAKE k \in 0..n
    <3>1. CASE k = 0
      BY <2>4, <2>5, <3>1 DEF Summed
    <3>2. CASE k = n
      BY <2>4, <3>2
    <3>3. CASE k # 0 /\ k # n
      <4>1. k \in 0..n - 1 /\ k - 1 \in 0..n /\ k - 1 # n
        BY <2>4, <3>3
      <4>2. f[k] = f[k - 1] + Width(Layout[k][2])
        BY <2>5, <3>3, <4>1 DEF Summed
      <4> QED BY <3>3, <4>1, <4>2
    <3> QED BY <3>1, <3>2, <3>3
  <2>7. Summed(g, n)
    BY <2>6 DEF Summed
  <2>8. n \notin Bad
    <3> HIDE DEF g
    <3> QED BY <2>7
  <2> QED BY <2>2, <2>8
<1> QED BY <1>1

(* The recursion of Offset comes to an end. *)
LEMMA OffsetSteps ==
  /\ Offset[0] = 0
  /\ \A n \in 1..42 : Offset[n] = Offset[n - 1] + Width(Layout[n][2])
<1> PICK N \in Nat : N = 42
  OBVIOUS
<1>1. Len(Layout) = N
  BY LayoutTypes
<1> DEFINE after == CHOOSE f : Summed(f, N)
<1>2. Summed(after, N)
  BY SumExists
<1>3. Offset = [n \in 0..N |-> after[n]]
  BY <1>1 DEF Offset, Summed
<1> HIDE DEF after
<1>4. Offset[0] = 0
  BY <1>2, <1>3 DEF Summed
<1>5. ASSUME NEW n \in 1..N
      PROVE  Offset[n] = Offset[n - 1] + Width(Layout[n][2])
  <2>1. n \in 0..N /\ n - 1 \in 0..N /\ n # 0
    OBVIOUS
  <2> QED BY <1>2, <1>3, <2>1 DEF Summed
<1> QED BY <1>4, <1>5

LEMMA OffsetsCount == \A n \in 0..42 : Offset[n] \in Nat
<1> PICK N \in Nat : N = 42
  OBVIOUS
<1> DEFINE Bad == {n \in 0..N : Offset[n] \notin Nat}
<1>1. SUFFICES ASSUME Bad # {} PROVE FALSE
  OBVIOUS
<1>2. PICK n \in Bad : \A k \in Bad : ~(k < n)
  <2>1. Bad \subseteq Nat
    OBVIOUS
  <2> HIDE DEF Bad
  <2> QED BY <1>1, <2>1, FirstPlace
<1>3. n # 0
  BY OffsetSteps
<1>4. n \in 1..N /\ n - 1 \in 0..N /\ n - 1 < n
  BY <1>3
<1>5. Offset[n - 1] \in Nat
  BY <1>2, <1>4
<1>6. Offset[n] = Offset[n - 1] + Width(Layout[n][2]) /\ Width(Layout[n][2]) \in Nat
  BY <1>4, OffsetSteps, Widths
<1> QED BY <1>5, <1>6

LEMMA OffsetsGrow ==
  ASSUME NEW i \in 0..42, NEW j \in 0..42, i <= j
  PROVE  Offset[i] <= Offset[j]
<1> PICK N \in Nat : N = 42
  OBVIOUS
<1> DEFINE Bad == {n \in i..N : ~(Offset[i] <= Offset[n])}
<1>1. SUFFICES ASSUME Bad # {} PROVE FALSE
  OBVIOUS
<1>2. PICK n \in Bad : \A k \in Bad : ~(k < n)
  <2>1. Bad \subseteq Nat
    OBVIOUS
  <2> HIDE DEF Bad
  <2> QED BY <1>1, <2>1, FirstPlace
<1>3. n # i
  BY OffsetsCount
<1>4. n \in 1..N /\ n - 1 \in i..N /\ n - 1 \in 0..N /\ n - 1 < n
  BY <1>3
<1>5. Offset[i] <= Offset[n - 1]
  BY <1>2, <1>4
<1>6. /\ Offset[n] = Offset[n - 1] + Width(Layout[n][2])
      /\ Width(Layout[n][2]) \in Nat
      /\ Offset[n - 1] \in Nat /\ Offset[i] \in Nat
  BY <1>4, OffsetSteps, Widths, OffsetsCount
<1> QED BY <1>5, <1>6

(* No byte is of two members.                                               *)
LEMMA OwnerOfByte ==
  ASSUME NEW i \in 1..42, NEW k \in 1..Width(Layout[i][2])
  PROVE  /\ Offset[i - 1] + k \in 1..BlobLength
         /\ Owner[Offset[i - 1] + k] = i
<1> PICK N \in Nat : N = 42
  OBVIOUS
<1> DEFINE b == Offset[i - 1] + k
<1>0. /\ DOMAIN Layout = 1..N /\ BlobLength = Offset[N]
  BY LayoutTypes DEF BlobLength
<1>1. /\ Offset[i - 1] \in Nat /\ Offset[i] \in Nat /\ Offset[N] \in Nat
      /\ Offset[i] = Offset[i - 1] + Width(Layout[i][2])
      /\ Offset[i] <= Offset[N]
  <2>1. /\ i \in 0..42 /\ i - 1 \in 0..42 /\ N \in 0..42 /\ i <= N
    OBVIOUS
  <2>2. Offset[i] <= Offset[N]
    BY <2>1, OffsetsGrow, Zenon
  <2>3. Offset[i - 1] \in Nat /\ Offset[i] \in Nat /\ Offset[N] \in Nat
    BY <2>1, OffsetsCount, Zenon
  <2>4. Offset[i] = Offset[i - 1] + Width(Layout[i][2])
    BY OffsetSteps, Zenon
  <2> QED BY <2>2, <2>3, <2>4, Zenon
<1>2. b \in Offset[i - 1] + 1..Offset[i] /\ b \in 1..Offset[N] /\ b \in Nat
  <2> PICK o \in Nat, w \in Nat, n \in Nat :
        o = Offset[i - 1] /\ w = Width(Layout[i][2]) /\ n = Offset[N]
    BY <1>1, Widths
  <2>1. k \in Nat /\ 1 <= k /\ k <= w /\ o + w <= n /\ Offset[i] = o + w
    BY <1>1
  <2> QED BY <2>1
<1>3. ASSUME NEW j \in 1..N, b \in Stretch(j)
      PROVE  j = i
  <2>1. /\ Offset[j - 1] \in Nat /\ Offset[j] \in Nat
        /\ Offset[j - 1] + 1 <= b /\ b <= Offset[j]
    BY <1>2, <1>3, OffsetsCount DEF Stretch
  <2>2. CASE j < i
    <3>1. i - 1 \in 0..42 /\ j \in 0..42 /\ j <= i - 1
      BY <2>2
    <3>2. Offset[j] <= Offset[i - 1]
      BY <3>1, OffsetsGrow, Zenon
    <3> QED BY <1>1, <1>2, <2>1, <3>2
  <2>3. CASE j > i
    <3>1. i \in 0..42 /\ j - 1 \in 0..42 /\ i <= j - 1
      BY <2>3
    <3>2. Offset[i] <= Offset[j - 1]
      BY <3>1, OffsetsGrow, Zenon
    <3> QED BY <1>1, <1>2, <2>1, <3>2
  <2> QED BY <2>2, <2>3
<1> HIDE DEF b
<1>4. b \in Stretch(i)
  BY <1>2 DEF Stretch
<1>5. Owner[b] = CHOOSE j \in 1..N : b \in Stretch(j)
  BY <1>0, <1>2 DEF Owner
<1>6. Owner[b] = i
  BY <1>3, <1>4, <1>5
<1> QED BY <1>0, <1>2, <1>6 DEF b

-----------------------------------------------------------------------------
(* Numbers and their bytes *)

(* Division, with the remainder left over. *)
LEMMA Quotient ==
  ASSUME NEW v \in Int, NEW C \in Nat, C > 0
  PROVE  v \div C \in Int /\ v % C \in Nat /\ v % C < C /\ v = C * (v \div C) + (v % C)
OBVIOUS

LEMMA NoMultiple ==
  ASSUME NEW C \in Nat, NEW d \in Int, d >= 1
  PROVE  C * d \in Int /\ C * d >= C
<1>1. C * (d - 1) \in Nat
  <2> PICK e \in Nat : e = d - 1
    OBVIOUS
  <2> QED OBVIOUS
<1>2. C * d = C * (d - 1) + C
  OBVIOUS
<1> QED BY <1>1, <1>2

(* There is one quotient and one remainder. *)
LEMMA QuotientIs ==
  ASSUME NEW v \in Int, NEW C \in Nat, C > 0, NEW q \in Int, NEW r \in Nat,
         r < C, v = C * q + r
  PROVE  v \div C = q /\ v % C = r
<1> PICK p \in Int : p = v \div C
  BY Quotient
<1> PICK s \in Nat : s = v % C /\ s < C /\ v = C * p + s
  BY Quotient
<1>1. C * (p - q) = r - s /\ C * (q - p) = s - r
  OBVIOUS
<1>2. ~(p - q >= 1)
  BY <1>1, NoMultiple
<1>3. ~(q - p >= 1)
  BY <1>1, NoMultiple
<1>4. p = q
  BY <1>2, <1>3
<1> QED BY <1>4

(* Two shifts are one. *)
LEMMA QuotientTwice ==
  ASSUME NEW v \in Int, NEW B \in Nat, B > 0, NEW C \in Nat, C > 0
  PROVE  B * C \in Nat /\ v \div (B * C) = (v \div C) \div B
<1> PICK p \in Int : p = v \div C
  BY Quotient
<1> PICK r \in Nat : r < C /\ v = C * p + r
  BY Quotient
<1> PICK q \in Int : q = p \div B
  BY Quotient
<1> PICK s \in Nat : s < B /\ p = B * q + s
  BY Quotient
<1>1. B * C \in Nat /\ B * C > 0
  OBVIOUS
<1>2. v = (B * C) * q + (C * s + r)
  OBVIOUS
<1>3. C * s + r \in Nat
  OBVIOUS
<1>4. C * s + r < B * C
  <2>1. C * (B - s) >= C
    BY NoMultiple
  <2>2. C * (B - s) = B * C - C * s
    OBVIOUS
  <2> QED BY <2>1, <2>2
<1> PICK D \in Nat : D = B * C
  BY <1>1
<1> PICK t \in Nat : t = C * s + r
  BY <1>3
<1>5. v = D * q + t
  BY <1>2
<1>6. v \div D = q
  BY <1>1, <1>4, <1>5, QuotientIs
<1> QED BY <1>1, <1>6

(* Two digits of a number make it up, but for multiples of their values;    *)
(* and so do two of two.                                                    *)
LEMMA TwoBytes ==
  ASSUME NEW v \in Int, NEW B \in Nat, B > 0
  PROVE  (v % B) + B * ((v \div B) % B) = v % (B * B)
<1> PICK p \in Int : p = v \div B
  BY Quotient
<1> PICK r \in Nat : r = v % B /\ r < B /\ v = B * p + r
  BY Quotient
<1> PICK q \in Int : q = p \div B
  BY Quotient
<1> PICK s \in Nat : s = p % B /\ s < B /\ p = B * q + s
  BY Quotient
<1>1. B * B \in Nat /\ B * B > 0
  OBVIOUS
<1>2. v = (B * B) * q + (r + B * s)
  OBVIOUS
<1>3. r + B * s \in Nat
  OBVIOUS
<1>4. r + B * s < B * B
  <2>1. B * (B - s) >= B
    BY NoMultiple
  <2>2. B * (B - s) = B * B - B * s
    OBVIOUS
  <2> QED BY <2>1, <2>2
<1> PICK D \in Nat : D = B * B
  BY <1>1
<1> PICK t \in Nat : t = r + B * s
  BY <1>3
<1>5. v = D * q + t /\ D > 0 /\ t < D
  BY <1>1, <1>2, <1>4
<1>6. v % D = t
  BY ONLY <1>5, QuotientIs, v \in Int, D \in Nat, t \in Nat, q \in Int
<1> QED BY <1>6

LEMMA FourBytes ==
  ASSUME NEW v \in Int, NEW B \in Nat, B > 0
  PROVE  (v % B) + B * ((v \div B) % B) + B * B * ((v \div (B * B)) % B)
           + B * B * B * ((v \div (B * B * B)) % B)
         = v % (B * (B * B * B))
<1> PICK C \in Nat : C = B * B /\ C > 0
  OBVIOUS
<1> PICK w \in Int : w = v \div C
  BY Quotient
<1>1. (v % B) + B * ((v \div B) % B) = v % C
  BY TwoBytes
<1>2. (w % B) + B * ((w \div B) % B) = w % C
  BY TwoBytes
<1>3. (v % C) + C * (w % C) = v % (C * C)
  BY TwoBytes
<1>4. v \div (B * C) = w \div B
  BY QuotientTwice
<1>5. B * B * B = B * C /\ B * (B * B * B) = C * C
  OBVIOUS
<1> PICK b1 \in Nat : b1 = v % B
  BY Quotient
<1> PICK p \in Int : p = v \div B
  BY Quotient
<1> PICK b2 \in Nat : b2 = p % B
  BY Quotient
<1> PICK b3 \in Nat : b3 = w % B
  BY Quotient
<1> PICK q \in Int : q = w \div B
  BY Quotient
<1> PICK b4 \in Nat : b4 = q % B
  BY Quotient
<1>6. (v \div (B * B)) % B = b3 /\ (v \div (B * B * B)) % B = b4
  BY <1>4, <1>5
<1>7. v % (B * (B * B * B)) = v % (C * C)
  BY <1>5
<1>8. v % (C * C) = (b1 + B * b2) + C * (b3 + B * b4)
  BY <1>1, <1>2, <1>3
<1>9. (b1 + B * b2) + C * (b3 + B * b4) = b1 + B * b2 + B * B * b3 + B * B * B * b4
  OBVIOUS
<1> QED BY <1>6, <1>7, <1>8, <1>9

(* What is left of a number that its bytes have room for.                   *)
LEMMA Room ==
  ASSUME NEW V \in Nat, V > 0, NEW v \in Int
  PROVE  /\ v \in 0..V - 1 => v % V = v
         /\ 0 - V <= 2 * v /\ 2 * v < V =>
              (IF 2 * (v % V) >= V THEN (v % V) - V ELSE v % V) = v
<1>1. ASSUME v \in 0..V - 1
      PROVE  v % V = v
  <2>1. v = V * 0 + v /\ v \in Nat /\ v < V
    BY <1>1
  <2> QED BY <2>1, QuotientIs
<1>2. ASSUME 0 - V <= 2 * v, 2 * v < V
      PROVE  (IF 2 * (v % V) >= V THEN (v % V) - V ELSE v % V) = v
  <2>1. CASE v >= 0
    <3>1. v \in 0..V - 1
      BY <1>2, <2>1
    <3>2. v % V = v
      BY <3>1, <1>1
    <3> QED BY <1>2, <3>2
  <2>2. CASE v < 0
    <3> PICK t \in Nat : t = v + V
      BY <1>2, <2>2
    <3>1. v = V * (0 - 1) + t /\ t < V
      BY <2>2
    <3>2. v % V = t
      BY <3>1, QuotientIs
    <3> QED BY <1>2, <3>2
  <2> QED BY <2>1, <2>2
<1> QED BY <1>1, <1>2

(* What the bytes of a number count for together. *)
BytesTotal(value, type) ==
  LET bytes == Bytes(value, type)
  IN  CASE Width(type) = 1 -> bytes[1]
        [] Width(type) = 2 -> bytes[1] + Weight[2] * bytes[2]
        [] OTHER -> bytes[1] + Weight[2] * bytes[2] + Weight[3] * bytes[3] + Weight[4] * bytes[4]

(* It is the number, but for multiples of what the bytes have room for. *)
LEMMA BytesSum ==
  ASSUME NEW v \in Int, NEW type \in Types
  PROVE  /\ Values(type) \in Nat /\ Values(type) > 1
         /\ BytesTotal(v, type) = v % Values(type)
<1> PICK B \in Nat : B = ByteValues /\ B > 1
  BY BlobAssumption
<1>0. B \in Nat /\ B > 0
  OBVIOUS
<1>1. /\ Weight[1] = 1 /\ Weight[2] = B /\ Weight[3] = B * B /\ Weight[4] = B * B * B
  BY DEF Weight
<1>2. v \div 1 = v
  <2>1. v = 1 * v + 0
    OBVIOUS
  <2> QED BY <2>1, QuotientIs
<1>3. B * B \in Nat /\ B * B > 1
  <2>1. B * (B - 1) \in Nat
    <3> PICK e \in Nat : e = B - 1
      OBVIOUS
    <3> QED OBVIOUS
  <2>2. B * B = B * (B - 1) + B
    OBVIOUS
  <2> QED BY <2>1, <2>2
<1>4. B * (B * B * B) \in Nat /\ B * (B * B * B) > 1
  <2> PICK C \in Nat : C = B * B /\ C > 1
    BY <1>3
  <2>1. C * (C - 1) \in Nat
    <3> PICK e \in Nat : e = C - 1
      OBVIOUS
    <3> QED OBVIOUS
  <2>2. C * C = C * (C - 1) + C
    OBVIOUS
  <2>3. B * (B * B * B) = C * C
    OBVIOUS
  <2> QED BY <2>1, <2>2, <2>3
<1>5. ASSUME NEW i \in 1..Width(type)
      PROVE  Bytes(v, type)[i] = (v \div Weight[i]) % B
  BY <1>5 DEF Bytes
<1>6. CASE type \in {"u8", "bool"}
  <2>1. Width(type) = 1
    BY <1>6 DEF Width
  <2>2. Values(type) = B
    BY <1>1, <2>1 DEF Values
  <2>3. Bytes(v, type)[1] = v % B
    BY <1>1, <1>2, <1>5, <2>1
  <2> QED BY <2>1, <2>2, <2>3 DEF BytesTotal
<1>7. CASE type \in {"u16", "i16"}
  <2>1. Width(type) = 2
    BY <1>7 DEF Width
  <2>2. Values(type) = B * B
    BY <1>1, <2>1 DEF Values
  <2>3. Bytes(v, type)[1] = v % B /\ Bytes(v, type)[2] = (v \div B) % B
    BY <1>1, <1>2, <1>5, <2>1
  <2>4. BytesTotal(v, type) = (v % B) + B * ((v \div B) % B)
    BY <1>1, <2>1, <2>3 DEF BytesTotal
  <2>5. (v % B) + B * ((v \div B) % B) = v % (B * B)
    BY <1>0, TwoBytes, Zenon
  <2> QED BY <1>3, <2>2, <2>4, <2>5
<1>8. CASE type \in {"u32", "i32"}
  <2>1. Width(type) = 4
    BY <1>8 DEF Width
  <2>2. Values(type) = B * (B * B * B)
    BY <1>1, <2>1 DEF Values
  <2>3. /\ Bytes(v, type)[1] = v % B /\ Bytes(v, type)[2] = (v \div B) % B
        /\ Bytes(v, type)[3] = (v \div (B * B)) % B
        /\ Bytes(v, type)[4] = (v \div (B * B * B)) % B
    BY <1>1, <1>2, <1>5, <2>1
  <2>4. BytesTotal(v, type)
        = (v % B) + B * ((v \div B) % B) + B * B * ((v \div (B * B)) % B)
            + B * B * B * ((v \div (B * B * B)) % B)
    BY <1>1, <2>1, <2>3 DEF BytesTotal
  <2>5. BytesTotal(v, type) = v % (B * (B * B * B))
    BY <1>0, <2>4, FourBytes, Zenon
  <2> QED BY <1>4, <2>2, <2>5
<1> QED BY <1>6, <1>7, <1>8 DEF Types

(* A number that its type holds is read back from its bytes.                *)
LEMMA ValueOfBytes ==
  ASSUME NEW v \in Int, NEW type \in Types, Fits(v, type)
  PROVE  Value(Bytes(v, type), type) = v
<1> PICK V \in Nat : V = Values(type) /\ V > 1
  BY BytesSum
<1> PICK s : s = BytesTotal(v, type) /\ s = v % V
  BY BytesSum
<1>1. Value(Bytes(v, type), type)
      = CASE type = "bool" -> IF s # 0 THEN 1 ELSE 0
          [] type \in {"i16", "i32"} -> IF 2 * s >= V THEN s - V ELSE s
          [] OTHER -> s
  BY DEF Value, BytesTotal
<1>2. CASE type = "bool"
  <2>1. v \in 0..V - 1 /\ v \in {0, 1}
    BY <1>2 DEF Fits
  <2>2. s = v
    BY <2>1, Room
  <2> QED BY <1>1, <1>2, <2>1, <2>2
<1>3. CASE type \in {"i16", "i32"}
  <2>1. 0 - V <= 2 * v /\ 2 * v < V
    BY <1>3 DEF Fits
  <2>2. (IF 2 * s >= V THEN s - V ELSE s) = v
    BY ONLY <2>1, Room, v \in Int, V \in Nat, V > 1, s = v % V
  <2> QED BY <1>1, <1>3, <2>2
<1>4. CASE type \in {"u8", "u16", "u32"}
  <2>1. v \in 0..V - 1
    BY <1>4 DEF Fits
  <2>2. s = v
    BY <2>1, Room
  <2> QED BY <1>1, <1>4, <2>2
<1> QED BY <1>2, <1>3, <1>4 DEF Types

-----------------------------------------------------------------------------
(* What is written is read *)

LEMMA StageableKinds ==
  Stageable = Flags \cup Enumerations \cup (Unsigned16 \cup {"MICROSTEPS"}) \cup Unsigned32
                \cup {"SOFT_LIMIT_MIN_STEPS", "SOFT_LIMIT_MAX_STEPS"}
BY DEF Stageable, RuntimeSafe, RequiresIdle, Flags, Enumerations, Unsigned16, Unsigned32

(* Every member holds a number of its type. *)
LEMMA MembersFit ==
  ASSUME NEW c, Sound(c), NEW i \in 1..42
  PROVE  /\ Layout[i][1] \in Members
         /\ c[Layout[i][1]] \in Int
         /\ Fits(c[Layout[i][1]], Layout[i][2])
<1> DEFINE m == Layout[i][1]
           type == Layout[i][2]
<1>1. m \in Members /\ type \in Types /\ Fits(Defaults[m], type)
  BY LayoutTypes, LayoutAssumption
<1>0. c \in [Members -> Int] /\ Valid(c) /\ Representable(c)
  BY DEF Sound
<1>2. c[m] \in Int
  BY <1>0, <1>1
<1>3. CASE m \notin Stageable
  <2>1. c[m] = Defaults[m]
    BY <1>0, <1>1, <1>3 DEF Representable
  <2> QED BY <1>1, <1>2, <2>1
<1>4. CASE m \in Flags
  <2>1. type = "bool" /\ c[m] \in {0, 1}
    BY <1>0, <1>4, LayoutKinds DEF Representable
  <2> QED BY <1>1, <1>2, <2>1 DEF Fits
<1>5. CASE m \in Enumerations
  <2>1. type = "u8" /\ c[m] \in {0, 1}
    BY <1>0, <1>5, LayoutKinds DEF Representable
  <2>2. Values("u8") \in Nat /\ Values("u8") > 1
    BY 0 \in Int, BytesSum DEF Types
  <2>3. c[m] \in 0..Values("u8") - 1
    BY <2>1, <2>2
  <2> QED BY <1>1, <1>2, <2>1, <2>3 DEF Fits
<1>6. CASE m \in Unsigned16 \cup {"MICROSTEPS"}
  <2>1. type = "u16"
    BY <1>6, LayoutKinds
  <2>2. Values("u16") \in Nat
    BY 0 \in Int, BytesSum DEF Types
  <2>3. c[m] \in 0..U16Max \/ c[m] \in 1..MaxMicrosteps
    BY <1>0, <1>6, FieldsAssumption DEF Representable, Valid
  <2>4. c[m] \in 0..Values("u16") - 1
    BY <2>2, <2>3, LayoutAssumption, FieldsAssumption
  <2> QED BY <1>1, <1>2, <2>1, <2>4 DEF Fits
<1>7. CASE m \in Unsigned32
  <2>1. type = "u32"
    BY <1>7, LayoutKinds
  <2>2. c[m] >= 0 /\ c[m] <= I32Max
    BY <1>0, <1>7, StageableKinds, FieldsAssumption DEF Representable, Int32
  <2>3. Values("u32") = Values("i32")
    BY DEF Values, Width
  <2>4. Values("u32") \in Nat
    BY 0 \in Int, BytesSum DEF Types
  <2>5. c[m] \in 0..Values("u32") - 1
    BY <1>2, <2>2, <2>3, <2>4, LayoutAssumption, FieldsAssumption
  <2> QED BY <1>1, <1>2, <2>1, <2>5 DEF Fits
<1>8. CASE m \in {"SOFT_LIMIT_MIN_STEPS", "SOFT_LIMIT_MAX_STEPS"}
  <2>1. type = "i32"
    BY <1>8, LayoutKinds
  <2>2. c[m] >= 0 - I32Max - 1 /\ c[m] <= I32Max
    BY <1>0, <1>8, StageableKinds, FieldsAssumption DEF Representable, Int32
  <2>3. Values("i32") \in Nat
    BY 0 \in Int, BytesSum DEF Types
  <2>4. 0 - Values("i32") <= 2 * c[m] /\ 2 * c[m] < Values("i32")
    BY <1>2, <2>2, <2>3, LayoutAssumption, FieldsAssumption
  <2> QED BY <1>1, <1>2, <2>1, <2>4 DEF Fits
<1> QED BY <1>3, <1>4, <1>5, <1>6, <1>7, <1>8, StageableKinds

(* What Serialize writes. *)
Written(c) == [k \in 1..MaxBlob |-> ByteAt(c, k)]

LEMMA MemberRead ==
  ASSUME NEW c, Sound(c), NEW i \in 1..42
  PROVE  Member(Written(c), i) = c[Layout[i][1]]
<1> DEFINE w == Width(Layout[i][2])
           bytes == Bytes(c[Layout[i][1]], Layout[i][2])
<1>1. ASSUME NEW k \in 1..w
      PROVE  Written(c)[Offset[i - 1] + k] = bytes[k]
  <2> PICK o \in Nat : o = Offset[i - 1]
    BY OffsetsCount
  <2> PICK n \in Nat : n = BlobLength
    BY OffsetsCount, LayoutTypes DEF BlobLength
  <2>1. o + k \in 1..n /\ Owner[o + k] = i
    BY OwnerOfByte
  <2>2. k \in Nat
    BY Widths
  <2>3. MaxBlob \in Nat /\ n <= MaxBlob
    BY LengthsAssumption
  <2>4. o + k \in 1..MaxBlob /\ ~(o + k > n) /\ (o + k) - o = k
    BY <2>1, <2>2, <2>3
  <2>5. ByteAt(c, o + k) = bytes[k]
    BY <2>1, <2>4 DEF ByteAt
  <2> QED BY <2>4, <2>5 DEF Written
<1>2. Member(Written(c), i) = Value([k \in 1..w |-> bytes[k]], Layout[i][2])
  BY <1>1 DEF Member
<1>3. [k \in 1..w |-> bytes[k]] = bytes
  BY DEF Bytes
<1>4. Layout[i][2] \in Types
  BY LayoutTypes
<1>5. Value(bytes, Layout[i][2]) = c[Layout[i][1]]
  BY <1>4, MembersFit, ValueOfBytes
<1> HIDE DEF w, bytes
<1> QED BY <1>2, <1>3, <1>5

(* Whatever valid configuration is written, members that no edit reaches    *)
(* included: reading takes every member back as it was.                     *)
THEOREM WrittenIsRead ==
  ASSUME NEW c, Sound(c)
  PROVE  Serialize(c) = {Written(c)} /\ Decoded(Written(c)) = c
<1>1. ASSUME NEW m \in Members
      PROVE  Member(Written(c), Place[m]) = c[m]
  <2>1. DOMAIN Layout = 1..42
    BY LayoutTypes
  <2>2. \E i \in DOMAIN Layout : Layout[i][1] = m
    BY LayoutAssumption
  <2>3. Place[m] \in 1..42 /\ Layout[Place[m]][1] = m
    BY <2>1, <2>2 DEF Place
  <2> QED BY <2>3, MemberRead
<1>2. Decoded(Written(c)) = c
  BY <1>1 DEF Decoded, Sound
<1>3. Serialize(c) = {Written(c)}
  BY DEF Serialize, Written, Sound
<1> QED BY <1>2, <1>3

LEMMA RoundTrip == TypeOK => BlobRoundTrip
<1> SUFFICES ASSUME TypeOK PROVE BlobRoundTrip
  OBVIOUS
<1>1. Sound(config)
  BY DEF TypeOK, Sound
<1>2. Serialize(config) = {Written(config)}
  BY <1>1, WrittenIsRead
<1>3. Checked(Decoded(Written(config))) = {config}
  BY <1>1, WrittenIsRead DEF Checked, Sound
<1>4. BlobLength \in Nat
  BY OffsetsCount, LayoutTypes DEF BlobLength
<1>5. ASSUME NEW length \in Int
      PROVE  Deserialize(Written(config), length) =
               IF length \in BlobLength..MaxBlob THEN {config} ELSE Refused
  BY <1>3, <1>4, LengthsAssumption DEF Deserialize
<1>6. {0, MinBlob - 1, MinBlob, BlobLength - 1, BlobLength, MaxBlob, MaxBlob + 1} \subseteq Int
  BY <1>4, LengthsAssumption
<1> QED BY <1>2, <1>5, <1>6 DEF BlobRoundTrip, Refused

(* What CONFIG_SAVE stores of the edited copy is what the next start loads, *)
(* member by member, and no shorter payload passes for it.                  *)
THEOREM BlobsComeBack == Spec => []BlobRoundTrip
<1>1. Spec => []TypeOK
  BY TypeCorrect
<1> QED BY <1>1, RoundTrip, PTL

=============================================================================
