----------------------------- MODULE SoftLimits -----------------------------
(***************************************************************************)
(* The numbers of motion commands in firmware/src/actuator.cpp: 32 bit     *)
(* positions, the inverted direction, the soft limits, and a generator     *)
(* that goes on stepping while a handler computes with the position it     *)
(* has read.  The driver is enabled and no latching fault is set; which    *)
(* commands a fault or a disabled driver refuses is in Actuator.           *)
(* Ramps are left out: a generator that is told to stop or to turn has     *)
(* slowed down at once.                                                    *)
(***************************************************************************)
EXTENDS Integers

CONSTANTS
  Half,        (* 2^31: positions are in -Half..Half-1                      *)
  Limits,      (* the pairs of soft limits that are configured              *)
  MaxVelocity, (* the smaller of the two velocity limits                    *)
  MaxDrift,    (* bound: steps while MOVE_REL is handled                    *)
  None

Ints == -Half..Half - 1

ASSUME LimitsAssumption ==
  /\ Half \in Nat \ {0}
  /\ Limits \subseteq {pair \in Ints \X Ints : pair[1] <= pair[2]}
  /\ MaxVelocity \in Nat
  /\ MaxDrift \in 0..Half
  /\ None \notin Ints

VARIABLES
  config,      (* soft limits and direction_inverted of the active configuration *)
  state,       (* state_                                                    *)
  softLimit,   (* the fault SOFT_LIMIT                                      *)
  running,     (* what the generator does                                   *)
  position,    (* its position                                              *)
  target,      (* and where it goes when it runs to a target                *)
  asked        (* what the host asked for: a target, a velocity, or None    *)

generator == <<running, position, target>>
vars == <<config, state, softLimit, generator, asked>>

Configs == [enabled : BOOLEAN, limits : Limits, inverted : BOOLEAN]

MotionStates == {"MOVING_POSITION", "RUNNING_VELOCITY", "STOPPING"}

(* One step around the end of the range is all that can happen at once.     *)
Wrap(x) ==
  CASE x >= Half -> x - 2 * Half
    [] x < -Half -> x + 2 * Half
    [] OTHER -> x

(* to_backend_value fails for INT32_MIN, from_backend_value takes it for    *)
(* INT32_MAX.                                                               *)
ConvertibleAlways(logical) == TRUE

Convertible(logical) == ~config.inverted \/ logical # -Half

ToBackend(logical) == IF config.inverted THEN -logical ELSE logical

FromBackend(value) ==
  CASE ~config.inverted -> value
    [] config.inverted /\ value = -Half -> Half - 1
    [] OTHER -> -value

Within(x) == config.limits[1] <= x /\ x <= config.limits[2]

(* Only the upper limit is looked at. *)
SoftLimitViolationAbove(goal) == config.enabled /\ goal > config.limits[2]

SoftLimitViolation(goal) == config.enabled /\ ~Within(goal)

(* The position of the running generator n steps later. *)
Ahead(n) ==
  CASE running = "no" -> position
    [] running = "forward" -> Wrap(position + n)
    [] running = "backward" -> Wrap(position - n)
    [] running = "to" /\ position <= target ->
         IF position + n < target THEN position + n ELSE target
    [] OTHER -> IF position - n > target THEN position - n ELSE target

Init ==
  /\ config \in Configs
  /\ state = "IDLE"
  /\ softLimit = FALSE
  /\ running = "no"
  /\ position = 0
  /\ target = 0
  /\ asked = None

-----------------------------------------------------------------------------
(* Commands *)

(* validate_motion_allowed(POSITION) *)
PositionAllowed == state \in {"IDLE", "MOVING_POSITION"}

VelocityAllowed == state \in {"IDLE", "RUNNING_VELOCITY"}

MoveTo(goal) ==
  /\ target' = goal
  /\ running' = "to"
  /\ state' = "MOVING_POSITION"
  /\ UNCHANGED <<config, softLimit>>

MoveAbs(goal) ==
  /\ PositionAllowed
  /\ ~SoftLimitViolation(goal)
  /\ Convertible(goal)
  /\ MoveTo(ToBackend(goal))
  /\ asked' = goal
  /\ UNCHANGED position

(* What the library's move() adds a delta to: the target of the move under  *)
(* way, and the position of a generator at rest.  For one that runs without *)
(* a target either is taken for possible.                                   *)
BasesAt(here) ==
  CASE running = "to" -> {target}
    [] running = "no" -> {here}
    [] OTHER -> {here, target}

(* The goal is checked from the position read first; the generator adds the *)
(* delta to something else, unless it is at rest.                           *)
MoveRel(delta, drift) ==
  LET goal == FromBackend(position) + delta
  IN  /\ PositionAllowed
      /\ goal \in Ints
      /\ ~SoftLimitViolation(goal)
      /\ Convertible(delta)
      /\ position' = Ahead(drift)
      /\ \E base \in BasesAt(position') : MoveTo(Wrap(base + ToBackend(delta)))
      /\ asked' = None

MoveBeyondLimit(goal) ==
  /\ PositionAllowed
  /\ SoftLimitViolation(goal)
  /\ softLimit' = TRUE
  /\ UNCHANGED <<config, state, generator, asked>>

Abs(x) == IF x < 0 THEN -x ELSE x

Run(velocity) ==
  /\ running' = IF velocity > 0 THEN "forward" ELSE "backward"
  /\ state' = "RUNNING_VELOCITY"
  /\ UNCHANGED <<config, softLimit, position, target>>

(* The velocity goes to the generator as it is. *)
RunVelocityAsIs(velocity) ==
  /\ VelocityAllowed
  /\ velocity # 0
  /\ Abs(velocity) <= MaxVelocity
  /\ Run(velocity)
  /\ asked' = velocity

RunVelocity(velocity) ==
  /\ VelocityAllowed
  /\ velocity # 0
  /\ Abs(velocity) <= MaxVelocity
  /\ Convertible(velocity)
  /\ Run(ToBackend(velocity))
  /\ asked' = velocity

(* The steps of slowing down are taken before. *)
RampStop ==
  /\ running' = "no"
  /\ state' = "STOPPING"
  /\ asked' = None
  /\ UNCHANGED <<config, softLimit, position, target>>

(* CLEAR_FAULTS leaves the generator running. *)
ClearFaults ==
  /\ softLimit' = FALSE
  /\ state' = "IDLE"
  /\ asked' = None
  /\ UNCHANGED <<config, generator>>

ApplyConfigAnytime(new) ==
  /\ config' = new
  /\ UNCHANGED <<softLimit, generator, state, asked>>

ApplyConfig(new) ==
  /\ state \notin MotionStates
  /\ config' = new
  /\ UNCHANGED <<softLimit, generator, state, asked>>

-----------------------------------------------------------------------------
(* The generator, and update noticing that it has stopped *)

Step ==
  /\ running # "no"
  /\ position' = Ahead(1)
  /\ position' # position
  /\ UNCHANGED <<config, state, softLimit, running, target, asked>>

Arrive ==
  /\ running = "to"
  /\ position = target
  /\ running' = "no"
  /\ UNCHANGED <<config, state, softLimit, position, target, asked>>

MotionFinished ==
  /\ state \in {"MOVING_POSITION", "STOPPING"}
  /\ running = "no"
  /\ state' = "IDLE"
  /\ asked' = None
  /\ UNCHANGED <<config, softLimit, generator>>

Next ==
  \/ \E goal \in Ints : MoveAbs(goal) \/ MoveBeyondLimit(goal)
  \/ \E delta \in Ints, drift \in 0..MaxDrift : MoveRel(delta, drift)
  \/ \E velocity \in Ints : RunVelocity(velocity)
  \/ RampStop
  \/ ClearFaults
  \/ \E new \in Configs : ApplyConfig(new)
  \/ Step
  \/ Arrive
  \/ MotionFinished

Spec == Init /\ [][Next]_vars

-----------------------------------------------------------------------------
(* Properties *)

(* Every number stays in 32 bits: INT32_MIN is never negated on its way to  *)
(* the generator.                                                           *)
TypeOK ==
  /\ config \in Configs
  /\ state \in MotionStates \cup {"IDLE"}
  /\ softLimit \in BOOLEAN
  /\ running \in {"no", "to", "forward", "backward"}
  /\ position \in Ints
  /\ target \in Ints
  /\ asked \in Ints \cup {None}

(* The target that STATUS reports for a MOVE_ABS under way is the one that  *)
(* was asked for, whatever the direction and whatever is configured.        *)
GoesWhereAsked ==
  state = "MOVING_POSITION" /\ asked # None => FromBackend(target) = asked

(* A move aims inside the soft limits, or at the step next to them: the     *)
(* position INT32_MIN reads as INT32_MAX.  Limits at the ends of the range  *)
(* are excepted.                                                            *)
AimsInside ==
  LET low == config.limits[1] - 1
      high == config.limits[2] + 1
  IN  state = "MOVING_POSITION" /\ config.enabled /\ low > -Half /\ high < Half =>
        FromBackend(target) \in low..high

(* The README says that soft limits fault before out-of-range motion is     *)
(* issued.  As far as the code keeps it: only a MOVE_REL that meets a       *)
(* generator which has not come to rest sends it beyond the limits, never a *)
(* MOVE_ABS, a MOVE_REL from rest, or a configuration applied while a move  *)
(* is under way.                                                            *)
BeyondLimitsOnlyStacked ==
  [][AimsInside /\ ~AimsInside' => running # "no" /\ asked' = None]_vars

(* A velocity run moves to the side that was asked for, except where the    *)
(* position wraps.                                                          *)
DirectionAsAsked ==
  [][ Step /\ state = "RUNNING_VELOCITY" /\ {position, position'} \cap {-Half} = {} =>
        (asked > 0) = (FromBackend(position') > FromBackend(position)) ]_vars

=============================================================================
