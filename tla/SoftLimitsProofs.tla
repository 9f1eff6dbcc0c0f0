-------------------------- MODULE SoftLimitsProofs --------------------------
(***************************************************************************)
(* Theorems about SoftLimits for integers of every width, every set of     *)
(* limits and every number of steps taken while MOVE_REL is handled.       *)
(***************************************************************************)
EXTENDS SoftLimits, TLAPS

LEMMA WrapType ==
  ASSUME NEW x \in Int, -2 * Half <= x, x < 2 * Half
  PROVE  Wrap(x) \in Ints
  BY LimitsAssumption DEF Wrap, Ints

LEMMA AheadType ==
  ASSUME position \in Ints, target \in Ints, NEW n \in 0..Half
  PROVE  Ahead(n) \in Ints
  BY LimitsAssumption DEF Ahead, Wrap, Ints

(* A direction that converts stays in the range, and comes back as it was.  *)
LEMMA Converted ==
  ASSUME NEW logical \in Ints, Convertible(logical)
  PROVE  ToBackend(logical) \in Ints /\ FromBackend(ToBackend(logical)) = logical
  BY LimitsAssumption DEF Convertible, ToBackend, FromBackend, Ints

(* Every number handed to the generator fits into 32 bits                   *)
(* (to_backend_value, from_backend_value).                                  *)
THEOREM TypeCorrect == Spec => []TypeOK
<1>1. Init => TypeOK
  <2>1. 0 \in Ints
    BY LimitsAssumption DEF Ints
  <2>2. QED
    BY <2>1 DEF Init, TypeOK, MotionStates
<1>2. TypeOK /\ [Next]_vars => TypeOK'
  <2> SUFFICES ASSUME TypeOK, [Next]_vars
               PROVE  TypeOK'
    OBVIOUS
  <2> USE DEF TypeOK, MotionStates, generator
  <2>1. ASSUME NEW goal \in Ints, MoveAbs(goal)
        PROVE  TypeOK'
    BY <2>1, Converted DEF MoveAbs, MoveTo
  <2>2. ASSUME NEW goal \in Ints, MoveBeyondLimit(goal)
        PROVE  TypeOK'
    BY <2>2 DEF MoveBeyondLimit
  <2>3. ASSUME NEW delta \in Ints, NEW drift \in 0..MaxDrift, MoveRel(delta, drift)
        PROVE  TypeOK'
    <3>1. position' \in Ints
      BY <2>3, AheadType, LimitsAssumption DEF MoveRel
    <3>2. ToBackend(delta) \in Ints
      BY <2>3, Converted DEF MoveRel
    <3>3. PICK base \in BasesAt(position') : MoveTo(Wrap(base + ToBackend(delta)))
      BY <2>3 DEF MoveRel
    <3>4. base \in Ints
      BY <3>1 DEF BasesAt
    <3>5. Wrap(base + ToBackend(delta)) \in Ints
      BY <3>2, <3>4, WrapType, LimitsAssumption DEF Ints
    <3>6. QED
      BY <2>3, <3>1, <3>3, <3>5 DEF MoveRel, MoveTo
  <2>4. ASSUME NEW velocity \in Ints, RunVelocity(velocity)
        PROVE  TypeOK'
    BY <2>4 DEF RunVelocity, Run
  <2>5. CASE RampStop
    BY <2>5 DEF RampStop
  <2>6. CASE ClearFaults
    BY <2>6 DEF ClearFaults
  <2>7. ASSUME NEW new \in Configs, ApplyConfig(new)
        PROVE  TypeOK'
    BY <2>7 DEF ApplyConfig
  <2>8. CASE Step
    BY <2>8, AheadType, LimitsAssumption DEF Step
  <2>9. CASE Arrive
    BY <2>9 DEF Arrive
  <2>10. CASE MotionFinished
    BY <2>10 DEF MotionFinished
  <2>11. CASE UNCHANGED vars
    BY <2>11 DEF vars
  <2>12. QED
    BY <2>1, <2>2, <2>3, <2>4, <2>5, <2>6, <2>7, <2>8, <2>9, <2>10, <2>11 DEF Next
<1>3. QED
  BY <1>1, <1>2, PTL DEF Spec

(* The target reported for a MOVE_ABS under way is the one that was asked   *)
(* for: its limits and its direction are frozen while it lasts              *)
(* (apply_staged_config, send_status).                                      *)
THEOREM AbsoluteMovesExact == Spec => []GoesWhereAsked
<1>1. Init => GoesWhereAsked
  BY DEF Init, GoesWhereAsked
<1>2. TypeOK /\ GoesWhereAsked /\ [Next]_vars => GoesWhereAsked'
  <2> SUFFICES ASSUME TypeOK, GoesWhereAsked, [Next]_vars
               PROVE  GoesWhereAsked'
    OBVIOUS
  <2> USE DEF GoesWhereAsked, generator
  <2>1. ASSUME NEW goal \in Ints, MoveAbs(goal)
        PROVE  GoesWhereAsked'
    <3>1. FromBackend(ToBackend(goal)) = goal
      BY <2>1, Converted DEF MoveAbs
    <3>2. QED
      BY <2>1, <3>1 DEF MoveAbs, MoveTo, FromBackend
  <2>2. ASSUME UNCHANGED <<config, target>>,
               state' = "MOVING_POSITION" => state = "MOVING_POSITION" /\ asked' = asked
        PROVE  GoesWhereAsked'
    BY <2>2 DEF FromBackend
  <2>3. ASSUME NEW delta \in Ints, NEW drift \in 0..MaxDrift, MoveRel(delta, drift)
        PROVE  GoesWhereAsked'
    BY <2>3 DEF MoveRel
  <2>4. ASSUME NEW goal \in Ints, MoveBeyondLimit(goal)
        PROVE  GoesWhereAsked'
    BY <2>2, <2>4 DEF MoveBeyondLimit
  <2>5. ASSUME NEW velocity \in Ints, RunVelocity(velocity)
        PROVE  GoesWhereAsked'
    BY <2>5 DEF RunVelocity, Run
  <2>6. ASSUME NEW new \in Configs, ApplyConfig(new)
        PROVE  GoesWhereAsked'
    BY <2>6 DEF ApplyConfig, MotionStates
  <2>7. CASE RampStop \/ ClearFaults \/ MotionFinished
    BY <2>7 DEF RampStop, ClearFaults, MotionFinished
  <2>8. CASE Step \/ Arrive \/ UNCHANGED vars
    BY <2>2, <2>8 DEF Step, Arrive, vars
  <2>9. QED
    BY <2>1, <2>3, <2>4, <2>5, <2>6, <2>7, <2>8 DEF Next
<1>3. QED
  BY <1>1, <1>2, TypeCorrect, PTL DEF Spec

(* From rest, the goal that was checked and the one the generator is given  *)
(* are the same, or one step apart.                                         *)
LEMMA RelativeFromRest ==
  ASSUME TypeOK, NEW delta \in Ints, NEW drift \in 0..MaxDrift, MoveRel(delta, drift),
         running = "no",
         NEW low \in Int, NEW high \in Int, -Half < low - 1, high + 1 < Half,
         FromBackend(position) + delta \in low..high
  PROVE  FromBackend(target') \in low - 1..high + 1
<1>1. position' = position
  BY DEF MoveRel, Ahead
<1>2. target' = Wrap(position + ToBackend(delta))
  BY <1>1 DEF MoveRel, MoveTo, BasesAt
<1>3. position \in Ints /\ Convertible(delta)
  BY DEF TypeOK, MoveRel
<1>4. CASE config.inverted
  BY <1>2, <1>3, <1>4, LimitsAssumption DEF Wrap, ToBackend, FromBackend, Convertible, Ints
<1>5. CASE ~config.inverted
  BY <1>2, <1>3, <1>5, LimitsAssumption DEF Wrap, ToBackend, FromBackend, Convertible, Ints
<1> QED
  BY <1>4, <1>5

(* A move is sent beyond the soft limits only by a MOVE_REL that meets a    *)
(* running generator, whatever the widths and the limits                    *)
(* (soft_limit_violation and the handlers of MOVE_ABS and MOVE_REL).        *)
THEOREM LimitsHold == Spec => BeyondLimitsOnlyStacked
<1>1. TypeOK /\ [Next]_vars =>
        [AimsInside /\ ~AimsInside' => running # "no" /\ asked' = None]_vars
  <2> SUFFICES ASSUME TypeOK, Next, AimsInside, ~(running # "no" /\ asked' = None)
               PROVE  AimsInside'
    OBVIOUS
  <2> USE DEF AimsInside, generator
  <2>0. config.limits[1] \in Ints /\ config.limits[2] \in Ints
    BY LimitsAssumption DEF TypeOK, Configs
  <2>1. ASSUME NEW goal \in Ints, MoveAbs(goal)
        PROVE  AimsInside'
    <3>1. FromBackend(ToBackend(goal)) = goal
      BY <2>1, Converted DEF MoveAbs
    <3>2. FromBackend(target)' = goal /\ UNCHANGED config
      BY <2>1, <3>1 DEF MoveAbs, MoveTo, FromBackend
    <3>3. config.enabled => config.limits[1] <= goal /\ goal <= config.limits[2]
      BY <2>1 DEF MoveAbs, SoftLimitViolation, Within
    <3> QED
      BY <2>0, <3>2, <3>3, LimitsAssumption DEF Ints
  <2>2. ASSUME NEW delta \in Ints, NEW drift \in 0..MaxDrift, MoveRel(delta, drift)
        PROVE  AimsInside'
    <3>1. running = "no"
      BY <2>2 DEF MoveRel
    <3>2. UNCHANGED config
      BY <2>2 DEF MoveRel, MoveTo
    <3>3. FromBackend(target)' = FromBackend(target')
      BY <3>2 DEF FromBackend
    <3>4. config.enabled =>
            FromBackend(position) + delta \in config.limits[1]..config.limits[2]
      BY <2>0, <2>2, LimitsAssumption DEF MoveRel, SoftLimitViolation, Within, Ints
    <3> QED
      BY <2>0, <2>2, <3>1, <3>2, <3>3, <3>4, RelativeFromRest, LimitsAssumption DEF Ints
  <2>3. ASSUME UNCHANGED <<config, target>>,
               state' = "MOVING_POSITION" => state = "MOVING_POSITION"
        PROVE  AimsInside'
    BY <2>3 DEF FromBackend
  <2>4. ASSUME NEW goal \in Ints, MoveBeyondLimit(goal)
        PROVE  AimsInside'
    BY <2>3, <2>4 DEF MoveBeyondLimit
  <2>5. ASSUME NEW velocity \in Ints, RunVelocity(velocity)
        PROVE  AimsInside'
    BY <2>5 DEF RunVelocity, Run
  <2>6. ASSUME NEW new \in Configs, ApplyConfig(new)
        PROVE  AimsInside'
    BY <2>6 DEF ApplyConfig, MotionStates
  <2>7. CASE RampStop \/ ClearFaults \/ MotionFinished
    BY <2>7 DEF RampStop, ClearFaults, MotionFinished
  <2>8. CASE Step \/ Arrive
    BY <2>3, <2>8 DEF Step, Arrive
  <2> QED
    BY <2>1, <2>2, <2>4, <2>5, <2>6, <2>7, <2>8 DEF Next
<1> QED
  BY <1>1, TypeCorrect, PTL DEF Spec, BeyondLimitsOnlyStacked

(* A velocity run turns the generator as the velocity asks, seen through    *)
(* the direction; the run keeps both.                                       *)
RunsAsAsked ==
  state = "RUNNING_VELOCITY" =>
    /\ asked \in Ints \ {0}
    /\ running = IF ToBackend(asked) > 0 THEN "forward" ELSE "backward"

LEMMA RunsAsAskedInductive ==
  ASSUME TypeOK, RunsAsAsked, [Next]_vars
  PROVE  RunsAsAsked'
<1> USE DEF RunsAsAsked, generator
<1>1. ASSUME NEW velocity \in Ints, RunVelocity(velocity)
      PROVE  RunsAsAsked'
  <2>1. UNCHANGED config /\ asked' = velocity /\ velocity # 0
    BY <1>1 DEF RunVelocity, Run
  <2>2. ToBackend(asked)' = ToBackend(velocity)
    BY <2>1 DEF ToBackend
  <2> QED BY <1>1, <2>1, <2>2 DEF RunVelocity, Run
<1>2. ASSUME UNCHANGED <<config, running, asked>>,
             state' = "RUNNING_VELOCITY" => state = "RUNNING_VELOCITY"
      PROVE  RunsAsAsked'
  BY <1>2 DEF ToBackend
<1>3. ASSUME NEW goal \in Ints, MoveAbs(goal) \/ MoveBeyondLimit(goal)
      PROVE  RunsAsAsked'
  BY <1>2, <1>3 DEF MoveAbs, MoveTo, MoveBeyondLimit
<1>4. ASSUME NEW delta \in Ints, NEW drift \in 0..MaxDrift, MoveRel(delta, drift)
      PROVE  RunsAsAsked'
  BY <1>4 DEF MoveRel, MoveTo
<1>5. ASSUME NEW new \in Configs, ApplyConfig(new)
      PROVE  RunsAsAsked'
  BY <1>5 DEF ApplyConfig, MotionStates
<1>6. CASE RampStop \/ ClearFaults \/ MotionFinished
  BY <1>6 DEF RampStop, ClearFaults, MotionFinished
<1>7. CASE Step \/ UNCHANGED vars
  BY <1>2, <1>7 DEF Step, vars
<1>8. CASE Arrive
  BY <1>8 DEF Arrive
<1> QED
  BY <1>1, <1>3, <1>4, <1>5, <1>6, <1>7, <1>8 DEF Next

(* A velocity run moves to the side that was asked for, whatever the        *)
(* direction, except where the position wraps (the handler of RUN_VEL,      *)
(* to_backend_value, from_backend_value).                                   *)
THEOREM RunsTheRightWay == Spec => DirectionAsAsked
<1>1. Init => RunsAsAsked
  BY DEF Init, RunsAsAsked
<1>2. TypeOK /\ RunsAsAsked /\ [Next]_vars =>
        [ Step /\ state = "RUNNING_VELOCITY" /\ {position, position'} \cap {-Half} = {} =>
            (asked > 0) = (FromBackend(position') > FromBackend(position)) ]_vars
  <2> SUFFICES ASSUME TypeOK, RunsAsAsked, Step, state = "RUNNING_VELOCITY",
                      position # -Half, position' # -Half
               PROVE  (asked > 0) = (FromBackend(position') > FromBackend(position))
    OBVIOUS
  <2>1. position \in Int /\ -Half < position /\ position < Half /\ Half \in Nat \ {0}
    BY LimitsAssumption DEF TypeOK, Ints
  <2>2. /\ asked \in Int /\ asked # 0 /\ config.inverted \in BOOLEAN
        /\ ToBackend(asked) = IF config.inverted THEN -asked ELSE asked
    BY LimitsAssumption DEF RunsAsAsked, TypeOK, Configs, ToBackend, Ints
  <2>3. position' = Ahead(1)
    BY DEF Step
  <2>4. CASE running = "forward"
    <3>1. position' = position + 1
      BY <2>1, <2>3, <2>4 DEF Ahead, Wrap
    <3>2. FromBackend(position') > FromBackend(position) <=> ~config.inverted
      BY <2>1, <2>2, <3>1 DEF FromBackend
    <3>3. asked > 0 <=> ~config.inverted
      BY <2>2, <2>4 DEF RunsAsAsked
    <3> QED BY <3>2, <3>3
  <2>5. CASE running = "backward"
    <3>1. position' = position - 1
      BY <2>1, <2>3, <2>5 DEF Ahead, Wrap
    <3>2. FromBackend(position') > FromBackend(position) <=> config.inverted
      BY <2>1, <2>2, <3>1 DEF FromBackend
    <3>3. asked > 0 <=> config.inverted
      BY <2>2, <2>5 DEF RunsAsAsked
    <3> QED BY <3>2, <3>3
  <2> QED BY <2>4, <2>5 DEF RunsAsAsked
<1>3. QED
  BY <1>1, <1>2, RunsAsAskedInductive, TypeCorrect, PTL DEF Spec, DirectionAsAsked

=============================================================================
