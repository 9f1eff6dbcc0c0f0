-------------------------- MODULE BoardLoopProofs ---------------------------
(***************************************************************************)
(* A theorem about BoardLoop: the wrap of the clock is invisible, for a    *)
(* clock of every width and every timeout and interval that fits into it.  *)
(***************************************************************************)
EXTENDS BoardLoop, TLAPS

LEMMA MinOfTwo ==
  ASSUME NEW a \in Int, NEW b \in Int
  PROVE  Min({a, b}) = IF a <= b THEN a ELSE b
BY DEF Min

(* Counting within one turn.                                                *)
LEMMA AgeCases ==
  ASSUME now \in 0..(Wrap - 1), NEW stamp \in 0..(Wrap - 1)
  PROVE  Age(stamp) = IF stamp <= now THEN now - stamp ELSE now - stamp + Wrap
BY TimesAssumption DEF Age


(* The clock a millisecond later.                                           *)
LEMMA ClockStep ==
  ASSUME now \in 0..(Wrap - 1), now' = (now + 1) % Wrap
  PROVE  now' = IF now = Wrap - 1 THEN 0 ELSE now + 1
<1>1. CASE now = Wrap - 1
  BY <1>1, TimesAssumption
<1>2. CASE now # Wrap - 1
  BY <1>2, TimesAssumption
<1> QED BY <1>1, <1>2

(* A stamp and the time since, saturated at one turn, tell the same as long *)
(* as it is less than a turn.                                               *)
Agrees(clock, stamp, since) ==
  since < Wrap =>
    since = IF stamp <= clock THEN clock - stamp ELSE clock - stamp + Wrap

ClockInv ==
  /\ now \in 0..(Wrap - 1)
  /\ lastHost \in 0..(Wrap - 1) /\ silence \in 0..Wrap
  /\ lastTelemetry \in 0..(Wrap - 1) /\ gap \in 0..Wrap
  /\ Agrees(now, lastHost, silence)
  /\ Agrees(now, lastTelemetry, gap)

LEMMA TickAgrees ==
  ASSUME NEW clock \in 0..(Wrap - 1), NEW stamp \in 0..(Wrap - 1), NEW since \in 0..Wrap,
         Agrees(clock, stamp, since)
  PROVE  Agrees(IF clock = Wrap - 1 THEN 0 ELSE clock + 1, stamp,
                IF since + 1 <= Wrap THEN since + 1 ELSE Wrap)
BY TimesAssumption DEF Agrees

LEMMA ClockHolds == Spec => []ClockInv
<1>1. Init => ClockInv
  BY TimesAssumption DEF Init, ClockInv, Agrees
<1>2. ClockInv /\ [Next]_vars => ClockInv'
  <2> SUFFICES ASSUME ClockInv, [Next]_vars
               PROVE  ClockInv'
    OBVIOUS
  <2> USE DEF ClockInv, clocks
  <2>1. Agrees(now, now, 0) /\ 0 \in 0..Wrap
    BY TimesAssumption DEF Agrees
  <2>2. CASE ReadByte
    BY <2>1, <2>2 DEF ReadByte, Packet, FrameError
  <2>3. CASE PortEmpty
    BY <2>3 DEF PortEmpty
  <2>4. CASE Update
    BY <2>4 DEF Update
  <2>5. CASE TelemetryDue
    BY <2>5 DEF TelemetryDue
  <2>6. CASE TelemetrySent
    BY <2>1, <2>6 DEF TelemetrySent
  <2>7. CASE Arrive
    BY <2>7 DEF Arrive
  <2>8. CASE Tick
    <3>1. now' = IF now = Wrap - 1 THEN 0 ELSE now + 1
      BY <2>8, ClockStep DEF Tick
    <3>2. /\ silence' = IF silence + 1 <= Wrap THEN silence + 1 ELSE Wrap
          /\ gap' = IF gap + 1 <= Wrap THEN gap + 1 ELSE Wrap
      BY <2>8, MinOfTwo, TimesAssumption DEF Tick
    <3>3. now' \in 0..(Wrap - 1) /\ silence' \in 0..Wrap /\ gap' \in 0..Wrap
      BY <3>1, <3>2, TimesAssumption
    <3>4. Agrees(now', lastHost, silence') /\ Agrees(now', lastTelemetry, gap')
      BY <3>1, <3>2, TickAgrees
    <3> QED BY <2>8, <3>3, <3>4 DEF Tick
  <2>9. CASE UNCHANGED vars
    BY <2>9 DEF vars
  <2> QED
    BY <2>2, <2>3, <2>4, <2>5, <2>6, <2>7, <2>8, <2>9 DEF Next, Loop
<1> QED BY <1>1, <1>2, PTL DEF Spec

(* An age as the code computes it is never more than the true one.          *)
LEMMA AgeIsTrue ==
  ASSUME ClockInv
  PROVE  Age(lastHost) <= silence /\ Age(lastTelemetry) <= gap
BY AgeCases, TimesAssumption DEF ClockInv, Agrees

(* update ends no velocity run before the timeout, and telemetry keeps its  *)
(* distance (update, should_send_telemetry), however often millis() wraps.  *)
THEOREM NothingEarly == Spec => NeverEarly
<1>1. ClockInv /\ [Next]_vars =>
        [/\ phase = "update" /\ running /\ ~running' => silence > Timeout
         /\ phase' = "sending" /\ phase # "sending" => gap >= Interval]_vars
  <2> SUFFICES ASSUME ClockInv, Next
               PROVE  /\ phase = "update" /\ running /\ ~running' => silence > Timeout
                      /\ phase' = "sending" /\ phase # "sending" => gap >= Interval
    OBVIOUS
  <2>1. ASSUME phase = "update", running, ~running'
        PROVE  silence > Timeout
    <3>1. Update
      BY <2>1 DEF Next, Loop, ReadByte, PortEmpty, TelemetryDue, TelemetrySent, Arrive, Tick
    <3>2. ~(Age(lastHost) <= Timeout)
      BY <2>1, <3>1 DEF Update
    <3> QED BY <3>2, AgeIsTrue, AgeCases, TimesAssumption DEF ClockInv
  <2>2. ASSUME phase' = "sending", phase # "sending"
        PROVE  gap >= Interval
    <3>1. TelemetryDue
      BY <2>2 DEF Next, Loop, ReadByte, PortEmpty, Update, TelemetrySent, Arrive, Tick
    <3>2. Age(lastTelemetry) >= Interval
      BY <2>2, <3>1 DEF TelemetryDue
    <3> QED BY <3>2, AgeIsTrue, AgeCases, TimesAssumption DEF ClockInv
  <2> QED BY <2>1, <2>2
<1> QED BY <1>1, ClockHolds, PTL DEF Spec, NeverEarly

=============================================================================
