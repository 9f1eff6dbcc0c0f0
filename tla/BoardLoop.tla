----------------------------- MODULE BoardLoop ------------------------------
(***************************************************************************)
(* loop() of firmware/platforms/esp32_arduino/src/main.cpp and what it     *)
(* reads the clock for in firmware/src/actuator.cpp: the velocity watchdog *)
(* of update and the telemetry interval.  millis() wraps, bytes arrive and *)
(* milliseconds pass between any two steps, and service_serial does not    *)
(* return before the port is empty.                                        *)
(*                                                                         *)
(* A received byte may complete a packet, which may start or stop a        *)
(* velocity run, or a broken frame; the rest of a packet is Actuator's.    *)
(***************************************************************************)
EXTENDS Integers, FiniteSetsExt

CONSTANTS
  Wrap,       (* 2^32                                                       *)
  Timeout,    (* host_timeout_ms                                            *)
  Interval,   (* telemetry.interval_ms; 0 is off                            *)
  RxCap       (* bytes the port holds                                       *)

ASSUME TimesAssumption ==
  /\ Wrap \in Nat /\ Timeout \in 1..(Wrap - 2) /\ Interval \in 0..(Wrap - 1)
  /\ RxCap \in Nat \ {0}

VARIABLES
  phase,           (* where loop() is                                       *)
  now,             (* millis()                                              *)
  lastHost,        (* last_host_ms_                                         *)
  lastTelemetry,   (* last_telemetry_ms_                                    *)
  running,         (* state_ is RUNNING_VELOCITY                            *)
  rx,              (* bytes in the port                                     *)
  silence,         (* milliseconds since the last packet, in truth          *)
  gap              (* and since the last telemetry packet                   *)

clocks == <<now, silence, gap>>
vars == <<phase, clocks, lastHost, lastTelemetry, running, rx>>

(* The age as two plain numbers give it. *)
AgeSigned(stamp) == now - stamp

(* static_cast<uint32_t>(now - stamp) *)
Age(stamp) == (now - stamp) % Wrap

-----------------------------------------------------------------------------

(* setup() with begin. *)
Init ==
  /\ phase = "serial"
  /\ now \in 0..(Wrap - 1)
  /\ lastHost = now
  /\ lastTelemetry = now
  /\ running = FALSE
  /\ rx = 0
  /\ silence = 0
  /\ gap = 0

(* A packet that is answered and not stamped. *)
PacketUnstamped ==
  /\ running' \in BOOLEAN
  /\ silence' = 0
  /\ UNCHANGED lastHost

(* The byte completes a packet: handle_packet. *)
Packet ==
  /\ running' \in BOOLEAN
  /\ lastHost' = now
  /\ silence' = 0

(* It ends a broken frame: record_frame_error sets a fault. *)
FrameError == running' = FALSE /\ UNCHANGED <<lastHost, silence>>

(* service_serial, byte by byte. *)
ReadByte ==
  /\ phase = "serial" /\ rx > 0
  /\ rx' = rx - 1
  /\ Packet \/ FrameError \/ UNCHANGED <<running, lastHost, silence>>
  /\ UNCHANGED <<phase, now, gap, lastTelemetry>>

PortEmpty ==
  /\ phase = "serial" /\ rx = 0
  /\ phase' = "update"
  /\ UNCHANGED <<clocks, lastHost, lastTelemetry, running, rx>>

(* update *)
Update ==
  /\ phase = "update"
  /\ running' = (running /\ Age(lastHost) <= Timeout)
  /\ phase' = "telemetry"
  /\ UNCHANGED <<clocks, lastHost, lastTelemetry, rx>>

(* service_telemetry: should_send_telemetry *)
TelemetryDue ==
  /\ phase = "telemetry"
  /\ phase' = IF Interval # 0 /\ Age(lastTelemetry) >= Interval THEN "sending" ELSE "serial"
  /\ UNCHANGED <<clocks, lastHost, lastTelemetry, running, rx>>

(* send_telemetry reads the clock again when the packet is out. *)
TelemetrySent ==
  /\ phase = "sending"
  /\ lastTelemetry' = now
  /\ gap' = 0
  /\ phase' = "serial"
  /\ UNCHANGED <<now, silence, lastHost, running, rx>>

Loop == ReadByte \/ PortEmpty \/ Update \/ TelemetryDue \/ TelemetrySent

Arrive ==
  /\ rx < RxCap
  /\ rx' = rx + 1
  /\ UNCHANGED <<phase, clocks, lastHost, lastTelemetry, running>>

(* Bound: a velocity run is not left alone for a whole turn of the clock,   *)
(* 49 days; the true times are counted up to one turn.                      *)
Tick ==
  /\ running => silence < Wrap - 1
  /\ now' = (now + 1) % Wrap
  /\ silence' = Min({silence + 1, Wrap})
  /\ gap' = Min({gap + 1, Wrap})
  /\ UNCHANGED <<phase, lastHost, lastTelemetry, running, rx>>

Next == Loop \/ Arrive \/ Tick

Spec == Init /\ [][Next]_vars /\ WF_vars(Loop) /\ WF_vars(Tick)

-----------------------------------------------------------------------------
(* Properties *)

(* Nothing happens early, however often the clock has wrapped and whatever  *)
(* came in between: update ends a velocity run only after more than         *)
(* Timeout milliseconds without a packet, and telemetry keeps its distance. *)
NeverEarly ==
  [][/\ phase = "update" /\ running /\ ~running' => silence > Timeout
     /\ phase' = "sending" /\ phase # "sending" => gap >= Interval]_vars

(* The watchdog trips: once packets cease, a velocity run ends, provided    *)
(* that the port runs empty again and again.  A host that sends broken      *)
(* bytes without a pause keeps loop() from ever reaching update.            *)
WatchdogTrips ==
  []<>(phase = "update") => (running ~> (~running \/ silence = 0))

=============================================================================
