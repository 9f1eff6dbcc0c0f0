------------------------------ MODULE Framing -------------------------------
(***************************************************************************)
(* Framing on both ends of the line.  A behaviour is about one of the two: *)
(* the device's decoder (DeviceDecoder) or the host's receive buffer       *)
(* (HostReceiver), which share the line; `frame' is the buffer of either.  *)
(***************************************************************************)
EXTENDS DeviceDecoder

CONSTANTS MaxRx, Chunk   (* of HostReceiver *)

(* RX_BUFFER_LIMIT is larger than a whole frame. *)
ASSUME RxAssumption ==
  /\ MaxRx \in Nat
  /\ Chunk \in Nat \ {0}
  /\ \A size \in Sizes : size <= MaxRx

VARIABLE side

framingVars == <<vars, side>>

Host == INSTANCE HostReceiver WITH rx <- frame

FramingInit ==
  /\ Init
  /\ side \in {"device", "host"}

FramingNext ==
  /\ \/ side = "device" /\ Next
     \/ side = "host" /\ Host!Next
  /\ UNCHANGED side

FramingSpec == FramingInit /\ [][FramingNext]_framingVars

-----------------------------------------------------------------------------
(* Properties of the two receivers *)

(* The variables keep their ranges, and both buffers stay as small as the   *)
(* code means them to be: frame_ is never overrun, and _rx exceeds its      *)
(* limit by one read at most.                                               *)
BuffersBounded ==
  /\ side = "device" => TypeOK
  /\ side = "host" => Host!TypeOK

(* One failure of the line costs the frame it hits and at most one more:    *)
(* when frames run together and fill the decoder's buffer, and when the     *)
(* host throws its buffer away in the middle of a frame.                    *)
DamageIsLocal == Quiet => Lost <= 2 * damage

(* Frame errors tell the truth: none without a failure of the line (it      *)
(* would set a fault in the device), and no packet is lost without one as   *)
(* long as the line does not swallow whole frames.                          *)
ErrorsTellDamage ==
  /\ errors > 0 => damage > 0
  /\ Quiet /\ Lost > 0 => errors > 0 \/ \E size \in Sizes : damage >= size

=============================================================================
