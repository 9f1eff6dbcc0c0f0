----------------------------- MODULE MCFraming ------------------------------
(***************************************************************************)
(* Framing for TLC, and with it the byte stuffing (Cobs) over all inputs   *)
(* up to a length, which are put together in `frame'.                      *)
(***************************************************************************)
EXTENDS Framing, Cobs

CONSTANT MaxLength   (* bound: bytes put into Cobs *)

ASSUME LengthAssumption == MaxLength \in Nat

CodecInit == Init /\ side = "codec"

AddInput ==
  /\ side = "codec"
  /\ Len(frame) < MaxLength
  /\ \E byte \in 0..Block : frame' = Append(frame, byte)
  /\ UNCHANGED <<lineVars, output, side>>

MCInit == FramingInit \/ CodecInit

MCNext == FramingNext \/ AddInput

MCSpec == MCInit /\ [][MCNext]_framingVars

-----------------------------------------------------------------------------
(* Properties of the byte stuffing *)

Enough == 2 * MaxLength + 2

(* Data come back as they went in, with no 0 on the way that would end the  *)
(* frame early; and of the frames that hold no 0 the decoder takes nothing  *)
(* but encodings, except that an empty last block may be missing after a    *)
(* full one: no other two frames are read alike (cobs_encode, cobs_decode). *)
RoundTrip ==
  LET encoded == Encode(frame, Enough)
      data == Decode(frame, Enough)
  IN  /\ Decode(encoded, Len(frame)) = frame
      /\ \A i \in DOMAIN encoded : encoded[i] # 0
      /\ (\A i \in DOMAIN frame : frame[i] # 0) /\ data # Failure =>
           Encode(data, Enough) \in {frame, Append(frame, 1)}

(* The encoding is at most one byte longer than the data and one more for   *)
(* every full block (MAX_FRAME_SIZE relies on it), and cobs_encode fails if *)
(* and only if it does not fit.                                             *)
FitsOrFails ==
  LET encoded == Encode(frame, Enough)
  IN  /\ Len(encoded) <= Len(frame) + 1 + Len(frame) \div (Block - 1)
      /\ \A capacity \in 0..Enough :
           Encode(frame, capacity) =
             IF Len(encoded) <= capacity THEN encoded ELSE Failure

(* Both, for every content of a frame up to the bound.                      *)
StuffingFaithful == side = "codec" => RoundTrip /\ FitsOrFails

=============================================================================
