--------------------------- MODULE DeviceDecoder ----------------------------
(***************************************************************************)
(* FramingDecoder of firmware/src/protocol_v2.cpp: service_serial feeds it *)
(* byte by byte; it hands out packets, and frame errors that end up as     *)
(* faults (record_frame_error).                                            *)
(***************************************************************************)
EXTENDS SerialLine

CONSTANT MaxFrame   (* MAX_FRAME_SIZE *)

(* MAX_FRAME_SIZE leaves room for the longest packet. *)
ASSUME FrameAssumption ==
  /\ MaxFrame \in Nat
  /\ \A size \in Sizes : size <= MaxFrame

VARIABLE frame      (* the first frame_len_ bytes of frame_ *)

vars == <<lineVars, output, frame>>

Init == LineInit /\ frame = <<>>

Take ==
  /\ line # <<>>
  /\ line' = Tail(line)
  /\ UNCHANGED <<sizes, damage>>

(* A delimiter without a frame before it. *)
SkipDelimiter ==
  /\ Take
  /\ Head(line) = Delimiter
  /\ frame = <<>>
  /\ UNCHANGED <<output, frame>>

(* consume without frame_len_ = 0 after a frame that did not decode. *)
EndFrameKept ==
  /\ Take
  /\ Head(line) = Delimiter
  /\ frame # <<>>
  /\ Receive(frame)
  /\ frame' = IF errors' > errors THEN frame ELSE <<>>

EndFrame ==
  /\ Take
  /\ Head(line) = Delimiter
  /\ frame # <<>>
  /\ Receive(frame)
  /\ frame' = <<>>

(* The buffer is full. *)
Full == Len(frame) >= MaxFrame

(* An overlong frame dropped without a word. *)
OverflowSilently ==
  /\ Take
  /\ Head(line) # Delimiter
  /\ Full
  /\ frame' = <<>>
  /\ UNCHANGED output

(* A full buffer is dropped together with the byte that does not fit, and   *)
(* what follows is taken for a new frame.                                   *)
Overflow ==
  /\ Take
  /\ Head(line) # Delimiter
  /\ Full
  /\ frame' = <<>>
  /\ FrameError

Store ==
  /\ Take
  /\ Head(line) # Delimiter
  /\ ~Full
  /\ frame' = Append(frame, Head(line))
  /\ UNCHANGED output

Next ==
  \/ LineNext /\ UNCHANGED frame
  \/ SkipDelimiter
  \/ EndFrame
  \/ Overflow
  \/ Store

Spec == Init /\ [][Next]_vars

-----------------------------------------------------------------------------
(* Properties *)

(* The variables keep their ranges; what is put into frame_ fits into it.   *)
TypeOK ==
  /\ LineTypeOK
  /\ frame \in Seq(Bytes \ {Delimiter})
  /\ Len(frame) <= MaxFrame

Quiet == line = <<>> /\ frame = <<>>

=============================================================================
