---------------------------- MODULE HostReceiver ----------------------------
(***************************************************************************)
(* The receive buffer of python/daft_protocol/transport_serial.py: bytes   *)
(* arrive in chunks, frames are cut off at the first delimiter, and a      *)
(* buffer that grows without one is thrown away.                           *)
(***************************************************************************)
EXTENDS SerialLine

CONSTANTS
  MaxRx,     (* the buffer may grow beyond this by one read; 256 in the code *)
  Chunk      (* bytes of one read; 128 in the code                           *)

VARIABLE rx  (* _rx *)

vars == <<lineVars, output, rx>>

Init == LineInit /\ rx = <<>>

Delimited == \E i \in DOMAIN rx : rx[i] = Delimiter

FirstDelimiter ==
  CHOOSE i \in DOMAIN rx : rx[i] = Delimiter /\ \A j \in 1..i - 1 : rx[j] # Delimiter

Cut == rx' = SubSeq(rx, FirstDelimiter + 1, Len(rx))

(* A frame without bytes is passed over. *)
SkipFrame ==
  /\ Delimited
  /\ FirstDelimiter = 1
  /\ rx' = Tail(rx)
  /\ UNCHANGED <<lineVars, output>>

TakeFrame ==
  /\ Delimited
  /\ FirstDelimiter > 1
  /\ Receive(SubSeq(rx, 1, FirstDelimiter - 1))
  /\ Cut
  /\ UNCHANGED lineVars

(* A buffer without a limit. *)
OverfullNever == FALSE

Overfull == ~Delimited /\ Len(rx) > MaxRx

Overflow ==
  /\ Overfull
  /\ rx' = <<>>
  /\ FrameError
  /\ UNCHANGED lineVars

(* read_packet reads on only when the buffer holds nothing to decode. *)
Read ==
  /\ ~Delimited
  /\ ~Overfull
  /\ \E n \in 1..Chunk :
       /\ n <= Len(line)
       /\ rx' = rx \o SubSeq(line, 1, n)
       /\ line' = SubSeq(line, n + 1, Len(line))
  /\ UNCHANGED <<sizes, damage, output>>

Next ==
  \/ LineNext /\ UNCHANGED rx
  \/ SkipFrame
  \/ TakeFrame
  \/ Overflow
  \/ Read

Spec == Init /\ [][Next]_vars

-----------------------------------------------------------------------------
(* Properties *)

(* The variables keep their ranges; the buffer stays small, though nothing  *)
(* but the overflow check bounds it.                                        *)
TypeOK ==
  /\ LineTypeOK
  /\ rx \in Seq(Bytes)
  /\ Len(rx) <= MaxRx + Chunk

Quiet == line = <<>> /\ rx = <<>>

=============================================================================
