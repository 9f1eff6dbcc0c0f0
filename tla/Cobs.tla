-------------------------------- MODULE Cobs --------------------------------
(***************************************************************************)
(* The byte stuffing of firmware/src/cobs.cpp, which                       *)
(* python/daft_protocol/codec.py repeats: data without restriction becomes *)
(* bytes without a 0.  A block is a code and code - 1 bytes that are not   *)
(* 0; a code below Block stands for a 0 after them, except at the end.     *)
(***************************************************************************)
EXTENDS Naturals, Sequences

CONSTANTS
  Block,      (* 0xFF: the code of a block with no 0 after it *)
  Failure

ASSUME BlockAssumption == Block \in Nat /\ Block > 1

ASSUME FailureAssumption == Failure \notin Seq(Nat)

(* cobs_encode walks over the data with the bytes written so far, the place *)
(* of the open block's code, and that code.                                 *)
Start == [out |-> <<0>>, at |-> 1, code |-> 1]

Written(s) == [s.out EXCEPT ![s.at] = s.code]

OpenBlock(out) == [out |-> Append(out, 0), at |-> Len(out) + 1, code |-> 1]

(* A byte taken into the open block. *)
Longer(s, byte) == [out |-> Append(s.out, byte), at |-> s.at, code |-> s.code + 1]

(* A byte that is not 0 and fills its block closes it at once. *)
EncodeByte(s, byte) ==
  CASE byte = 0 -> OpenBlock(Written(s))
    [] byte # 0 /\ s.code + 1 = Block -> OpenBlock(Written(Longer(s, byte)))
    [] OTHER -> Longer(s, byte)

(* The bytes written once i bytes of data have been read. *)
Walk(data) ==
  LET after[i \in 0..Len(data)] ==
        IF i = 0 THEN Start ELSE EncodeByte(after[i - 1], data[i])
  IN  after

(* Every byte and every code is checked before it is written. *)
StepFits(s, next, capacity) ==
  /\ Len(s.out) < capacity
  /\ Len(next.out) > Len(s.out) + 1 => Len(s.out) + 1 < capacity

(* cobs_encode; a failure is the length 0 in the code. *)
Encode(data, capacity) ==
  LET after == Walk(data)
  IN  IF /\ capacity > 0
         /\ \A i \in 1..Len(data) : StepFits(after[i - 1], after[i], capacity)
      THEN Written(after[Len(data)])
      ELSE Failure

(* A 0 after every block but the last. *)
ZeroWhenMore(code, more) == IF more THEN <<0>> ELSE <<>>

ZeroAfter(code, more) == IF code < Block /\ more THEN <<0>> ELSE <<>>

(* A block, and what is made of the frame behind it. *)
DecodeBlock(frame, i, from) ==
  LET code == frame[i]
  IN  IF code = 0 \/ i + code - 1 > Len(frame) THEN Failure
      ELSE IF from[i + code] = Failure THEN Failure
      ELSE SubSeq(frame, i + 1, i + code - 1)
             \o ZeroAfter(code, i + code <= Len(frame))
             \o from[i + code]

(* What is made of the frame from every place on. *)
Rest(frame) ==
  LET from[i \in 1..Len(frame) + 1] ==
        IF i > Len(frame) THEN <<>> ELSE DecodeBlock(frame, i, from)
  IN  from

(* cobs_decode *)
Decode(frame, capacity) ==
  LET data == Rest(frame)[1]
  IN  IF data # Failure /\ Len(data) <= capacity THEN data ELSE Failure

=============================================================================
