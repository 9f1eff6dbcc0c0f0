----------------------------- MODULE SerialLine -----------------------------
(***************************************************************************)
(* Bytes between the host and the device, for the two receivers that cut   *)
(* them into frames (DeviceDecoder, HostReceiver).                         *)
(*                                                                         *)
(* A byte is named by the packet and the place in its encoding it comes    *)
(* from.  The encoding has no delimiter inside (Cobs), and a frame that is *)
(* not exactly what was encoded does not pass decode_packet: a CRC that    *)
(* matches by accident is left out.                                        *)
(***************************************************************************)
EXTENDS Naturals, Sequences

CONSTANTS
  Sizes,       (* encoded sizes of packets, without the delimiter           *)
  Delimiter,   (* the byte 0                                                *)
  Noise,       (* any other byte that is not what was sent                  *)
  MaxSent,     (* bound: packets sent                                       *)
  MaxDamage    (* bound: bytes lost, changed or added by the line           *)

ASSUME LineAssumption ==
  /\ Sizes \subseteq Nat \ {0}
  /\ MaxSent \in Nat
  /\ MaxDamage \in Nat

VARIABLES
  sizes,       (* the encoded sizes of the packets sent so far              *)
  line,        (* the bytes under way, the oldest first                     *)
  damage,      (* how often the line has failed                             *)
  delivered,   (* the packets the receiver has handed out                   *)
  errors       (* the broken frames it has counted                          *)

lineVars == <<sizes, line, damage>>
output == <<delivered, errors>>

Places == [packet : Nat \ {0}, place : Nat \ {0}]
Bytes == Places \cup {Delimiter, Noise}

ASSUME BytesAssumption == Delimiter \notin Places /\ Noise \notin Places

Encoding(packet, size) == [i \in 1..size |-> [packet |-> packet, place |-> i]]

(* A decode_packet that looks at neither the length nor the checksum. *)
IsPartOfPacket(bytes, packet) ==
  \A i \in DOMAIN bytes : bytes[i] \in [packet : {packet}, place : 1..sizes[packet]]

(* decode_packet accepts exactly the encodings. *)
IsPacket(bytes, packet) == bytes = Encoding(packet, sizes[packet])

LineInit ==
  /\ sizes = <<>>
  /\ line = <<>>
  /\ damage = 0
  /\ delivered = <<>>
  /\ errors = 0

(* serial_send, SerialTransport.write_packet *)
Send(size) ==
  /\ Len(sizes) < MaxSent
  /\ sizes' = Append(sizes, size)
  /\ line' = Append(line \o Encoding(Len(sizes) + 1, size), Delimiter)
  /\ UNCHANGED <<damage, output>>

Fail ==
  /\ damage < MaxDamage
  /\ damage' = damage + 1
  /\ UNCHANGED <<sizes, output>>

LoseByte(i) ==
  /\ line' = SubSeq(line, 1, i - 1) \o SubSeq(line, i + 1, Len(line))
  /\ Fail

ChangeByte(i) ==
  /\ \E byte \in {Delimiter, Noise} \ {line[i]} : line' = [line EXCEPT ![i] = byte]
  /\ Fail

AddByte(i) ==
  /\ \E byte \in {Delimiter, Noise} :
       line' = SubSeq(line, 1, i) \o <<byte>> \o SubSeq(line, i + 1, Len(line))
  /\ Fail

LineNext ==
  \/ \E size \in Sizes : Send(size)
  \/ \E i \in DOMAIN line : LoseByte(i) \/ ChangeByte(i) \/ AddByte(i)

-----------------------------------------------------------------------------
(* What a receiver makes of the bytes between two delimiters. *)

FrameError ==
  /\ errors' = errors + 1
  /\ UNCHANGED delivered

Deliver(packet) ==
  /\ delivered' = Append(delivered, packet)
  /\ UNCHANGED errors

Receive(bytes) ==
  \/ \E packet \in DOMAIN sizes : IsPacket(bytes, packet) /\ Deliver(packet)
  \/ (\A packet \in DOMAIN sizes : ~IsPacket(bytes, packet)) /\ FrameError

-----------------------------------------------------------------------------
(* Properties of any receiver *)

LineTypeOK ==
  /\ sizes \in Seq(Sizes)
  /\ line \in Seq(Bytes)
  /\ damage \in 0..MaxDamage
  /\ delivered \in Seq(DOMAIN sizes)
  /\ errors \in Nat

Lost == Len(sizes) - Len(delivered)

(* Packets come out in the order they went in, none twice and none that was *)
(* not sent, whatever the line loses, changes or adds.                      *)
InOrder ==
  \A i, j \in DOMAIN delivered : i < j => delivered[i] < delivered[j]

=============================================================================
