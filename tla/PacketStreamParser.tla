------------------------- MODULE PacketStreamParser -------------------------
(***************************************************************************)
(* The framing of the test protocol: encoding a packet (Protocol.h,        *)
(* ControlProtocol.cpp) and finding the packets in a byte stream           *)
(* (PacketStreamParser.cpp).                                               *)
(*                                                                         *)
(* A byte is a small number.  A header has four: the start code, one for   *)
(* the fields that do not matter for the framing (sender, receiver, type,  *)
(* counter), the size of the payload and its checksum.                     *)
(***************************************************************************)
EXTENDS Integers, Sequences, Functions

CONSTANT MaxPayloadSize

ASSUME PayloadAssumption == MaxPayloadSize \in Nat

Byte == 0..7
StartCode == 7
HeaderSize == 4

Checksum(payload) == FoldFunction(+, 0, payload) % 8

Encode(payload) == <<StartCode, 0, Len(payload), Checksum(payload)>> \o payload

(* The parts of a packet that starts at byte i of b.                       *)
SizeAt(b, i) == b[i + 2]
EndAt(b, i) == i + HeaderSize + SizeAt(b, i)
PayloadAt(b, i) == SubSeq(b, i + HeaderSize, EndAt(b, i) - 1)

VerifyPacket(b, i) == Checksum(PayloadAt(b, i)) = b[i + 3]

HasHeader(b, i) == i + HeaderSize <= Len(b) + 1
Oversized(b, i) == SizeAt(b, i) > MaxPayloadSize
Complete(b, i) == EndAt(b, i) <= Len(b) + 1

(* Mutant of Resync: a bad packet is skipped as a whole.                   *)
ResyncBehind(b, i) == IF EndAt(b, i) <= Len(b) + 1 THEN EndAt(b, i) ELSE Len(b) + 1

(* After a bad start code or checksum one byte is dropped.                 *)
Resync(b, i) == i + 1

(* drainPackets(): the packets in the buffer b, the checksum failures, how *)
(* often the buffer was cleared, which is logged, and the bytes that stay. *)
(* An oversized header clears the buffer, whether or not it has the start  *)
(* code; a complete packet is awaited before the start code is looked at.  *)
DrainPackets(b) ==
  LET Stop(i) ==
        [packets |-> <<>>, failures |-> 0, clears |-> 0, rest |-> SubSeq(b, i, Len(b))]
      from[i \in 1..(Len(b) + 1)] ==
        IF ~ HasHeader(b, i) THEN Stop(i)
        ELSE IF Oversized(b, i) THEN [Stop(Len(b) + 1) EXCEPT !.clears = 1]
        ELSE IF ~ Complete(b, i) THEN Stop(i)
        ELSE IF b[i] # StartCode THEN from[Resync(b, i)]
        ELSE IF ~ VerifyPacket(b, i)
          THEN [from[Resync(b, i)] EXCEPT !.failures = @ + 1]
        ELSE [from[EndAt(b, i)] EXCEPT !.packets = <<PayloadAt(b, i)>> \o @]
  IN from[1]
=============================================================================
