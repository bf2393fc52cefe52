---------------------------- MODULE PayloadBranch -----------------------------
(***************************************************************************)
(* The end of the receiver, from the hard bits of the payloads to the TUN  *)
(* device (packet_receiver.hpp, apps/packet_transceiver.cpp).              *)
(*                                                                         *)
(*   bits -> PackBits -> bytes -> CrcCheck -> checked -> PacketTypeFilter  *)
(*        -> user -> TaggedStreamToPdu -> pdus -> TunSink                  *)
(*                                                                         *)
(* The scheduler calls the blocks at any time, with what their links hold. *)
(* An item is a record: the packet it is of, its place in it and the       *)
(* length in its tag, 0 without.  That a CRC is right, and the type of a   *)
(* packet, go with the packet: good is what the bytes would say, user is   *)
(* what the tag says.                                                      *)
(***************************************************************************)
EXTENDS Integers, Sequences, SequencesExt

CONSTANTS
  InputsPerOutput,   (* bits of a byte                                     *)
  CrcSize,
  Lengths,           (* the lengths of the packets, in bytes with the CRC  *)
  Kinds,             (* the kinds of packets: "user", "idle" or "corrupt"  *)
  BitsCapacity,      (* bound: items in bits                               *)
  BytesCapacity,     (* bound: items in bytes                              *)
  CheckedCapacity,   (* bound: items in checked                            *)
  UserCapacity,      (* bound: items in user                               *)
  PdusCapacity,      (* bound: PDUs in pdus                                *)
  NumIds             (* bound: packets under way                           *)

VARIABLES
  packet, place,     (* ghost: the packet that arrives, and its bits so far *)
  bits, pack_failed,
  bytes, crc_packet_len, crc_failed,
  offered,           (* the first item of bytes was in an earlier call     *)
  checked, type_remaining, type_valid, type_failed,
  user, pdu_remaining, pdu_index, pdu_pdu, pdu_merged_tag, pdu_failed,
  pdus,
  pending,           (* ghost: packets not yet dropped or written          *)
  written            (* the PDU written last                               *)

crc_vars == <<crc_packet_len, crc_failed, offered>>
type_vars == <<type_remaining, type_valid, type_failed>>
pdu_vars == <<pdu_remaining, pdu_index, pdu_pdu, pdu_merged_tag, pdu_failed>>
vars == <<packet, place, bits, pack_failed, bytes, crc_vars, checked,
          type_vars, user, pdu_vars, pdus, pending, written>>

PACK == INSTANCE PackBits WITH failed <- pack_failed
CRC  == INSTANCE CrcCheck WITH packet_len <- crc_packet_len, failed <- crc_failed
TYPE == INSTANCE PacketTypeFilter
          WITH remaining <- type_remaining, valid <- type_valid, failed <- type_failed
PDU  == INSTANCE TaggedStreamToPdu
          WITH remaining <- pdu_remaining, index <- pdu_index, pdu <- pdu_pdu,
               merged_tag <- pdu_merged_tag, failed <- pdu_failed

Packets ==
  {[id |-> id, len |-> len, good |-> kind # "corrupt", user |-> kind # "idle"] :
     id \in 1 .. NumIds, len \in Lengths, kind \in Kinds}

(* CrcCheck waits until it sees a whole packet, and the runtime offers a   *)
(* block as many items as there are in its input and places in its output: *)
(* both links hold the longest packet.                                     *)
ASSUME BranchAssumption ==
  /\ InputsPerOutput \in Nat \ {0} /\ CrcSize \in Nat
  /\ Kinds \subseteq {"user", "idle", "corrupt"} /\ Kinds # {}
  /\ Lengths \subseteq Nat /\ Lengths # {} /\ \A len \in Lengths : len > CrcSize
  /\ BitsCapacity \in Nat /\ BitsCapacity >= InputsPerOutput
  /\ BytesCapacity \in Nat /\ CheckedCapacity \in Nat
  /\ \A len \in Lengths : len <= BytesCapacity /\ len <= CheckedCapacity
  /\ UserCapacity \in Nat \ {0} /\ PdusCapacity \in Nat \ {0}
  /\ NumIds \in Nat \ {0}

-----------------------------------------------------------------------------
From(seq, k) == SubSeq(seq, k + 1, Len(seq))

Lesser(a, b) == IF a <= b THEN a ELSE b

(* A chunk of a synchronous input ends before the next tag. *)
Chunk(link, n) == n <= Len(link) /\ \A i \in 2 .. n : link[i].bits = 0

AllBits(p) == p.len * InputsPerOutput

(* The next bit of the payloads; HeaderPayloadSplit and BinarySlicer.  A   *)
(* packet is announced with its length in bits, a multiple of a byte.      *)
Receive(p) ==
  /\ Len(bits) < BitsCapacity
  /\ IF place = AllBits(packet)
       THEN /\ p.id = (packet.id % NumIds) + 1
            /\ \A k \in DOMAIN pending : pending[k].id # p.id
            /\ packet' = p /\ place' = 1
            /\ bits' = Append(bits, [of |-> p, place |-> 1, bits |-> AllBits(p)])
            /\ pending' = Append(pending, p)
       ELSE /\ p = packet
            /\ place' = place + 1
            /\ bits' = Append(bits, [of |-> packet, place |-> place', bits |-> 0])
            /\ UNCHANGED <<packet, pending>>
  /\ UNCHANGED <<pack_failed, bytes, crc_vars, checked, type_vars, user, pdu_vars,
                 pdus, written>>

(* One call of PackBits; the runtime offers whole bytes. *)
Pack(count) ==
  LET n == count * InputsPerOutput
  IN /\ Chunk(bits, n)
     /\ Len(bytes) + count <= BytesCapacity
     /\ \E published \in {PACK!Packed(SubSeq(bits, 1, n)), <<>>} :
          /\ PACK!ProcessBulk(SubSeq(bits, 1, n), published)
          /\ bytes' = bytes \o published
          /\ bits' = From(bits, Len(published) * InputsPerOutput)
     /\ UNCHANGED <<packet, place, crc_vars, checked, type_vars, user, pdu_vars,
                    pdus, pending, written>>

Without(p) == RemoveFirst(pending, p)

(* One call of CrcCheck.  The comments of the blocks do not agree on       *)
(* whether a tag is offered again with an item that was not consumed: it   *)
(* may be or not.                                                          *)
Check(n) ==
  /\ Chunk(bytes, n)
  /\ Len(checked) + n <= CheckedCapacity
  /\ \E tag \in {bytes[1].bits} \cup (IF offered THEN {0} ELSE {}),
        consumed \in 0 .. n, published \in 0 .. n :
       /\ CRC!ProcessBulk(tag, n, bytes[1].of.good, n, consumed, published)
       /\ checked' = checked
            \o [i \in 1 .. published |->
                 [bytes[i] EXCEPT !.bits = IF i = 1 THEN CRC!TagOut(tag) ELSE 0]]
       /\ bytes' = From(bytes, consumed)
       /\ offered' = (consumed = 0)
       /\ pending' = IF consumed > 0 /\ published = 0 THEN Without(bytes[1].of)
                                                      ELSE pending
  /\ UNCHANGED <<packet, place, bits, pack_failed, type_vars, user, pdu_vars,
                 pdus, written>>

(* One call of PacketTypeFilter. *)
Filter(n) ==
  /\ Chunk(checked, n)
  /\ Len(user) + n <= UserCapacity
  /\ \E consumed \in 0 .. n :
       /\ TYPE!ProcessBulk(checked[1].bits, n, checked[1].of.user, consumed)
       /\ LET passes == TYPE!Passes(checked[1].of.user)
          IN /\ user' = IF passes THEN user \o SubSeq(checked, 1, consumed) ELSE user
             /\ pending' = IF ~passes /\ TYPE!AtStart THEN Without(checked[1].of)
                                                      ELSE pending
       /\ checked' = From(checked, consumed)
  /\ UNCHANGED <<packet, place, bits, pack_failed, bytes, crc_vars, pdu_vars,
                 pdus, written>>

(* One call of TaggedStreamToPdu, with as many items as there are places   *)
(* for PDUs in its output.                                                 *)
ToPdu(n) ==
  /\ Chunk(user, n)
  /\ Len(pdus) + n <= PdusCapacity
  /\ LET chunk == SubSeq(user, 1, n)
     IN \E consumed \in 0 .. n, published \in {<<>>, <<PDU!Collected(chunk)>>} :
          /\ PDU!ProcessBulk(chunk, consumed, published)
          /\ pdus' = pdus \o published
          /\ user' = From(user, consumed)
  /\ UNCHANGED <<packet, place, bits, pack_failed, bytes, crc_vars, checked,
                 type_vars, pending, written>>

(* TunSink::processOne; a write that fails is reported and forgotten. *)
Write ==
  /\ pdus # <<>>
  /\ LET pdu == Head(pdus)
         plain == [i \in DOMAIN pdu.data |->
                    [of |-> pdu.data[i].of, place |-> pdu.data[i].place]]
     IN written' \in {written, [pdu EXCEPT !.data = plain]}
  /\ pdus' = Tail(pdus)
  /\ pending' = Tail(pending)
  /\ UNCHANGED <<packet, place, bits, pack_failed, bytes, crc_vars, checked,
                 type_vars, user, pdu_vars>>

ReceiveStep == \E p \in Packets : Receive(p)
PackStep    == \E count \in 1 .. BytesCapacity : Pack(count)
CheckStep   == \E n \in 1 .. BytesCapacity : Check(n)
FilterStep  == \E n \in 1 .. UserCapacity : Filter(n)
PduStep     == \E n \in 1 .. PdusCapacity : ToPdu(n)

Next == ReceiveStep \/ PackStep \/ CheckStep \/ FilterStep \/ PduStep \/ Write

Init ==
  /\ packet = (CHOOSE p \in Packets : p.id = NumIds) /\ place = AllBits(packet)
  /\ bits = <<>> /\ bytes = <<>> /\ checked = <<>> /\ user = <<>> /\ pdus = <<>>
  /\ PACK!Init /\ CRC!Init /\ TYPE!Init /\ PDU!Init /\ offered = FALSE
  /\ pending = <<>> /\ written = PDU!EmptyPdu

(* The scheduler calls the blocks again and again: if some block can do    *)
(* something, some block will.  A call that changes nothing, like one of   *)
(* CrcCheck on a part of a packet, is no step.                             *)
Fairness == WF_vars(Next)

Spec == Init /\ [][Next]_vars
FairSpec == Spec /\ Fairness

-----------------------------------------------------------------------------
Item == [of : Packets, place : Nat, bits : Nat]

TypeOK ==
  /\ packet \in Packets /\ place \in 1 .. AllBits(packet)
  /\ bits \in Seq(Item) /\ Len(bits) <= BitsCapacity
  /\ bytes \in Seq(Item) /\ Len(bytes) <= BytesCapacity
  /\ checked \in Seq(Item) /\ Len(checked) <= CheckedCapacity
  /\ user \in Seq(Item) /\ Len(user) <= UserCapacity
  /\ Len(pdus) <= PdusCapacity /\ Len(pending) <= NumIds
  /\ crc_packet_len \in Lengths \cup {0} /\ offered \in BOOLEAN
  /\ type_remaining \in Nat /\ type_valid \in BOOLEAN
  /\ pdu_remaining \in Nat /\ pdu_index \in Nat
  /\ pdu_pdu.data \in Seq(Item) /\ pdu_merged_tag \in Seq(Item)
  /\ {pack_failed, crc_failed, type_failed, pdu_failed} \subseteq BOOLEAN

(* Besides the types: every block finds a length where it looks for it and *)
(* never one that is not whole bytes: none of them stops the graph         *)
(* (pack_bits.hpp:107, crc_check.hpp:123, packet_type_filter.hpp:68,       *)
(* tagged_stream_to_pdu.hpp:89).                                           *)
NoBlockFails ==
  TypeOK /\ ~pack_failed /\ ~crc_failed /\ ~type_failed /\ ~pdu_failed

Delivery == INSTANCE PacketDelivery

(* The packets of users with a right CRC are written whole and in order,   *)
(* with their own tag and no other, and no other packet is.                *)
WritesWantedPackets == Delivery!Spec

(* No packet stays in the branch: it is dropped or written, provided that  *)
(* both links of CrcCheck hold it whole (crc_check.hpp:139).               *)
EveryPacketDecided ==
  \A id \in 1 .. NumIds :
    (\E k \in DOMAIN pending : pending[k].id = id)
       ~> ~(\E k \in DOMAIN pending : pending[k].id = id)
=============================================================================
