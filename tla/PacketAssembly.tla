---------------------------- MODULE PacketAssembly ----------------------------
(***************************************************************************)
(* The front of the transmitter (packet_transmitter.hpp): a packet is      *)
(* split into its header and its payload, which take different ways and    *)
(* meet again in the multiplexer.                                          *)
(*                                                                         *)
(*            +- metadata -> Format - plain -> Encode - headers -+         *)
(*   Ingress -+                                                  +-> Mux   *)
(*            +-- data ------------> Crc ------------- payload --+         *)
(*                                                                         *)
(* The processes are PacketIngress, HeaderFormatter, HeaderFecEncoder,     *)
(* CrcAppend and PacketMux, which the scheduler calls at any time; links   *)
(* are bounded FIFO buffers.  The two ways carry nothing that tells which  *)
(* header belongs to which payload: the multiplexer joins them by order.   *)
(*                                                                         *)
(* An item is a record: the packet it is of, the part of the frame it is   *)
(* in, its place in that part and the length in its tag, 0 without.  The   *)
(* packet is ghost data, except that a message and a header carry its len. *)
(***************************************************************************)
EXTENDS Integers, Sequences

CONSTANTS
  HeaderSize, CrcSize,
  MaxLength,         (* the longest packet that a header can announce      *)
  Lengths,           (* the lengths of the packets that are sent           *)
  EmptySpans,        (* TRUE: CrcAppend, whose output is asynchronous, is  *)
                     (* called without space, or within a packet without   *)
                     (* items                                              *)
  MetadataCapacity,  (* bound: messages in metadata                        *)
  DataCapacity,      (* bound: items in data                               *)
  PlainCapacity,     (* bound: headers in plain                            *)
  HeadersCapacity,   (* bound: items in headers                            *)
  PayloadCapacity,   (* bound: items in payload                            *)
  MaxSpace,          (* bound: output space of a call of Mux               *)
  NumIds             (* bound: identities, reused in a circle              *)

VARIABLES
  in_remaining, in_valid, in_failed,
  packet,            (* ghost: the packet at the ingress                   *)
  metadata,          (* messages: the packets that they announce           *)
  data,              (* items of the accepted packets                      *)
  plain,             (* headers that are not coded yet: their packets      *)
  crc_data_remaining, crc_failed,
  headers, payload,  (* items of coded headers, and of payloads with CRC   *)
  payload_tag,       (* a tag in payload whose item is not there yet       *)
  mux_packet_lens, mux_current_input, mux_remaining, mux_failed,
  out,               (* the items that Mux published last                  *)
  accepted           (* ghost: packets accepted and not yet sent           *)

in_vars == <<in_remaining, in_valid, in_failed, packet>>
crc_vars == <<crc_data_remaining, crc_failed>>
mux_vars == <<mux_packet_lens, mux_current_input, mux_remaining, mux_failed>>
header_vars == <<metadata, plain, headers>>
vars == <<in_vars, header_vars, data, crc_vars, payload, payload_tag,
          mux_vars, out, accepted>>

ING == INSTANCE PacketIngress
        WITH remaining <- in_remaining, valid <- in_valid, failed <- in_failed

CRC == INSTANCE CrcAppend
         WITH data_remaining <- crc_data_remaining, failed <- crc_failed

MUX == INSTANCE PacketMux
         WITH NumInputs <- 2, packet_lens <- mux_packet_lens,
              current_input <- mux_current_input, remaining <- mux_remaining,
              failed <- mux_failed

Ids == 1 .. NumIds
Packets == [id : Ids, len : Lengths]

(* The links have room for a CRC and an item, and for a coded header; and  *)
(* a packet whose message has not been taken from metadata is still in     *)
(* data or in payload, which hold no more packets than metadata.           *)
ASSUME AssemblyAssumption ==
  /\ HeaderSize \in Nat \ {0} /\ CrcSize \in Nat \ {0}
  /\ MaxLength \in Nat /\ Lengths \subseteq Nat \ {0} /\ Lengths # {}
  /\ MaxSpace \in Nat /\ MetadataCapacity \in Nat /\ NumIds \in Nat \ {0}
  /\ EmptySpans \in BOOLEAN
  /\ PlainCapacity \in Nat \ {0}
  /\ DataCapacity \in Nat \ {0} /\ HeadersCapacity \in Nat
  /\ PayloadCapacity \in Nat
  /\ HeaderSize <= HeadersCapacity
  /\ CrcSize < PayloadCapacity
  /\ DataCapacity + (PayloadCapacity \div (CrcSize + 1)) < MetadataCapacity

-----------------------------------------------------------------------------
NextId == (packet.id % NumIds) + 1

From(seq, k) == SubSeq(seq, k + 1, Len(seq))

TagAt(seq) == IF seq = <<>> THEN 0 ELSE seq[1].bits

(* The items from place start on, with the tag bits on the first of them. *)
Items(p, part, start, count, bits) ==
  [i \in 1 .. count |->
     [of |-> p, part |-> part, place |-> start + i - 1,
      bits |-> IF i = 1 THEN bits ELSE 0]]

(* Only the first item of a chunk of a synchronous input can have a tag. *)
DataChunk(n) == n <= Len(data) /\ \A i \in 2 .. n : data[i].bits = 0

(* One call of PacketIngress; a chunk does not reach into the next packet. *)
Ingress(length, n) ==
  /\ n <= ING!Left(length)
  /\ Len(data) + n <= DataCapacity
  /\ \E consumed \in 0 .. n :
       /\ ING!ProcessBulk(length, n, Len(metadata) < MetadataCapacity, consumed)
       /\ LET opens == ING!AtStart /\ consumed > 0
              start == packet.len - in_remaining + 1
          IN /\ packet' = CASE opens /\ ING!Fits(length)  -> [id |-> NextId, len |-> length]
                            [] opens /\ ~ING!Fits(length) -> [packet EXCEPT !.len = length]
                            [] ~opens                     -> packet
             /\ data' = IF consumed > 0 /\ ING!Passes(length)
                          THEN data \o (IF opens
                                          THEN Items(packet', "payload", 1, consumed, length)
                                          ELSE Items(packet, "payload", start, consumed, 0))
                          ELSE data
             /\ metadata' = IF opens /\ ING!Sends(length)
                              THEN Append(metadata, packet') ELSE metadata
             /\ accepted' = IF opens /\ ING!Fits(length)
                              THEN Append(accepted, packet') ELSE accepted
  /\ UNCHANGED <<crc_vars, plain, headers, payload, payload_tag, mux_vars, out>>

(* One call of HeaderFormatter. *)
Format(count) ==
  /\ count <= Len(metadata)
  /\ Len(plain) + count <= PlainCapacity
  /\ plain' = plain \o SubSeq(metadata, 1, count)
  /\ metadata' = From(metadata, count)
  /\ UNCHANGED <<in_vars, headers, data, crc_vars, payload, payload_tag,
                 mux_vars, out, accepted>>

(* One call of HeaderFecEncoder: every header has a tag, so a chunk is one *)
(* header.  Without room for its codeword the call does nothing.           *)
Encode ==
  /\ plain # <<>>
  /\ Len(headers) + HeaderSize <= HeadersCapacity
  /\ headers' = headers \o Items(Head(plain), "header", 1, HeaderSize, HeaderSize)
  /\ plain' = Tail(plain)
  /\ UNCHANGED <<in_vars, metadata, data, crc_vars, payload, payload_tag,
                 mux_vars, out, accepted>>

(* One call of CrcAppend.  The tag is published before it is known whether *)
(* an item is.  The CRC is that of the items since the packet began, so it *)
(* is of the packet of the last of them.                                   *)
Crc(n, space) ==
  /\ DataChunk(n)
  /\ Len(payload) + space <= PayloadCapacity
  /\ EmptySpans \/ (space > 0 /\ (n > 0 \/ CRC!AtStart))
  /\ LET tag == IF n > 0 /\ CRC!AtStart THEN CRC!TagOut(TagAt(data)) ELSE payload_tag
     IN \E consumed \in 0 .. n, published \in 0 .. n + CrcSize :
          /\ CRC!ProcessBulk(TagAt(data), n, space, consumed, published)
          /\ payload' = payload
               \o [i \in 1 .. consumed |-> [data[i] EXCEPT !.bits = IF i = 1 THEN tag ELSE 0]]
               \o Items(data[1].of, "crc", 1, published - consumed, 0)
          /\ payload_tag' = IF published > 0 THEN 0 ELSE tag
          /\ data' = From(data, consumed)
  /\ UNCHANGED <<in_vars, header_vars, mux_vars, out, accepted>>

(* One call of PacketMux. *)
Mux(space) ==
  LET avail == <<Len(headers), Len(payload)>>
      bits  == <<TagAt(headers), TagAt(payload)>>
  IN /\ \E from_headers \in 0 .. Len(headers), from_payload \in 0 .. Len(payload) :
          /\ MUX!ProcessBulk(avail, bits, space, <<from_headers, from_payload>>)
          /\ LET items == SubSeq(headers, 1, from_headers) \o SubSeq(payload, 1, from_payload)
                 joined == [i \in DOMAIN items |->
                             [items[i] EXCEPT !.bits = IF i = 1 THEN MUX!TagOut(bits) ELSE 0]]
             IN out' = IF items = <<>> THEN out ELSE joined
          /\ headers' = From(headers, from_headers)
          /\ payload' = From(payload, from_payload)
          /\ accepted' = IF from_payload > 0 /\ mux_packet_lens' = <<>>
                           THEN Tail(accepted) ELSE accepted
     /\ UNCHANGED <<in_vars, metadata, plain, data, crc_vars, payload_tag>>

IngressStep == \E length \in Lengths, n \in 1 .. DataCapacity : Ingress(length, n)
FormatStep  == \E count \in 1 .. MetadataCapacity : Format(count)
CrcStep     == \E n \in 0 .. DataCapacity, space \in 0 .. PayloadCapacity : Crc(n, space)
MuxStep     == \E space \in 1 .. MaxSpace : Mux(space)

Next == IngressStep \/ FormatStep \/ Encode \/ CrcStep \/ MuxStep

Init ==
  /\ ING!Init /\ CRC!Init /\ MUX!Init
  /\ packet = [id |-> NumIds, len |-> CHOOSE len \in Lengths : TRUE]
  /\ metadata = <<>> /\ data = <<>> /\ headers = <<>> /\ payload = <<>>
  /\ plain = <<>> /\ payload_tag = 0
  /\ out = <<>> /\ accepted = <<>>

(* The scheduler calls the blocks again and again, and items keep coming.  *)
(* It is enough that some block behind the ingress goes on if any can.     *)
Fairness ==
  WF_vars(IngressStep) /\ WF_vars(FormatStep \/ Encode \/ CrcStep \/ MuxStep)

Spec == Init /\ [][Next]_vars
FairSpec == Spec /\ Fairness

-----------------------------------------------------------------------------
Item == [of : Packets, part : {"header", "payload", "crc"}, place : Nat, bits : Nat]

TypeOK ==
  /\ in_remaining \in Nat /\ in_valid \in BOOLEAN /\ in_failed \in BOOLEAN
  /\ packet \in Packets
  /\ metadata \in Seq(Packets) /\ Len(metadata) <= MetadataCapacity
  /\ plain \in Seq(Packets) /\ Len(plain) <= PlainCapacity
  /\ data \in Seq(Item) /\ Len(data) <= DataCapacity
  /\ crc_data_remaining \in Nat /\ crc_failed \in BOOLEAN
  /\ headers \in Seq(Item) /\ Len(headers) <= HeadersCapacity
  /\ payload \in Seq(Item) /\ Len(payload) <= PayloadCapacity /\ payload_tag \in Nat
  /\ mux_packet_lens \in {<<>>} \cup (Nat \X Nat)
  /\ mux_current_input \in 1 .. 3 /\ mux_remaining \in Nat /\ mux_failed \in BOOLEAN
  /\ out \in Seq(Item) /\ accepted \in Seq(Packets)

(* Besides the types: every packet has its length in its first item where  *)
(* a block looks for it.  CrcAppend does not stop, nor does it ask for more than it was   *)
(* offered, and PacketMux does not throw (packet_mux.hpp:121-123).  And    *)
(* PacketIngress is never called with a full metadata output, which it     *)
(* asserts (packet_ingress.hpp:64): payloads back up before messages do.   *)
NoBlockFails == TypeOK /\ ~crc_failed /\ ~mux_failed /\ ~in_failed

(* CrcAppend keeps what it has no room for: "Do not consume all the data   *)
(* if there is no space in the output to put the full CRC"                 *)
(* (crc_append.hpp:153-154).                                               *)
KeepsWithoutRoom == ~crc_failed

(* The items of the frame that Mux has sent. *)
Sent ==
  CASE mux_packet_lens = <<>> -> 0
    [] OTHER -> IF mux_current_input = 1
                  THEN mux_packet_lens[1] - mux_remaining
                  ELSE mux_packet_lens[1] + mux_packet_lens[2] - mux_remaining

Framing == INSTANCE PacketFraming
             WITH queue <- accepted, sent <- Sent

(* What leaves the multiplexer is a frame for every accepted packet, in    *)
(* order, each with its own header, payload and CRC and the right length,  *)
(* however the blocks are called: "Concatenates one packet from each input *)
(* to form an output packet" (packet_mux.hpp).                             *)
FramesInOrder == Framing!Spec

(* Every accepted packet leaves: no combination of full and empty links    *)
(* stops the blocks.                                                       *)
EveryPacketLeaves ==
  \A id \in Ids : (accepted # <<>> /\ Head(accepted).id = id)
                     ~> ~(accepted # <<>> /\ Head(accepted).id = id)
=============================================================================
