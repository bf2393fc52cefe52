------------------------------ MODULE PduBlocks -------------------------------
(***************************************************************************)
(* The blocks of the transmitter for PDUs: the forms that map one PDU to   *)
(* one PDU (packet-modem/pdu.hpp and the Pdu<T> specialisations), and      *)
(* PduToTaggedStream (packet-modem/pdu_to_tagged_stream.hpp), which makes  *)
(* of PDUs a stream in which a length tag marks the first item of each and *)
(* the tags of a PDU are on their items.                                   *)
(*                                                                         *)
(* A PDU is a record: data, the runs of items of which it is made, each    *)
(* with the part of the burst, the packet that it comes from and its       *)
(* length; tags, with the index of the item that they are at, from 0; and  *)
(* signal, what the filter and the shaper have done to it.                 *)
(*                                                                         *)
(* ToTaggedStream is one call of PduToTaggedStream that sees packets, a    *)
(* sequence of PDUs, and has space for items and, if it counts, room for   *)
(* messages.                                                               *)
(***************************************************************************)
EXTENDS Integers, Sequences, SequencesExt

CONSTANTS
  MaxLength,       (* numeric_limits<uint16_t>::max()                      *)
  CodedSize,       (* bytes of a coded header, systematic, parity, repeated*)
  CrcSize,         (* _crc_num_bytes                                       *)
  Leading,         (* leading_shape.size()                                 *)
  Trailing,        (* trailing_shape.size()                                *)
  LengthTag,       (* packet_len_tag_key is not empty                      *)
  EnableCount      (* enable_count                                         *)

VARIABLES          (* of PduToTaggedStream                                 *)
  index,           (* _index: items of the first PDU that were copied      *)
  packet_count,    (* _packet_count                                        *)
  failed           (* requestStop() was called                             *)

Nobody == "nobody"

Plain == [history |-> "none", leading |-> 0, trailing |-> 0]

Run(part, of, len) == [part |-> part, of |-> of, len |-> len]

Pdu(runs, tags) == [data |-> runs, tags |-> tags, signal |-> Plain]

Lesser(a, b) == IF a <= b THEN a ELSE b

Items(runs) == FoldLeft(LAMBDA n, run : n + run.len, 0, runs)
Size(pdu) == Items(pdu.data)

(* An idle packet has its type in a tag of the first byte. *)
Source(packet) ==
  Pdu(<<Run("payload", packet, packet.len)>>,
      IF packet.type = "IDLE" THEN {[index |-> 0, key |-> "packet_type"]} ELSE {})

(* PacketIngress: the message about a packet; user data unless the tag of  *)
(* the first byte has another type.                                        *)
Metadata(pdu) ==
  [packet |-> pdu.data[1].of,
   len    |-> Size(pdu),
   type   |-> IF \E tag \in pdu.tags : tag.index = 0 /\ tag.key = "packet_type"
                THEN "IDLE" ELSE "USER_DATA"]

(* HeaderFormatter, HeaderFecEncoder: the header that the message asks for. *)
Header(message) == Pdu(<<Run("header", message, 1)>>, {})
Codeword(pdu) ==
  [pdu EXCEPT !.data = <<[pdu.data[1] EXCEPT !.len = CodedSize]>>, !.tags = {}]

(* CrcAppend: the tags stay. *)
WithCrc(pdu) ==
  [pdu EXCEPT !.data = Append(@, Run("crc", pdu.data[1].of, CrcSize))]

(* Mutation: the tags of an input keep their index. *)
JoinInPlace(a, b) == [a EXCEPT !.data = @ \o b.data, !.tags = @ \union b.tags]

(* PacketMux: the tags of every input go with their items. *)
Join(a, b) ==
  [a EXCEPT !.data = @ \o b.data,
            !.tags = @ \union {[tag EXCEPT !.index = Size(a) + @] : tag \in b.tags}]

(* UnpackBits, PackBits, InterpolatingFirFilter: k items for one, or one   *)
(* for k; a tag goes with the first of the items, or with the one that its *)
(* item is part of.                                                        *)
Enlarged(pdu, k) ==
  [pdu EXCEPT !.data = [i \in DOMAIN @ |-> [@[i] EXCEPT !.len = k * @]],
              !.tags = {[tag EXCEPT !.index = k * @] : tag \in @}]
Packs(pdu, k) == Size(pdu) % k = 0
Packed(pdu, k) ==
  [pdu EXCEPT !.data = [i \in DOMAIN @ |-> [@[i] EXCEPT !.len = @ \div k]],
              !.tags = {[tag EXCEPT !.index = @ \div k] : tag \in @}]

(* BurstShaper. *)
Shaped(pdu) ==
  [pdu EXCEPT
     !.signal.leading = Lesser(Leading, Size(pdu)),
     !.signal.trailing =
        IF Size(pdu) > Leading THEN Lesser(Size(pdu) - Leading, Trailing) ELSE 0]

-----------------------------------------------------------------------------
(* PduToTaggedStream: the item at a place of a PDU, with its tags. *)
KeysAt(p, place) == {tag.key : tag \in {tag \in p.tags : tag.index = place - 1}}

Item(p, place) ==
  [of |-> p, place |-> place,
   bits |-> IF place = 1 /\ LengthTag THEN Size(p) ELSE 0,
   keys |-> KeysAt(p, place)]

(* One iteration of its loop; p is the PDU at hand. *)
Iterate(call, p) ==
  LET left == Size(p) - call.index
      n    == Lesser(left, call.space)
  IN IF call.empty \/ call.space = 0 \/ (EnableCount /\ call.room = 0)
       THEN call
     ELSE IF Size(p) = 0
       THEN [call EXCEPT !.empty = TRUE]
       ELSE [call EXCEPT
               !.space = @ - n,
               !.room  = IF EnableCount /\ call.index = 0 THEN @ - 1 ELSE @,
               !.done  = IF n = left THEN @ + 1 ELSE @,
               !.index = IF n = left THEN 0 ELSE @ + n,
               !.items = @ \o [k \in 1 .. n |-> Item(p, call.index + k)]]

Loop(packets, space, room) ==
  FoldLeft(Iterate,
           [space |-> space, room |-> room, done |-> 0, index |-> index,
            items |-> <<>>, empty |-> FALSE],
           packets)

Copy(packets, space, room, consumed, items, messages) ==
  LET call == Loop(packets, space, room)
  IN /\ ~call.empty
     /\ consumed = call.done /\ items = call.items
     /\ messages = [i \in 1 .. room - call.room |-> packet_count + i]
     /\ index' = call.index
     /\ packet_count' = packet_count + (room - call.room)
     /\ UNCHANGED failed

(* A PDU without items: nothing of the call is published. *)
Fail(packets, space, room, consumed, items, messages) ==
  /\ Loop(packets, space, room).empty
  /\ consumed = 0 /\ items = <<>> /\ messages = <<>>
  /\ index' = 0 /\ failed' = TRUE
  /\ UNCHANGED packet_count

ToTaggedStream(packets, space, room, consumed, items, messages) ==
  /\ ~failed
  /\ \/ Copy(packets, space, room, consumed, items, messages)
     \/ Fail(packets, space, room, consumed, items, messages)

Init == index = 0 /\ packet_count = 0 /\ failed = FALSE
=============================================================================
