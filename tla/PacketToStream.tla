---------------------------- MODULE PacketToStream ----------------------------
(***************************************************************************)
(* The PacketToStream block (packet-modem/packet_to_stream.hpp), in its    *)
(* form for PDUs and in its form for a stream of tagged packets: packets   *)
(* are copied to a continuous stream, with zeros between them, and counted *)
(* when they end.                                                          *)
(*                                                                         *)
(* An item of the output is <<packet, place>>, or Zero.  PduCall is a call *)
(* that sees packets, a sequence, and has space for items and room for     *)
(* count messages.  StreamCall sees avail items, of which the first has    *)
(* the length tag bits, and is told where they are from.                   *)
(***************************************************************************)
EXTENDS Integers, Sequences, SequencesExt

CONSTANTS
  Modulus,         (* 2^64: the count is a uint64_t                        *)
  SizeOf(_)        (* the items of a packet                                *)

VARIABLES
  pdu,             (* _pdu                                                 *)
  remaining,       (* _remaining                                           *)
  packet_count,    (* _packet_count                                        *)
  failed           (* requestStop() was called, or processBulk() has thrown*)

vars == <<pdu, remaining, packet_count, failed>>

Zero == <<>>

Lesser(a, b) == IF a <= b THEN a ELSE b

Zeros(space) == [k \in 1 .. space |-> Zero]

(* Mutation: the message tells of the packets before. *)
MessageBefore(i) == (packet_count + i - 1) % Modulus

Message(i) == (packet_count + i) % Modulus

(* One iteration of the loop, on the packet at hand or on the next one. *)
Iterate(call, p) ==
  LET left == IF call.left > 0 THEN call.left ELSE SizeOf(p)
      n    == Lesser(call.space, left)
  IN IF call.space = 0 \/ call.room = 0
       THEN call
       ELSE [space |-> call.space - n,
             room  |-> IF n = left THEN call.room - 1 ELSE call.room,
             begun |-> call.begun + 1,
             pdu   |-> p,
             left  |-> left - n,
             items |-> call.items \o
                         [k \in 1 .. n |-> <<p, SizeOf(p) - left + k>>]]

(* Mutation: a packet under way waits for the next one to come. *)
LoopWithInput(packets, space, room) ==
  FoldLeft(Iterate,
           [space |-> space, room |-> room, begun |-> 0, pdu |-> pdu,
            left |-> remaining, items |-> <<>>],
           (IF remaining > 0 /\ packets # <<>> THEN <<pdu>> ELSE <<>>) \o packets)

Loop(packets, space, room) ==
  FoldLeft(Iterate,
           [space |-> space, room |-> room, begun |-> 0, pdu |-> pdu,
            left |-> remaining, items |-> <<>>],
           (IF remaining > 0 THEN <<pdu>> ELSE <<>>) \o packets)

(* Mutation: zeros whenever there is no input. *)
FillsAnywhere(packets) == packets = <<>>

(* Nothing is under way and nothing is there. *)
Fills(packets) == remaining = 0 /\ packets = <<>>

Published(packets, space, room) ==
  IF Fills(packets) THEN Zeros(space) ELSE Loop(packets, space, room).items

Consumed(packets, space, room) ==
  LET begun == Loop(packets, space, room).begun
  IN IF remaining > 0 /\ begun > 0 THEN begun - 1 ELSE begun

(* The packets that end in the call, of each of which a message tells. *)
Finished(packets, space, room) == room - Loop(packets, space, room).room

PduCall(packets, space, room) ==
  /\ ~failed
  /\ IF Fills(packets)
       THEN UNCHANGED <<pdu, remaining, packet_count>>
       ELSE LET call == Loop(packets, space, room)
            IN /\ pdu' = call.pdu
               /\ remaining' = call.left
               /\ packet_count' = Message(room - call.room)
  /\ UNCHANGED failed

-----------------------------------------------------------------------------
(* The stream form: zeros, an error, or items of one packet. *)
(* Mutation: what was copied by earlier calls is forgotten. *)
LeftOfTag(bits) == bits

Left(bits) == IF remaining = 0 THEN bits ELSE remaining

(* Mutation: zeros whenever there is no input. *)
StreamZerosAnywhere(avail, space, published, messages) ==
  /\ avail = 0
  /\ published = Zeros(space) /\ messages = <<>>
  /\ UNCHANGED vars

StreamZeros(avail, space, published, messages) ==
  /\ remaining = 0 /\ avail = 0
  /\ published = Zeros(space) /\ messages = <<>>
  /\ UNCHANGED vars

StreamError(avail, bits, published, messages) ==
  /\ remaining = 0 /\ avail > 0 /\ bits = 0
  /\ published = <<>> /\ messages = <<>>
  /\ failed' = TRUE
  /\ UNCHANGED <<pdu, remaining, packet_count>>

(* chunk is the items that the call sees. *)
StreamCopy(chunk, bits, space, published, messages) ==
  LET n == Lesser(Lesser(Len(chunk), space), Left(bits))
  IN /\ ~(remaining = 0 /\ (chunk = <<>> \/ bits = 0))
     /\ published = SubSeq(chunk, 1, n)
     /\ remaining' = Left(bits) - n
     /\ messages = IF remaining' = 0 THEN <<Message(1)>> ELSE <<>>
     /\ packet_count' = IF remaining' = 0 THEN Message(1) ELSE packet_count
     /\ UNCHANGED <<pdu, failed>>

StreamCall(chunk, bits, space, published, messages) ==
  /\ ~failed
  /\ \/ StreamZeros(Len(chunk), space, published, messages)
     \/ StreamError(Len(chunk), bits, published, messages)
     \/ StreamCopy(chunk, bits, space, published, messages)

Init ==
  /\ remaining = 0
  /\ packet_count = 0
  /\ failed = FALSE
=============================================================================
