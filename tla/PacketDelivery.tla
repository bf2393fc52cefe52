---------------------------- MODULE PacketDelivery ----------------------------
(***************************************************************************)
(* What the payload branch of the receiver promises: the packets of users  *)
(* that arrive whole are written, one PDU for each, in the order in which  *)
(* they arrived, with all their bytes and the description in their header; *)
(* no other packet is written.                                             *)
(***************************************************************************)
EXTENDS Integers, Sequences

CONSTANTS
  CrcSize,         (* bytes of the CRC, which are not written              *)
  Packets          (* records: len, the bytes with the CRC, good and user  *)

VARIABLES
  pending,         (* packets that have begun to arrive                    *)
  written          (* the PDU that was written last                        *)

vars == <<pending, written>>

Wanted(p) == p.good /\ p.user

PduOf(p) ==
  [data |-> [k \in 1 .. p.len - CrcSize |-> [of |-> p, place |-> k]],
   tags |-> <<[index |-> 0, of |-> p]>>]

Arrive(p) ==
  /\ pending' = Append(pending, p)
  /\ UNCHANGED written

(* A packet can be found to be unwanted while others are being delivered. *)
Discard(k) ==
  /\ ~Wanted(pending[k])
  /\ pending' = SubSeq(pending, 1, k - 1) \o SubSeq(pending, k + 1, Len(pending))
  /\ UNCHANGED written

Write ==
  /\ pending # <<>> /\ Wanted(Head(pending))
  /\ written' = PduOf(Head(pending))
  /\ pending' = Tail(pending)

(* The device may refuse a PDU. *)
Refuse ==
  /\ pending # <<>> /\ Wanted(Head(pending))
  /\ pending' = Tail(pending)
  /\ UNCHANGED written

Init == pending = <<>> /\ written = [data |-> <<>>, tags |-> <<>>]

Next ==
  \/ \E p \in Packets : Arrive(p)
  \/ \E k \in DOMAIN pending : Discard(k)
  \/ Write
  \/ Refuse

Spec == Init /\ [][Next]_vars
=============================================================================
