---------------------------- MODULE PacketFraming -----------------------------
(***************************************************************************)
(* What the packet assembly of the transmitter promises: every packet that *)
(* is accepted leaves as one frame, header, payload and CRC of that packet *)
(* back to back, in the order of acceptance, with the length of the frame  *)
(* in the tag of its first item; and nothing else leaves.                  *)
(***************************************************************************)
EXTENDS Integers, Sequences

CONSTANTS
  HeaderSize,      (* items of a coded header                              *)
  CrcSize,         (* items of the CRC                                     *)
  Packets          (* the packets: records with the number of items, len   *)

VARIABLES
  queue,           (* packets accepted and not yet sent completely         *)
  sent,            (* items sent of the first of them                      *)
  out              (* the items sent last                                  *)

vars == <<queue, sent, out>>

Part(p, part, size) ==
  [i \in 1 .. size |-> [of |-> p, part |-> part, place |-> i, bits |-> 0]]

Frame(p) ==
  LET items == Part(p, "header", HeaderSize) \o Part(p, "payload", p.len)
                 \o Part(p, "crc", CrcSize)
  IN [items EXCEPT ![1].bits = Len(items)]

Accept(p) ==
  /\ queue' = Append(queue, p)
  /\ UNCHANGED <<sent, out>>

(* The next count items of the frame; a step does not go past its end. *)
Send(count) ==
  /\ LET frame == Frame(Head(queue))
     IN /\ sent + count <= Len(frame)
        /\ out' = SubSeq(frame, sent + 1, sent + count)
        /\ IF sent + count = Len(frame)
             THEN queue' = Tail(queue) /\ sent' = 0
             ELSE sent' = sent + count /\ UNCHANGED queue

Init == queue = <<>> /\ sent = 0 /\ out = <<>>

Next ==
  \/ \E p \in Packets : Accept(p)
  \/ queue # <<>> /\ \E count \in 1 .. Len(Frame(Head(queue))) : Send(count)

Spec == Init /\ [][Next]_vars
=============================================================================
