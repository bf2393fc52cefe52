------------------------------ MODULE BurstStream ------------------------------
(***************************************************************************)
(* What a transmitter that ends in a stream of samples promises: the       *)
(* bursts of the packets follow each other in the order of acceptance,     *)
(* each whole and without a gap, with zeros between them if there is       *)
(* nothing to send, and a count of the packets that have left.             *)
(***************************************************************************)
EXTENDS Integers, Sequences, SequencesExt

CONSTANTS
  Burst(_),        (* the burst of a packet                                *)
  Length(_),       (* its number of samples                                *)
  Gaps,            (* TRUE when zeros may come between bursts; packets     *)
                   (* count when they end, otherwise when they begin       *)
  Modulus,         (* 2^64: the count is a uint64_t                        *)
  Packets

VARIABLES
  queue,           (* packets accepted and not yet sent completely         *)
  sent,            (* samples sent of the first of them                    *)
  out,             (* the samples sent last                                *)
  count            (* the number in the last count message                 *)

vars == <<queue, sent, out, count>>

Zero == <<>>

Accept(p) ==
  /\ queue' = Append(queue, p)
  /\ UNCHANGED <<sent, out, count>>

(* The samples of all the packets, back to back. *)
Pending ==
  FoldLeft(LAMBDA items, p : items \o [k \in 1 .. Length(p) |-> <<Burst(p), k>>],
           <<>>, queue)

(* The places where the packets begin, and where the last one ends. *)
Begins ==
  LET begin[j \in 1 .. Len(queue) + 1] ==
        IF j = 1 THEN 0 ELSE begin[j - 1] + Length(queue[j - 1])
  IN begin

(* The next samples; a burst counts when it is complete, a packet of the   *)
(* stream with its first sample.                                           *)
Send ==
  LET begin    == Begins
      upto     == sent + Len(out')
      finished == {j \in DOMAIN queue : begin[j + 1] <= upto}
      started  == {j \in DOMAIN queue : sent <= begin[j] /\ begin[j] < upto}
  IN /\ <<queue, sent>>' # <<queue, sent>>
     /\ upto <= begin[Len(queue) + 1]
     /\ out' = SubSeq(Pending, sent + 1, upto)
     /\ queue' = SubSeq(queue, Cardinality(finished) + 1, Len(queue))
     /\ sent' = upto - begin[Cardinality(finished) + 1]
     /\ count' = (count + Cardinality(IF Gaps THEN finished ELSE started)) % Modulus

Fill ==
  /\ Gaps /\ sent = 0
  /\ out' = [k \in 1 .. Len(out') |-> Zero]
  /\ UNCHANGED <<queue, sent, count>>

Init == queue = <<>> /\ sent = 0 /\ out = <<>> /\ count = 0

Next == (\E p \in Packets : Accept(p)) \/ Send \/ Fill

Spec == Init /\ [][Next]_vars
=============================================================================
