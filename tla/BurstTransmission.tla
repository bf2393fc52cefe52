-------------------------- MODULE BurstTransmission ---------------------------
(***************************************************************************)
(* What the back of the transmitter promises in burst mode: one burst for  *)
(* every packet, in order, made of the syncword, the packet and the        *)
(* ramp-down sequence, filtered as if nothing had been sent before, with   *)
(* the length of the burst in the tag of its first sample and an envelope  *)
(* that rises at its beginning and falls at its end.                       *)
(***************************************************************************)
EXTENDS Integers, Sequences

CONSTANTS
  Interpolation, NumTaps,
  SyncwordSize, RampDownSize, FlushSize,
  Leading, Trailing,
  Packets          (* records with the number of symbols, len              *)

VARIABLES
  queue,           (* packets accepted and not yet sent completely         *)
  sent,            (* samples sent of the first of them                    *)
  out              (* the samples sent last                                *)

vars == <<queue, sent, out>>

(* The symbols of a burst that are not zero. *)
Symbols(p) ==
  LET part(name, size) == [k \in 1 .. size |-> <<p.id, name, k>>]
  IN part("syncword", SyncwordSize) \o part("packet", p.len)
       \o part("ramp_down", RampDownSize)

Size(p) == (Len(Symbols(p)) + FlushSize) * Interpolation

(* The convolution of the symbols, Interpolation samples apart, with the   *)
(* taps: the sample m is the sum over the taps of what lies tap before it. *)
Sum(p, m) ==
  {<<Symbols(p)[k], m - 1 - (k - 1) * Interpolation>> :
     k \in {k \in DOMAIN Symbols(p) : m - 1 - (k - 1) * Interpolation \in 0 .. NumTaps - 1}}

Envelope(p, m) ==
  CASE m <= Leading            -> <<"leading", m>>
    [] m > Size(p) - Trailing  -> <<"trailing", m - (Size(p) - Trailing)>>
    [] OTHER                   -> <<"plain", 0>>

Sample(p, m) ==
  [sum |-> Sum(p, m), envelope |-> Envelope(p, m),
   bits |-> IF m = 1 THEN Size(p) ELSE 0]

Accept(p) ==
  /\ queue' = Append(queue, p)
  /\ UNCHANGED <<sent, out>>

(* The next samples of the first burst; a step does not go past its end. *)
Send ==
  LET p     == Head(queue)
      count == Len(out')
  IN /\ count > 0 /\ sent + count <= Size(p)
     /\ out' = [i \in 1 .. count |-> Sample(p, sent + i)]
     /\ IF sent + count = Size(p)
          THEN queue' = Tail(queue) /\ sent' = 0
          ELSE sent' = sent + count /\ UNCHANGED queue

Init == queue = <<>> /\ sent = 0 /\ out = <<>>

Next == (\E p \in Packets : Accept(p)) \/ (queue # <<>> /\ Send)

Spec == Init /\ [][Next]_vars
=============================================================================
