---------------------- MODULE CoarseFrequencyCorrection -----------------------
(***************************************************************************)
(* The CoarseFrequencyCorrection block                                     *)
(* (packet-modem/coarse_frequency_correction.hpp): samples are rotated by  *)
(* the frequency of the last detection, from delay samples after it on.    *)
(*                                                                         *)
(* A frequency is the identity of its detection.  ProcessBulk is one call  *)
(* on n items, of which the first has the tag of frequency f if tagged;    *)
(* Rotated is the sequence of frequencies by which they are rotated.       *)
(***************************************************************************)
EXTENDS Integers, Sequences, SequencesExt

CONSTANTS
  FreqDelay        (* delay                                                *)

VARIABLES
  freq,            (* the frequency of _exp and _exp_incr                  *)
  next_freq,       (* _next_freq                                           *)
  next_freq_delay  (* _next_freq_delay                                     *)

vars == <<freq, next_freq, next_freq_delay>>

(* The frequency 0 that the first sample sets. *)
NoFreq == 0

(* Mutation: the delay is counted from the sample after the tag. *)
TakeLate(tagged, f) ==
  IF tagged THEN [next |-> f, delay |-> FreqDelay + 1]
            ELSE [next |-> next_freq, delay |-> next_freq_delay]

Take(tagged, f) ==
  IF tagged THEN [next |-> f, delay |-> FreqDelay]
            ELSE [next |-> next_freq, delay |-> next_freq_delay]

(* One sample: the pending frequency is set, or comes one sample closer. *)
Rotate(s, k) ==
  LET now == IF s.delay = 0 THEN s.next ELSE s.freq
  IN [freq    |-> now,
      next    |-> s.next,
      delay   |-> IF s.delay >= 0 THEN s.delay - 1 ELSE s.delay,
      rotated |-> Append(s.rotated, now)]

Run(n, tagged, f) ==
  LET taken == Take(tagged, f)
  IN FoldLeft(Rotate,
              [freq |-> freq, next |-> taken.next, delay |-> taken.delay,
               rotated |-> <<>>],
              [k \in 1 .. n |-> k])

Rotated(n, tagged, f) == Run(n, tagged, f).rotated

ProcessBulk(n, tagged, f) ==
  LET s == Run(n, tagged, f)
  IN /\ freq' = s.freq
     /\ next_freq' = s.next
     /\ next_freq_delay' = s.delay

Init == freq = NoFreq /\ next_freq = NoFreq /\ next_freq_delay = 0
=============================================================================
