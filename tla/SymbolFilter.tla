----------------------------- MODULE SymbolFilter -----------------------------
(***************************************************************************)
(* The SymbolFilter block (packet-modem/symbol_filter.hpp): a polyphase    *)
(* matched filter that takes one sample of each symbol, at the instants    *)
(* that the last detection told, and delays the tags of detections by as   *)
(* much as the filter delays the samples.                                  *)
(*                                                                         *)
(* A symbol is the sample at which it is taken, with the tags that go out  *)
(* with it.  The time estimate of a detection is before or after its       *)
(* sample: early or not.  Filter taps, amplitude and phase are abstracted. *)
(***************************************************************************)
EXTENDS Integers, Sequences, SequencesExt

CONSTANTS
  SamplesPerSymbol (* samples_per_symbol                                   *)

(* settingsChanged() throws if it is zero. *)
SymbolAssumption == SamplesPerSymbol \in Nat \ {0}

VARIABLES
  delay,           (* delay, a setting: the samples of the filter          *)
  clock_phase,     (* _clock_phase: a symbol is taken when it is 0         *)
  tags             (* _tags: the tags to come, with the samples until then *)

vars == <<delay, clock_phase, tags>>

(* _reset_clock_phase, in 0 .. SamplesPerSymbol - 1. *)
ResetClockPhase == (-delay) % SamplesPerSymbol

(* Mutation: the clock is not moved forwards for an early detection. *)
NewClockPhaseLate(early) == ResetClockPhase

(* A filter only delays: for an early detection symbols are taken one      *)
(* sample before and delayed by more.                                      *)
NewClockPhase(early) ==
  (ResetClockPhase + (IF early THEN 1 ELSE 0)) % SamplesPerSymbol

(* Mutation: a tag goes with the first symbol after it. *)
DueAfter(t) == t.index <= 0

(* A tag goes on the nearest symbol. *)
Due(t) == t.index < SamplesPerSymbol \div 2

(* How many of the tags go: the first ones, up to one that is not due. *)
Leading(pending) ==
  CHOOSE n \in 0 .. Len(pending) :
    /\ \A i \in 1 .. n : Due(pending[i])
    /\ n < Len(pending) => ~Due(pending[n + 1])

Publish(s, item) ==
  LET n == Leading(s.tags)
  IN [clock |-> s.clock,
      tags  |-> SubSeq(s.tags, n + 1, Len(s.tags)),
      out   |-> Append(s.out, [item |-> item, tags |-> SubSeq(s.tags, 1, n)])]

Approach(pending) ==
  [i \in DOMAIN pending |-> [id |-> pending[i].id, index |-> pending[i].index - 1]]

(* Mutation: the clock goes on for one sample too many. *)
TickLate(clock) == IF clock >= SamplesPerSymbol THEN 0 ELSE clock + 1

Tick(clock) == IF clock + 1 >= SamplesPerSymbol THEN 0 ELSE clock + 1

Sample(s, item) ==
  LET taken == IF s.clock = 0 THEN Publish(s, item) ELSE s
  IN [clock |-> Tick(s.clock), tags |-> Approach(taken.tags), out |-> taken.out]

Pend(pending, id, index) == Append(pending, [id |-> id, index |-> index])

(* Mutation: no special case for a clock that passes the output instant. *)
SkipsNever(new) == FALSE

(* The clock would pass the output instant without an output. *)
Skips(new) == clock_phase = 0 /\ new = 1

(* Mutation: no special case for a clock that repeats the output instant. *)
RepeatsNever(new) == FALSE

(* The clock would come to the output instant again. *)
Repeats(new) == clock_phase = 1 /\ new = 0

(* The state after the detection, and the samples that the loop then sees. *)
Detect(s, chunk, id, early) ==
  LET new  == NewClockPhase(early)
      sent == Publish(s, chunk[1])
  IN IF Skips(new)
       THEN [state |-> [clock |-> new + 1, out |-> sent.out,
                        tags  |-> Pend(Approach(sent.tags), id, delay - 1)],
             chunk |-> Tail(chunk)]
     ELSE IF Repeats(new)
       THEN [state |-> [clock |-> new + 1, out |-> s.out, tags |-> Pend(s.tags, id, delay)],
             chunk |-> Tail(chunk)]
     ELSE [state |-> [clock |-> new, out |-> s.out, tags |-> Pend(s.tags, id, delay)],
           chunk |-> chunk]

(* A call on a chunk, which begins with detection id if tagged. *)
Run(chunk, tagged, id, early) ==
  LET now   == [clock |-> clock_phase, tags |-> tags, out |-> <<>>]
      begun == IF tagged THEN Detect(now, chunk, id, early)
                         ELSE [state |-> now, chunk |-> chunk]
  IN FoldLeft(Sample, begun.state, begun.chunk)

Symbols(chunk, tagged, id, early) == Run(chunk, tagged, id, early).out

ProcessBulk(chunk, tagged, id, early) ==
  LET s == Run(chunk, tagged, id, early)
  IN /\ clock_phase' = s.clock
     /\ tags' = s.tags
     /\ UNCHANGED delay

Init == clock_phase = 0 /\ tags = <<>>
=============================================================================
