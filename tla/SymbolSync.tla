------------------------------ MODULE SymbolSync ------------------------------
(***************************************************************************)
(* How a detection becomes the symbols of a packet                         *)
(* (packet-modem/packet_receiver.hpp): CoarseFrequencyCorrection and then  *)
(* SymbolFilter, behind detections that are at least MinGap samples apart. *)
(*                                                                         *)
(* A sample is known by the last detection, whether that is early, and its *)
(* age in samples since then.  The samples arrive in any portions and the  *)
(* blocks see them in any chunks; a detection begins a chunk.              *)
(***************************************************************************)
EXTENDS Integers, Sequences, SequencesExt

CONSTANTS
  SamplesPerSymbol,
  FreqDelay,       (* delay of CoarseFrequencyCorrection                   *)
  Delays,          (* delays of SymbolFilter                               *)
  MinGap,          (* the samples between detections, from time_threshold  *)
  Capacity,        (* bound: samples between the blocks                    *)
  NumIds           (* bound: identities of detections, reused in a circle  *)

(* Detections in a row have different identities. *)
GapAssumption ==
  /\ FreqDelay \in Nat /\ MinGap \in Nat /\ MinGap > FreqDelay
  /\ Delays \subseteq Nat \ {0}
  /\ \A d \in Delays : MinGap > d + SamplesPerSymbol
  /\ NumIds \in Nat /\ NumIds > 1 /\ Capacity \in Nat \ {0}

VARIABLES
  freq, next_freq, next_freq_delay,
  delay, clock_phase, tags,
  last,            (* the last sample that arrived                         *)
  link,            (* samples, with their rotation, between the blocks     *)
  chunk, out,      (* ghost: the last chunk of the filter and its symbols  *)
  drift,           (* ghost: samples since the last symbol with a tag less *)
                   (* SamplesPerSymbol for each symbol since               *)
  slip             (* ghost: the drift between the last two such symbols   *)

C == INSTANCE CoarseFrequencyCorrection
F == INSTANCE SymbolFilter

freq_vars == <<freq, next_freq, next_freq_delay>>
filter_vars == <<delay, clock_phase, tags>>
vars == <<freq_vars, filter_vars, last, link, chunk, out, drift, slip>>

(* The ages of very old samples are taken modulo a symbol. *)
Older(age) ==
  IF age = MinGap + SamplesPerSymbol - 1 THEN MinGap ELSE age + 1

After(sample) == [sample EXCEPT !.age = Older(@)]

Detection(early) == [id |-> (last.id % NumIds) + 1, early |-> early, age |-> 0]

(* n samples, the first of which is given. *)
From(first, n) ==
  FoldLeft(LAMBDA s, i : Append(s, After(Last(s))), <<first>>, [i \in 2 .. n |-> i])

(* Samples arrive and are rotated; the first may be a detection. *)
Correct(samples) ==
  LET n       == Len(samples)
      tagged  == samples[1].age = 0
      rotated == C!Rotated(n, tagged, samples[1].id)
  IN /\ Len(link) + n <= Capacity
     /\ C!ProcessBulk(n, tagged, samples[1].id)
     /\ link' = link \o [i \in 1 .. n |-> [sample |-> samples[i],
                                            freq |-> rotated[i]]]
     /\ last' = samples[n]
     /\ UNCHANGED <<filter_vars, chunk, out, drift, slip>>

Quiet == \E n \in 1 .. Capacity : Correct(From(After(last), n))

Detected ==
  /\ last.age >= MinGap - 1
  /\ \E n \in 1 .. Capacity, early \in BOOLEAN : Correct(From(Detection(early), n))

(* The symbols that an item of a chunk gave. *)
Taken(symbols, item) == {k \in DOMAIN symbols : symbols[k].item = item}

(* The drift after an item, and between symbols with tags. *)
Pass(symbols, m, item) ==
  LET d == (m.drift + 1) - SamplesPerSymbol * Cardinality(Taken(symbols, item))
  IN IF \E k \in Taken(symbols, item) : symbols[k].tags # <<>>
       THEN [drift |-> 0, slip |-> d]
       ELSE [drift |-> d, slip |-> m.slip]

Measure(items, symbols) ==
  FoldLeft(LAMBDA m, item : Pass(symbols, m, item), [drift |-> drift, slip |-> slip], items)

(* The first samples of the link, with their places. *)
Chunk(n) ==
  [i \in 1 .. n |-> [sample |-> link[i].sample, freq |-> link[i].freq, at |-> i]]

FilterChunk(items) ==
  LET tagged  == items[1].sample.age = 0
      id      == items[1].sample.id
      early   == items[1].sample.early
      symbols == F!Symbols(items, tagged, id, early)
  IN /\ F!ProcessBulk(items, tagged, id, early)
     /\ chunk' = items
     /\ out' = symbols
     /\ drift' = Measure(items, symbols).drift
     /\ slip' = Measure(items, symbols).slip

Filter ==
  \E n \in 1 .. Len(link) :
    /\ \A i \in 2 .. n : link[i].sample.age # 0
    /\ FilterChunk(Chunk(n))
    /\ link' = SubSeq(link, n + 1, Len(link))
    /\ UNCHANGED <<freq_vars, last>>

Next == Quiet \/ Detected \/ Filter

(* No detection yet: identity 0, and any number of samples. *)
Init ==
  /\ delay \in Delays
  /\ C!Init /\ F!Init
  /\ last = [id |-> 0, early |-> FALSE, age |-> MinGap]
  /\ link = <<>> /\ chunk = <<>> /\ out = <<>>
  /\ drift = SamplesPerSymbol - 1 /\ slip = 0

Spec == Init /\ [][Next]_vars

-----------------------------------------------------------------------------
TypeOK ==
  /\ clock_phase \in 0 .. SamplesPerSymbol - 1
  /\ Len(tags) <= 1
  /\ next_freq_delay \in -1 .. FreqDelay
  /\ freq \in 0 .. NumIds /\ next_freq \in 0 .. NumIds
  /\ Len(link) <= Capacity

(* The age of the sample at which the first symbol of a packet is taken:   *)
(* "After pushing back delay + 1 items to the history, the first syncword  *)
(* symbol should be output" (symbol_filter.hpp:135), one sample before for *)
(* an early detection.                                                     *)
FirstSymbol(sample) == IF sample.early THEN delay - 1 ELSE delay

(* From the first symbol of a packet on, however the samples are cut and   *)
(* whatever the clock was before, exactly the samples that are whole       *)
(* symbols after it are taken.                                             *)
SampledOnTime ==
  \A i \in DOMAIN chunk :
    LET s == chunk[i].sample
    IN s.id # 0 /\ s.age >= FirstSymbol(s) =>
         ((\E k \in DOMAIN out : out[k].item = chunk[i])
            <=> (s.age - FirstSymbol(s)) % SamplesPerSymbol = 0)

(* The tag of a detection goes with the first symbol of its packet, and no *)
(* other symbol has a tag: "Tags go on the nearest possible output sample" *)
(* (symbol_filter.hpp:166).                                                *)
TagOnSymbol ==
  \A k \in DOMAIN out :
    LET s    == out[k].item.sample
        sent == out[k].tags
    IN [i \in DOMAIN sent |-> sent[i].id] =
         IF s.id # 0 /\ s.age = FirstSymbol(s) THEN <<s.id>> ELSE <<>>

(* A symbol is neither lost nor repeated where one packet ends and the     *)
(* next begins ("Special case to avoid skipping one output symbol", "to    *)
(* avoid duplicating one output symbol", symbol_filter.hpp:158,190): the   *)
(* symbols between two first symbols are as many as the samples between    *)
(* them make, to the nearest.                                              *)
NoSymbolLostOrRepeated == 2 * slip \in -SamplesPerSymbol .. SamplesPerSymbol

(* A sample is rotated by the frequency of the packet before until         *)
(* FreqDelay samples after a detection, and by that of its own packet from *)
(* then on: no detection's frequency is lost.                              *)
FrequencyOfPacket ==
  \A i \in DOMAIN chunk :
    LET s == chunk[i].sample
    IN s.id # 0 => (chunk[i].freq = s.id <=> s.age >= FreqDelay)
=============================================================================
