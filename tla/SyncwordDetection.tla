-------------------------- MODULE SyncwordDetection ---------------------------
(***************************************************************************)
(* The search of the SyncwordDetection block                               *)
(* (packet-modem/syncword_detection.hpp): the block that marks the samples *)
(* where a syncword begins.                                                *)
(*                                                                         *)
(* Each sample has a correlation power, here any member of Powers.  The    *)
(* block keeps the best sample and, once TimeThreshold samples have not    *)
(* bettered it, compares it with the median of its neighbourhood.  Samples *)
(* leave the block 2 * TimeThreshold + 1 samples late, those that were     *)
(* found with a tag.  The FFTs and the contents of the tag are abstracted. *)
(***************************************************************************)
EXTENDS Integers, Sequences, SequencesExt, FiniteSets

CONSTANTS
  FftSize,             (* fft_size                                         *)
  SyncwordSamples,     (* _syncword_samples_size                           *)
  TimeThreshold,       (* time_threshold                                   *)
  PowerThreshold,      (* power_threshold                                  *)
  HistoryCapacity,     (* the items that _history holds                    *)
  Modulus,             (* 2^64: the indices are uint64_t                   *)
  Powers,              (* the correlation powers                           *)
  MaxAvail             (* bound: samples in the input                      *)

(* start() throws if the FFT is too small for the syncword. *)
DetectionAssumption ==
  /\ SyncwordSamples \in Nat \ {0} /\ FftSize \in Nat
  /\ SyncwordSamples <= FftSize
  /\ TimeThreshold \in Nat
  /\ HistoryCapacity \in Nat /\ HistoryCapacity > 2 * TimeThreshold + 1
  /\ Modulus \in Nat /\ Modulus > 2 * TimeThreshold + 1
  /\ PowerThreshold \in Nat \ {0} /\ Powers \subseteq Nat

VARIABLES
  best,                (* _best                                            *)
  best_idx,            (* _best_idx                                        *)
  items_consumed,      (* _items_consumed                                  *)
  history,             (* _history: the last sample pushed is the first    *)
  out                  (* the samples published last, as they left history *)

vars == <<best, best_idx, items_consumed, history, out>>

HistorySize == 2 * TimeThreshold + 1
Stride == FftSize - SyncwordSamples + 1

(* The samples that a call consumes: some strides, or none. *)
Consumed(avail) ==
  IF avail < FftSize
    THEN 0
    ELSE Stride * (((avail - FftSize) \div Stride) + 1)

(* Mutation: the index of a sample in the call. *)
IndexInCall(k) == (k - 1) % Modulus

Index(k) == ((items_consumed + k) - 1) % Modulus

(* Mutation: the window closes one sample early. *)
ClosesEarly(s, idx) == (idx - s.best_idx) % Modulus >= TimeThreshold

Closes(s, idx) == (idx - s.best_idx) % Modulus > TimeThreshold

Below(s) ==
  {u \in 1 .. HistorySize : s.history[u].power * PowerThreshold < s.best}

StandsOut(s) == 2 * Cardinality(Below(s)) >= HistorySize

(* Where that sample is if the history is counted from its oldest one. *)
HistIdx(s, idx) == ((s.best_idx + HistorySize) - idx) % Modulus

(* Mutation: the place in the history is one too old. *)
PlaceBefore(s, idx) == (HistorySize - HistIdx(s, idx)) + 1

(* The place in the history of the sample whose index is s.best_idx. *)
Place(s, idx) == HistorySize - HistIdx(s, idx)

Close(s, idx) ==
  [best     |-> 0,
   best_idx |-> idx,
   history  |-> IF StandsOut(s)
                  THEN [s.history EXCEPT ![Place(s, idx)].detection = TRUE]
                  ELSE s.history,
   out      |-> s.out]

(* Mutation: the first of the samples of a window is kept. *)
ImproveNever(s, power, idx) ==
  IF s.best = 0 THEN [s EXCEPT !.best = power, !.best_idx = idx] ELSE s

Improve(s, power, idx) ==
  IF power > s.best THEN [s EXCEPT !.best = power, !.best_idx = idx] ELSE s

Push(s, power) ==
  [s EXCEPT !.out = Append(@, s.history[HistorySize]),
            !.history = <<[power |-> power, detection |-> FALSE]>>
                          \o SubSeq(@, 1, HistoryCapacity - 1)]

Step(s, power, idx) ==
  Push(Improve(IF Closes(s, idx) THEN Close(s, idx) ELSE s, power, idx), power)

Search(powers) ==
  FoldLeftDomain(LAMBDA s, k : Step(s, powers[k], Index(k)),
                 [best |-> best, best_idx |-> best_idx, history |-> history,
                  out |-> <<>>],
                 powers)

(* A call; powers are those of the samples that it consumes. *)
ProcessBulk(powers) ==
  LET s == Search(powers)
  IN /\ best' = s.best
     /\ best_idx' = s.best_idx
     /\ history' = s.history
     /\ out' = s.out
     /\ items_consumed' = (items_consumed + Len(powers)) % Modulus

Init ==
  /\ best = 0 /\ best_idx = 0 /\ items_consumed = 0
  /\ history = [u \in 1 .. HistoryCapacity |-> [power |-> 0, detection |-> FALSE]]
  /\ out = <<>>

Next ==
  \E avail \in 0 .. MaxAvail :
    \E powers \in [1 .. Consumed(avail) -> Powers] : ProcessBulk(powers)

Spec == Init /\ [][Next]_vars

-----------------------------------------------------------------------------
Items == [power : Powers \cup {0}, detection : BOOLEAN]

(* The variables have their types and the best sample is one that is still *)
(* in the history, at its index and with its power, so that a detection is *)
(* a mark on that sample and not on a neighbour.                           *)
TypeOK ==
  /\ best_idx \in 0 .. Modulus - 1 /\ items_consumed \in 0 .. Modulus - 1
  /\ DOMAIN history = 1 .. HistoryCapacity /\ Range(history) \subseteq Items
  /\ LET age == (items_consumed - best_idx) % Modulus
     IN /\ age <= TimeThreshold + 1
        /\ IF age = 0 THEN best = 0 ELSE history[age].power = best

(* Where a sample published last is in the history; its whole window is    *)
(* there for the last of them at least.                                    *)
PlaceOut(i) == (HistorySize + 1 + Len(out)) - i

InHistory ==
  {i \in 1 .. Len(out) : PlaceOut(i) + TimeThreshold <= HistoryCapacity}

Window(p) == p - TimeThreshold .. p + TimeThreshold
Later(p) == p - TimeThreshold .. p - 1

Exceeds(p, q) == history[p].power > history[q].power

Prominent(p) ==
  2 * Cardinality({q \in Window(p) :
                     history[q].power * PowerThreshold < history[p].power})
    >= HistorySize

(* No syncword is missed: a sample that exceeds every sample within        *)
(* TimeThreshold of it, and the median by the threshold, leaves with a     *)
(* detection.  And a sample leaves with one only if no sample of the       *)
(* TimeThreshold after it exceeds it and it is above the median.           *)
DetectsMaxima ==
  \A i \in InHistory :
    LET p == PlaceOut(i)
    IN /\ (Prominent(p) /\ \A q \in Window(p) \ {p} : Exceeds(p, q))
            => out[i].detection
       /\ out[i].detection
            => Prominent(p) /\ \A q \in Later(p) : ~Exceeds(q, p)

(* Detections are more than TimeThreshold samples apart, which the blocks  *)
(* after this one rely on: they keep one pending frequency and one         *)
(* syncword.                                                               *)
DetectionsApart ==
  \A p, q \in 1 .. HistoryCapacity :
    history[p].detection /\ history[q].detection /\ p < q => q - p > TimeThreshold

(* "A successful detection is declared whenever a correlation attains the  *)
(* maximum in a time window of +/-time_threshold" (syncword_detection.hpp: *)
(* 44).                                                                    *)
MaximumOfWindow ==
  \A i \in InHistory :
    out[i].detection
      => \A q \in Window(PlaceOut(i)) : ~Exceeds(q, PlaceOut(i))
=============================================================================
