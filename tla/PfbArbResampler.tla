---------------------------- MODULE PfbArbResampler ----------------------------
(***************************************************************************)
(* The PfbArbResampler block (packet-modem/pfb_arb_resampler.hpp), which   *)
(* packet_transceiver uses for the offset of the sampling frequency: it    *)
(* computes rate outputs for every input, each with the arm of the filter  *)
(* and the fraction of an arm that its time asks for.                      *)
(*                                                                         *)
(* The rate is num / den; a fraction of an arm is counted in parts of      *)
(* 1 / num, so that no sum is rounded.  Inputs have numbers modulo NumIds; *)
(* the values of the taps, and so those of the items, are left out.        *)
(***************************************************************************)
EXTENDS Integers, Sequences, SequencesExt, FiniteSetsExt

CONSTANTS
  FilterSize,      (* filter_size                                          *)
  Nums, Dens,      (* the rate is one of num / den                         *)
  TapCounts,       (* values of taps.size()                                *)
  MaxIn,           (* bound: items in the input of a call                  *)
  MaxOut,          (* bound: places in the output of a call                *)
  NumIds           (* bound: inputs are numbered modulo this               *)

ResamplerAssumption ==
  /\ FilterSize \in Nat \ {0} /\ MaxIn \in Nat /\ MaxOut \in Nat
  /\ Nums \subseteq Nat \ {0} /\ Dens \subseteq Nat \ {0}
  /\ TapCounts \subseteq Nat \ {0}
  /\ NumIds \in Nat \ {0}

VARIABLES
  rate, num_taps,  (* the settings                                         *)
  last_filter,     (* _last_filter                                         *)
  phase_acc,       (* _phase_acc, in parts                                 *)
  history,         (* _history, the newest item first                      *)
  newest,          (* ghost: the number of the last input consumed         *)
  lead,            (* ghost: time of the next output since the settings,   *)
                   (* less that of the inputs consumed, in parts           *)
  published        (* ghost: the outputs of the last call                  *)

vars == <<rate, num_taps, last_filter, phase_acc, history, newest, lead, published>>

Zero == -1
Lesser(a, b) == IF a <= b THEN a ELSE b

-----------------------------------------------------------------------------
Rates == [num : Nums, den : Dens]

ArmSize(taps) == (taps + FilterSize - 1) \div FilterSize
Capacity(size) == Min({2 ^ k : k \in {k \in 0 .. size : 2 ^ k >= size}})
FirstFilter(taps) == (taps \div 2) % FilterSize

(* filter_size / rate arms between two outputs. *)
DecimRate(r) == (FilterSize * r.den) \div r.num
FiltRate(r) == (FilterSize * r.den) % r.num

PushBack(items, item) == <<item>> \o Front(items)

(* Mutation: the old items are pushed as they are indexed. *)
MovedBack(old, capacity) ==
  FoldLeft(PushBack, [i \in 1 .. capacity |-> Zero], old)

(* The new history: the old items behind zeros, the oldest pushed first. *)
Moved(old, capacity) ==
  FoldLeft(PushBack, [i \in 1 .. capacity |-> Zero], Reverse(old))

SettingsChanged(r, taps) ==
  /\ rate' = r /\ num_taps' = taps
  /\ history' = Moved(history, Capacity(ArmSize(taps)))
  /\ phase_acc' = 0 /\ last_filter' = FirstFilter(taps)
  /\ lead' = 0 /\ published' = {}
  /\ UNCHANGED newest

-----------------------------------------------------------------------------
(* A state s of the loop: what is left of the spans, and the variables.    *)

(* One more input. *)
Push(s) ==
  LET id == (s.newest + 1) % NumIds
  IN [s EXCEPT !.in = @ - 1, !.newest = id, !.history = PushBack(@, id),
               !.last_filter = @ - FilterSize, !.lead = @ - FilterSize * rate.num]

(* As many as the next output needs, if the input has them. *)
Feed(s) ==
  FoldLeft(LAMBDA t, i : Push(t), s,
           [i \in 1 .. Lesser(s.in, s.last_filter \div FilterSize) |-> i])

(* Mutation: the carry of the fraction is lost. *)
CarryLost(s) ==
  IF s.phase_acc > rate.num THEN [s EXCEPT !.phase_acc = @ - rate.num] ELSE s

(* Mutation: the fraction may go beyond an arm. *)
CarryNever(s) == s

Carry(s) ==
  IF s.phase_acc > rate.num
    THEN [s EXCEPT !.phase_acc = @ - rate.num, !.last_filter = @ + 1]
    ELSE s

Output(s) ==
  [arm |-> s.last_filter, phase |-> s.phase_acc,
   due |-> s.lead + FirstFilter(num_taps) * rate.num]

Produce(s) ==
  Carry([s EXCEPT !.published = @ \union {Output(s)},
                  !.phase_acc = @ + FiltRate(rate), !.last_filter = @ + DecimRate(rate),
                  !.lead = @ + FilterSize * rate.den])

(* One round of the loop, if the input has an item. *)
Round(s) ==
  IF s.in = 0 THEN s
  ELSE LET fed == Feed(s) IN IF fed.last_filter >= FilterSize THEN fed ELSE Produce(fed)

ProcessBulk(n_in, n_out) ==
  LET begin == [in |-> n_in, last_filter |-> last_filter, phase_acc |-> phase_acc,
                history |-> history, newest |-> newest, lead |-> lead, published |-> {}]
      end == FoldLeft(LAMBDA s, i : Round(s), begin, [i \in 1 .. n_out |-> i])
  IN /\ last_filter' = end.last_filter /\ phase_acc' = end.phase_acc
     /\ history' = end.history
     /\ newest' = end.newest /\ lead' = end.lead /\ published' = end.published
     /\ UNCHANGED <<rate, num_taps>>

Next ==
  \/ \E r \in Rates, taps \in TapCounts : SettingsChanged(r, taps)
  \/ \E n_in \in 1 .. MaxIn, n_out \in 1 .. MaxOut : ProcessBulk(n_in, n_out)

Init ==
  /\ rate \in Rates /\ num_taps \in TapCounts
  /\ last_filter = FirstFilter(num_taps) /\ phase_acc = 0
  /\ history = [i \in 1 .. Capacity(ArmSize(num_taps)) |-> Zero]
  /\ newest = NumIds - 1 /\ lead = 0 /\ published = {}

Spec == Init /\ [][Next]_vars

-----------------------------------------------------------------------------
(* An output that waits for more input needs fewer items than the step and *)
(* the first arm together reach, so _last_filter does not grow; and the    *)
(* fraction stays within an arm, of which it can be all                    *)
(* (pfb_arb_resampler.hpp:161-166).                                        *)
TypeOK ==
  /\ phase_acc \in 0 .. rate.num
  /\ last_filter \in 0 .. FilterSize + DecimRate(rate)
  /\ Len(history) = Capacity(ArmSize(num_taps))

(* Every output is computed with an arm that exists, at the time           *)
(* k * filter_size / rate that it has since the settings: no time is lost  *)
(* or gained where a call ends for want of input or of output              *)
(* (pfb_arb_resampler.hpp:134-167).                                        *)
OutputsOnTime ==
  \A output \in published :
    /\ output.arm \in 0 .. FilterSize - 1
    /\ output.arm * rate.num + output.phase = output.due

(* The history is the last inputs, the newest first, with zeros only       *)
(* behind them, also after it was replaced by one of another size          *)
(* (pfb_arb_resampler.hpp:104-113).                                        *)
HistoryInOrder ==
  \A i \in 1 .. Len(history) :
    history[i] # Zero =>
      /\ history[i] = (newest - i + 1) % NumIds
      /\ \A j \in 1 .. i : history[j] # Zero
=============================================================================
