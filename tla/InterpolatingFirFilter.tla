------------------------ MODULE InterpolatingFirFilter ------------------------
(***************************************************************************)
(* The InterpolatingFirFilter block                                        *)
(* (packet-modem/interpolating_fir_filter.hpp), as a polyphase filter.     *)
(*                                                                         *)
(* A product of a tap and an item is written as the pair <<item, tap>>,    *)
(* taps counted from 0, and a sum of products as the set of those that are *)
(* not zero.  Zero is the item that is zero.  ProcessBulk is one call on   *)
(* chunk, a sequence of items.                                             *)
(***************************************************************************)
EXTENDS Integers, Sequences

CONSTANTS
  Interpolation,   (* interpolation                                        *)
  NumTaps,         (* taps.size()                                          *)
  Zero

VARIABLES
  history          (* _history, the latest item first                      *)

(* The taps of branch j of the polyphase structure, from 0, in order. *)
Branch(j) ==
  [i \in 1 .. (NumTaps - j + Interpolation - 1) \div Interpolation |->
     j + (i - 1) * Interpolation]

(* The items that the longest branch needs; the buffer itself is longer,   *)
(* a power of two.                                                         *)
Depth == (NumTaps + Interpolation - 1) \div Interpolation

(* The last items at the place of item k of a chunk. *)
Recent(chunk, k) ==
  [i \in 1 .. Depth |-> IF i <= k THEN chunk[k - i + 1] ELSE history[i - k]]

InnerProduct(branch, recent) ==
  {<<recent[i], branch[i]>> : i \in {i \in DOMAIN branch : recent[i] # Zero}}

Filtered(chunk) ==
  [m \in 1 .. Len(chunk) * Interpolation |->
     InnerProduct(Branch((m - 1) % Interpolation),
                  Recent(chunk, (m - 1) \div Interpolation + 1))]

ProcessBulk(chunk, published) ==
  /\ published = Filtered(chunk)
  /\ history' = Recent(chunk, Len(chunk))

Init == history = [i \in 1 .. Depth |-> Zero]
=============================================================================
