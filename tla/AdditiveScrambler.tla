--------------------------- MODULE AdditiveScrambler ---------------------------
(***************************************************************************)
(* The AdditiveScrambler block (packet-modem/additive_scrambler.hpp), in   *)
(* its form for a stream and in its form for PDUs: every bit is inverted,  *)
(* or not, by the next bit of a linear feedback shift register.            *)
(*                                                                         *)
(* The words (mask, seed and register) are the sets of their bits that are *)
(* one.  StreamBits is the register's bits for a call on items of which    *)
(* tagged have the reset tag; PduBits is those for a PDU of n items.       *)
(***************************************************************************)
EXTENDS Integers, Sequences, SequencesExt

CONSTANTS
  Mask, Seed, Length,  (* mask, seed, length                               *)
  Count                (* count, 0 if the count does not reset             *)

(* A register of Length + 1 bits that uint64_t holds. *)
ScramblerAssumption ==
  /\ Length \in 0 .. 63 /\ Count \in Nat
  /\ Mask \subseteq 0 .. Length /\ Seed \subseteq 0 .. Length

VARIABLES
  reg,                 (* _reg                                             *)
  current_count        (* _current_count                                   *)

(* The bit that leaves the register. *)
LfsrBit(r) == IF 0 \in r THEN 1 ELSE 0

Parity(r) == Cardinality(r) % 2

(* The register without its lowest bit. *)
ShiftRight(r) == {b - 1 : b \in r \ {0}}

(* Mutation: the register is one bit longer than it should be. *)
ShiftLonger(r) ==
  ShiftRight(r) \cup (IF Parity(r \cap Mask) = 1 THEN {Length + 1} ELSE {})

Shift(r) == ShiftRight(r) \cup (IF Parity(r \cap Mask) = 1 THEN {Length} ELSE {})

Reset == [reg |-> Seed, count |-> 0]

(* Mutation: the tag does not reset the register. *)
ScrambleOn(s, tagged) ==
  LET now == IF Count # 0 /\ s.count = Count
               THEN Reset ELSE [reg |-> s.reg, count |-> s.count]
  IN [count |-> now.count + 1, bits |-> Append(s.bits, LfsrBit(now.reg)),
      reg |-> Shift(now.reg)]

(* One item; tagged says that it has the reset tag. *)
Scramble(s, tagged) ==
  LET now == IF tagged \/ (Count # 0 /\ s.count = Count)
               THEN Reset ELSE [reg |-> s.reg, count |-> s.count]
  IN [count |-> now.count + 1, bits |-> Append(s.bits, LfsrBit(now.reg)),
      reg |-> Shift(now.reg)]

Run(start, tagged) ==
  FoldLeft(Scramble, [reg |-> start.reg, count |-> start.count, bits |-> <<>>], tagged)

Now == [reg |-> reg, count |-> current_count]

StreamBits(tagged) == Run(Now, tagged).bits

(* The register is reset at the beginning of each PDU. *)
PduBits(n) == Run(Reset, [i \in 1 .. n |-> FALSE]).bits

ProcessStream(tagged) ==
  /\ reg' = Run(Now, tagged).reg
  /\ current_count' = Run(Now, tagged).count

Init == reg = Seed /\ current_count = 0
=============================================================================
