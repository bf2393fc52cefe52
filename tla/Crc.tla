---------------------------------- MODULE Crc ----------------------------------
(***************************************************************************)
(* The table-driven calculator of CRCs (packet-modem/crc.hpp) that         *)
(* CrcAppend, CrcCheck and the blocks around the header use.               *)
(*                                                                         *)
(* A word is the set of its bits that are 1, from 0, the least significant *)
(* one; so exclusive or is the symmetric difference, and a word is also a  *)
(* polynomial over GF(2): the set of its exponents.  A byte has ByteBits   *)
(* bits instead of 8, and T has TBits.                                     *)
(***************************************************************************)
EXTENDS Integers, Sequences, SequencesExt, FiniteSetsExt

CONSTANTS
  ByteBits,        (* bits of a byte                                       *)
  TBits,           (* 8 * sizeof(T)                                        *)
  MaxBytes         (* bound: bytes of a message                            *)

CrcAssumption ==
  /\ ByteBits \in Nat \ {0} /\ MaxBytes \in Nat
  /\ TBits \in Nat /\ TBits >= ByteBits

VARIABLES
  setup,           (* the arguments of the constructor                     *)
  table,           (* d_table                                              *)
  rem,             (* d_rem                                                *)
  stage,           (* which of compute()'s calls was made last             *)
  message          (* ghost: the bytes since initialize()                  *)

vars == <<setup, table, rem, stage, message>>

Byte == SUBSET (0 .. ByteBits - 1)
Word(num_bits) == SUBSET (0 .. num_bits - 1)

(* Words that initial values and final masks are taken from. *)
Samples(num_bits) == {{}, {0}, 0 .. num_bits - 1}

Setups ==
  UNION {[num_bits : {n}, poly : Word(n), initial_value : Samples(n), final_xor : Samples(n),
          input_reflected : BOOLEAN, result_reflected : BOOLEAN] : n \in ByteBits .. TBits}

-----------------------------------------------------------------------------
Xor(a, b) == (a \ b) \union (b \ a)
ShiftLeft(word, k) == {b + k : b \in word} \cap (0 .. TBits - 1)
ShiftRight(word, k) == {b - k : b \in {b \in word : b >= k}}
Masked(word, num_bits) == word \cap (0 .. num_bits - 1)
Reflect(word, num_bits) == {num_bits - 1 - b : b \in Masked(word, num_bits)}

(* The register after one more bit 0, in either direction. *)
StepUp(s, crc) ==
  IF s.num_bits - 1 \in crc THEN Xor(ShiftLeft(crc, 1), s.poly) ELSE ShiftLeft(crc, 1)
StepDown(s, crc) ==
  IF 0 \in crc THEN Xor(ShiftRight(crc, 1), Reflect(s.poly, s.num_bits))
               ELSE ShiftRight(crc, 1)

(* crc when the entries whose first index i has the bit are filled. *)
PowersUp(s) ==
  LET crc[bit \in 0 .. ByteBits - 1] ==
        StepUp(s, IF bit = 0 THEN {s.num_bits - 1} ELSE crc[bit - 1])
  IN crc
PowersDown(s) ==
  LET crc[bit \in 0 .. ByteBits - 1] ==
        StepDown(s, IF bit = ByteBits - 1 THEN {0} ELSE crc[bit + 1])
  IN crc

(* The entry of i + j is made from that of j: i is the highest bit of the  *)
(* index when the loop goes up, the lowest when it goes down.              *)
TableUp(s) ==
  LET crc == PowersUp(s)
      entry[i \in Byte] ==
        IF i = {} THEN {}
        ELSE Masked(Xor(crc[Max(i)], entry[i \ {Max(i)}]), s.num_bits)
  IN entry
TableDown(s) ==
  LET crc == PowersDown(s)
      entry[i \in Byte] ==
        IF i = {} THEN {}
        ELSE Masked(Xor(crc[Min(i)], entry[i \ {Min(i)}]), s.num_bits)
  IN entry

Table(s) == IF s.input_reflected THEN TableDown(s) ELSE TableUp(s)

(* Mutation: the byte meets the low end of the register in both forms. *)
IndexLow(s, r, byte) == Masked(Xor(r, byte), ByteBits)

Index(s, r, byte) ==
  IF s.input_reflected
    THEN Masked(Xor(r, byte), ByteBits)
    ELSE Masked(Xor(ShiftRight(r, s.num_bits - ByteBits), byte), ByteBits)

(* Mutation: the register keeps what is shifted out of it. *)
NextRemUnmasked(s, t, r, byte) ==
  IF s.input_reflected
    THEN Xor(t[Index(s, r, byte)], ShiftRight(r, ByteBits))
    ELSE Xor(t[Index(s, r, byte)], ShiftLeft(r, ByteBits))

NextRem(s, t, r, byte) ==
  IF s.input_reflected
    THEN Xor(t[Index(s, r, byte)], ShiftRight(r, ByteBits))
    ELSE Masked(Xor(t[Index(s, r, byte)], ShiftLeft(r, ByteBits)), s.num_bits)

Updated(s, t, r, data) ==
  FoldLeft(LAMBDA now, byte : NextRem(s, t, now, byte), r, data)

(* Mutation: the input decides alone. *)
FinalInput(s, r) ==
  Xor(IF s.input_reflected THEN Reflect(r, s.num_bits) ELSE r, s.final_xor)

Final(s, r) ==
  Xor(IF s.input_reflected # s.result_reflected THEN Reflect(r, s.num_bits) ELSE r,
      s.final_xor)

-----------------------------------------------------------------------------
Initialize ==
  /\ stage # "updating"
  /\ rem' = setup.initial_value /\ message' = <<>> /\ stage' = "updating"
  /\ UNCHANGED <<setup, table>>

(* One call with a piece of the message. *)
Update(data) ==
  /\ stage = "updating" /\ Len(message) + Len(data) <= MaxBytes
  /\ rem' = Updated(setup, table, rem, data)
  /\ message' = message \o data
  /\ UNCHANGED <<setup, table, stage>>

Finalize ==
  /\ stage = "updating"
  /\ rem' = Final(setup, rem) /\ stage' = "final"
  /\ UNCHANGED <<setup, table, message>>

Next ==
  \/ Initialize \/ Finalize
  \/ \E size \in 1 .. 2 : \E data \in [1 .. size -> Byte] : Update(data)

Init ==
  /\ setup \in Setups
  /\ table = Table(setup) /\ rem = {}
  /\ stage = "fresh" /\ message = <<>>

Spec == Init /\ [][Next]_vars

-----------------------------------------------------------------------------
(* The polynomial of a message in the order of its bits on the air: the    *)
(* first bit has the highest exponent, and a byte begins with its lowest   *)
(* bit if the input is reflected.                                          *)
BitOf(s, bytes, i) ==
  LET byte == bytes[(i \div ByteBits) + 1]
      k == i % ByteBits
  IN (IF s.input_reflected THEN k ELSE ByteBits - 1 - k) \in byte

Length(bytes) == Len(bytes) * ByteBits

Polynomial(s, bytes) ==
  {Length(bytes) - 1 - i : i \in {i \in 0 .. Length(bytes) - 1 : BitOf(s, bytes, i)}}

(* What a register holds as a polynomial. *)
Contents(s, r) == IF s.input_reflected THEN Reflect(r, s.num_bits) ELSE r

Times(p, k) == {e + k : e \in p}

(* Long division by the polynomial of the CRC, whose degree is num_bits.   *)
Reduced(s, dividend, degree) ==
  LET n == s.num_bits
      divisor == s.poly \union {n}
  IN FoldLeft(LAMBDA r, e : IF e \in r THEN Xor(r, Times(divisor, e - n)) ELSE r,
              dividend, [i \in 1 .. degree - n + 1 |-> degree + 1 - i])

(* message(x) * x^n + initial(x) * x^length modulo the polynomial. *)
Remainder(s, bytes) ==
  LET dividend == Xor(Times(Polynomial(s, bytes), s.num_bits),
                      Times(Contents(s, s.initial_value), Length(bytes)))
  IN Reduced(s, dividend, Length(bytes) + s.num_bits - 1)

(* The register never has a bit above its width, in which the next index   *)
(* would be looked up (crc.hpp:137, where nothing is masked).              *)
TypeOK ==
  /\ rem \in Word(setup.num_bits)
  /\ table \in [Byte -> Word(setup.num_bits)]
  /\ stage \in {"fresh", "updating", "final"}

(* The table gives what the definition of a CRC asks for, with every       *)
(* combination of the settings, however the message comes in pieces        *)
(* (crc.hpp:67-156): the remainder of the division of polynomials.         *)
IsTheRemainder ==
  stage = "final" =>
    LET r == Remainder(setup, message)
    IN rem = Xor(IF setup.result_reflected THEN Reflect(r, setup.num_bits) ELSE r,
                 setup.final_xor)

(* What CrcCheck rests on: if the polynomial has its term 1, a burst of    *)
(* errors no longer than the CRC changes it, wherever it falls.            *)
Bursts(s, bytes) ==
  {e \in SUBSET (0 .. Length(bytes) - 1) :
     e # {} /\ Max(e) - Min(e) < s.num_bits}

Damaged(s, bytes, e) ==
  [i \in DOMAIN bytes |->
     {k \in 0 .. ByteBits - 1 :
        LET place == (i - 1) * ByteBits + (IF s.input_reflected THEN k ELSE ByteBits - 1 - k)
        IN k \in bytes[i] <=> place \notin e}]

DetectsBursts ==
  stage = "final" /\ 0 \in setup.poly =>
    \A e \in Bursts(setup, message) :
      Final(setup, Updated(setup, table, setup.initial_value, Damaged(setup, message, e)))
        # rem
=============================================================================
