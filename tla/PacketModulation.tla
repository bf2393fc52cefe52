--------------------------- MODULE PacketModulation ---------------------------
(***************************************************************************)
(* The middle of the transmitter (packet-modem/packet_transmitter.hpp),    *)
(* from the frames of the first PacketMux to the symbols for the second:   *)
(*                                                                         *)
(*   bytes -> UnpackBits -> bits -> AdditiveScrambler -> scrambled         *)
(*         -> PackBits -> nibbles -> Mapper -> symbols                     *)
(*                                                                         *)
(* The blocks are called at any time on any part of what their links hold. *)
(* An item has its value and the length in its tag, 0 without.             *)
(***************************************************************************)
EXTENDS Integers, Sequences, SequencesExt

CONSTANTS
  OutputsPerInput,     (* of UnpackBits: bits of a byte                    *)
  InputsPerOutput,     (* of PackBits: bits of a symbol                    *)
  Map,                 (* of Mapper: the constellation                     *)
  Mask, Seed, Degree, Count,  (* of AdditiveScrambler; Degree is length *)
  Frames,              (* the frames that may come, sequences of bytes     *)
  BytesCapacity,       (* bound: items in bytes                            *)
  BitsCapacity,        (* bound: items in bits                             *)
  ScrambledCapacity,   (* bound: items in scrambled                        *)
  NibblesCapacity      (* bound: items in nibbles                          *)

VARIABLES
  bytes, bits, scrambled, nibbles,  (* the links                           *)
  reg, current_count,
  failed,              (* PackBits has stopped with an error               *)
  queue,               (* ghost: frames whose symbols are not all replaced *)
  sent                 (* ghost: the symbols of the first of them so far   *)

SCR == INSTANCE AdditiveScrambler WITH Length <- Degree

scr_vars == <<reg, current_count>>
vars == <<bytes, bits, scrambled, nibbles, scr_vars, failed, queue, sent>>

(* The settings with which PacketTransmitter makes the blocks: the map has *)
(* an entry for every value, and each link holds what a call needs.        *)
ModulationAssumption ==
  /\ OutputsPerInput \in Nat \ {0} /\ InputsPerOutput \in Nat \ {0}
  /\ OutputsPerInput % InputsPerOutput = 0
  /\ Len(Map) = 2^InputsPerOutput
  /\ SCR!ScramblerAssumption
  /\ \A frame \in Frames : Len(frame) \in 1 .. BytesCapacity
  /\ BitsCapacity >= OutputsPerInput /\ ScrambledCapacity >= InputsPerOutput
  /\ NibblesCapacity \in Nat \ {0}

-----------------------------------------------------------------------------
Rest(link, n) == SubSeq(link, n + 1, Len(link))

(* A chunk of a link: the items after the first have no tag. *)
IsChunk(link, n) == n <= Len(link) /\ \A i \in 2 .. n : link[i].len = 0

(* The items of a frame or of a chunk; the first has the tag. *)
Tagged(values, len) ==
  [i \in DOMAIN values |-> [value |-> values[i], len |-> IF i = 1 THEN len ELSE 0]]

(* PacketMux sends a frame with its length. *)
Accept(frame) ==
  /\ Len(bytes) + Len(frame) <= BytesCapacity
  /\ bytes' = bytes \o Tagged(frame, Len(frame))
  /\ queue' = Append(queue, frame)
  /\ UNCHANGED <<bits, scrambled, nibbles, scr_vars, failed, sent>>

Bit(x, i) == (x \div 2^i) % 2

(* Mutation: the last bit of a byte comes first. *)
UnpackedLast(values) ==
  [i \in 1 .. Len(values) * OutputsPerInput |->
     Bit(values[((i - 1) \div OutputsPerInput) + 1], (i - 1) % OutputsPerInput)]

(* The bits of bytes; the most significant bit of a byte comes first. *)
Unpacked(values) ==
  [i \in 1 .. Len(values) * OutputsPerInput |->
     Bit(values[((i - 1) \div OutputsPerInput) + 1],
         OutputsPerInput - 1 - ((i - 1) % OutputsPerInput))]

(* Mutation: the length stays in bytes. *)
LengthInBytes(len) == len

LengthInBits(len) == len * OutputsPerInput

Values(link, n) == [i \in 1 .. n |-> link[i].value]

Unpack(n) ==
  /\ IsChunk(bytes, n)
  /\ Len(bits) + n * OutputsPerInput <= BitsCapacity
  /\ bits' = bits \o Tagged(Unpacked(Values(bytes, n)), LengthInBits(bytes[1].len))
  /\ bytes' = Rest(bytes, n)
  /\ UNCHANGED <<scrambled, nibbles, scr_vars, failed, queue, sent>>

Xor(a, b) == (a + b) % 2

(* The register is reset at the item that has the length tag. *)
Scramble(n) ==
  LET tagged  == [i \in 1 .. n |-> bits[i].len # 0]
      inverts == SCR!StreamBits(tagged)
  IN /\ n <= Len(bits)
     /\ Len(scrambled) + n <= ScrambledCapacity
     /\ SCR!ProcessStream(tagged)
     /\ scrambled' = scrambled \o
           [i \in 1 .. n |-> [bits[i] EXCEPT !.value = Xor(@, inverts[i])]]
     /\ bits' = Rest(bits, n)
     /\ UNCHANGED <<bytes, nibbles, failed, queue, sent>>

(* The numbers that groups of bits make, the first bit the highest. *)
Packed(values) ==
  [k \in 1 .. Len(values) \div InputsPerOutput |->
     FoldLeft(LAMBDA join, bit : 2 * join + bit, 0,
              SubSeq(values, (k - 1) * InputsPerOutput + 1, k * InputsPerOutput))]

(* n items of the output. *)
Pack(n) ==
  LET size == n * InputsPerOutput
      len  == scrambled[1].len
  IN /\ ~failed
     /\ IsChunk(scrambled, size)
     /\ Len(nibbles) + n <= NibblesCapacity
     /\ IF len % InputsPerOutput = 0
          THEN /\ nibbles' = nibbles \o
                     Tagged(Packed(Values(scrambled, size)), len \div InputsPerOutput)
               /\ scrambled' = Rest(scrambled, size)
               /\ UNCHANGED failed
          ELSE failed' = TRUE /\ UNCHANGED <<nibbles, scrambled>>
     /\ UNCHANGED <<bytes, bits, scr_vars, queue, sent>>

(* Mutation: the map has as many entries as its mask says. *)
MappedShort(value) == Map[(value % (Len(Map) - 1)) + 1]

(* The size of the map is a power of two, so the mask is a remainder. *)
Mapped(value) == Map[(value % Len(Map)) + 1]

SymbolsOf(frame) == (Len(frame) * OutputsPerInput) \div InputsPerOutput

(* Mapper sends symbols; after the last of a frame those of the next come. *)
Modulate(n) ==
  LET symbols == [i \in 1 .. n |-> [symbol |-> Mapped(nibbles[i].value),
                                    len |-> nibbles[i].len]]
      next    == Len(sent) = SymbolsOf(Head(queue))
  IN /\ IsChunk(nibbles, n)
     /\ sent' = IF next THEN symbols ELSE sent \o symbols
     /\ queue' = IF next THEN Tail(queue) ELSE queue
     /\ nibbles' = Rest(nibbles, n)
     /\ UNCHANGED <<bytes, bits, scrambled, scr_vars, failed>>

AcceptStep == \E frame \in Frames : Accept(frame)
UnpackStep == \E n \in 1 .. BytesCapacity : n <= Len(bytes) /\ Unpack(n)
ScrambleStep == \E n \in 1 .. BitsCapacity : n <= Len(bits) /\ Scramble(n)
PackStep ==
  \E n \in 1 .. NibblesCapacity : n * InputsPerOutput <= Len(scrambled) /\ Pack(n)
ModulateStep == \E n \in 1 .. NibblesCapacity : n <= Len(nibbles) /\ Modulate(n)

Next == AcceptStep \/ UnpackStep \/ ScrambleStep \/ PackStep \/ ModulateStep

Init ==
  /\ bytes = <<>> /\ bits = <<>> /\ scrambled = <<>> /\ nibbles = <<>>
  /\ SCR!Init
  /\ failed = FALSE /\ queue = <<>> /\ sent = <<>>

Spec == Init /\ [][Next]_vars

-----------------------------------------------------------------------------
(* The number whose digits are the bytes of a frame. *)
NumberOf(frame) == FoldLeft(LAMBDA x, byte : x * 2^OutputsPerInput + byte, 0, frame)

(* What a frame becomes as a whole: the digits of its number, scrambled    *)
(* like a PDU of their own.                                                *)
Modulated(frame) ==
  LET total   == Len(frame) * OutputsPerInput
      inverts == SCR!PduBits(total)
      Whole   == FoldLeft(LAMBDA x, i : 2 * x + Xor(Bit(NumberOf(frame), total - i), inverts[i]),
                          0, [i \in 1 .. total |-> i])
      size    == SymbolsOf(frame)
      Digit(k) == (Whole \div Len(Map)^(size - k)) % Len(Map)
  IN [k \in 1 .. size |-> [symbol |-> Map[Digit(k) + 1],
                           len |-> IF k = 1 THEN size ELSE 0]]

(* However the streams are cut, the symbols of each frame are those of the *)
(* frame scrambled and mapped as a whole, with their number in the tag of  *)
(* the first and no other tag: the register begins anew with each frame    *)
(* and no length is ever refused (packet_transmitter.hpp:66-80).           *)
ModulatesInStep ==
  /\ ~failed
  /\ queue # <<>> => IsPrefix(sent, Modulated(Head(queue)))
=============================================================================
