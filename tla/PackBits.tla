------------------------------- MODULE PackBits -------------------------------
(***************************************************************************)
(* The stream form of the PackBits block (packet-modem/pack_bits.hpp).     *)
(*                                                                         *)
(* Each InputsPerOutput items of the input become one item of the output.  *)
(* What is packed is given by the place of its bits in their packet; their *)
(* values are in module PacketModulation.  ProcessBulk is one call on      *)
(* chunk, a sequence of items with at most one tag, on the first.          *)
(***************************************************************************)
EXTENDS Integers, Sequences

CONSTANTS
  InputsPerOutput  (* inputs_per_output                                    *)

VARIABLES
  failed           (* the block has stopped with an error                  *)

(* The bits that make byte k of a packet. *)
BitsOf(p, k) ==
  [i \in 1 .. InputsPerOutput |->
     [of |-> p, place |-> (k - 1) * InputsPerOutput + i]]

Place(item) == (item.place + InputsPerOutput - 1) \div InputsPerOutput

(* Mutation: the length goes on in bits. *)
TagInBits(bits) == bits

TagOut(bits) == bits \div InputsPerOutput

(* One item of the output: a byte of a packet, or place 0 for bits that    *)
(* are not those of a byte.                                                *)
Join(bits, tag) ==
  LET plain == [i \in DOMAIN bits |-> [of |-> bits[i].of, place |-> bits[i].place]]
      byte  == Place(bits[1])
  IN [of |-> bits[1].of,
      place |-> IF plain = BitsOf(bits[1].of, byte) THEN byte ELSE 0,
      bits |-> tag]

Packed(chunk) ==
  [k \in 1 .. Len(chunk) \div InputsPerOutput |->
     Join(SubSeq(chunk, (k - 1) * InputsPerOutput + 1, k * InputsPerOutput),
          IF k = 1 THEN TagOut(chunk[1].bits) ELSE 0)]

ProcessBulk(chunk, published) ==
  /\ ~failed
  /\ IF chunk[1].bits % InputsPerOutput = 0
       THEN published = Packed(chunk) /\ UNCHANGED failed
       ELSE published = <<>> /\ failed' = TRUE

Init == failed = FALSE
=============================================================================
