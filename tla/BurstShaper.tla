----------------------------- MODULE BurstShaper ------------------------------
(***************************************************************************)
(* The two forms of the BurstShaper block (packet-modem/burst_shaper.hpp). *)
(*                                                                         *)
(* The first items of a packet are multiplied by the leading shape and the *)
(* last ones by the trailing shape.  What an item is multiplied by is      *)
(* written as a pair: the shape and the index in it.  The stream form sees *)
(* a packet in chunks; n is the number of items of a chunk and bits the    *)
(* length in the tag of its first item (0: no tag).                        *)
(***************************************************************************)
EXTENDS Integers, Sequences

CONSTANTS
  Leading,         (* leading_shape.size()                                 *)
  Trailing,        (* trailing_shape.size()                                *)
  Lengths,         (* the lengths of the packets                           *)
  MaxChunk         (* bound: the items that are offered to one call        *)

ASSUME ShaperAssumption ==
  /\ Leading \in Nat /\ Trailing \in Nat
  /\ Lengths \subseteq Nat \ {0}
  /\ MaxChunk \in Nat \ {0}

VARIABLES
  remaining,       (* _remaining                                           *)
  packet_len,      (* _packet_len                                          *)
  failed,          (* the block has stopped with an error                  *)
  place,           (* items of the packet that were published              *)
  out              (* what the items published last were multiplied by     *)

shaper_vars == <<remaining, packet_len, failed>>
vars == <<remaining, packet_len, failed, place, out>>

Lesser(a, b) == IF a <= b THEN a ELSE b

Plain == <<"plain", 0>>

AtStart == remaining = 0

Length(bits) == IF AtStart THEN bits ELSE packet_len

Left(bits) == IF AtStart THEN bits ELSE remaining

Position(bits) == Length(bits) - Left(bits)

(* The three parts of a chunk: its items under the leading shape, ...      *)
Led(bits, n) ==
  IF Position(bits) < Leading THEN Lesser(Leading - Position(bits), n) ELSE 0

(* Mutation: the items led in this call are not counted. *)
CopiedLate(bits, n) ==
  IF Left(bits) > Trailing
    THEN Lesser(Left(bits) - Trailing, n - Led(bits, n)) ELSE 0

(* ... those that are copied, ... *)
Copied(bits, n) ==
  LET left == Left(bits) - Led(bits, n)
  IN IF left > Trailing THEN Lesser(left - Trailing, n - Led(bits, n)) ELSE 0

(* Mutation: the rest of the packet is trailed, not the rest of the chunk. *)
TrailedBeyond(bits, n) == Left(bits) - (Led(bits, n) + Copied(bits, n))

(* ... and those under the trailing shape. *)
Trailed(bits, n) ==
  LET before == Led(bits, n) + Copied(bits, n)
  IN Lesser(Left(bits) - before, n - before)

Consumed(bits, n) == Led(bits, n) + Copied(bits, n) + Trailed(bits, n)

ShapeOf(bits, n, i) ==
  LET before == Led(bits, n) + Copied(bits, n)
  IN CASE i <= Led(bits, n) -> <<"leading", Position(bits) + i>>
       [] i > before        -> <<"trailing", Trailing - (Left(bits) - i)>>
       [] OTHER             -> Plain

Fail(bits, shapes) ==
  /\ Length(bits) = 0
  /\ shapes = <<>>
  /\ failed' = TRUE
  /\ UNCHANGED <<remaining, packet_len>>

Shape(bits, n, shapes) ==
  /\ Length(bits) > 0
  /\ shapes = [i \in 1 .. Consumed(bits, n) |-> ShapeOf(bits, n, i)]
  /\ packet_len' = Length(bits)
  /\ remaining' = Left(bits) - Consumed(bits, n)
  /\ UNCHANGED failed

(* One call of the stream form. *)
ProcessBulk(bits, n, shapes) ==
  /\ ~failed
  /\ \/ Fail(bits, shapes)
     \/ Shape(bits, n, shapes)

(* What the PDU form multiplies item i of a packet of len items by. *)
ProcessOne(len, i) ==
  LET trailed == IF len > Leading THEN Lesser(len - Leading, Trailing) ELSE 0
  IN CASE i <= Lesser(Leading, len) -> <<"leading", i>>
       [] i > len - trailed         -> <<"trailing", Trailing - (len - i)>>
       [] OTHER                     -> Plain

-----------------------------------------------------------------------------
(* The next chunk, which does not go beyond the next tag. *)
Next ==
  \E len \in (IF AtStart THEN Lengths ELSE {packet_len}), n \in 1 .. MaxChunk :
    /\ n <= (IF AtStart THEN len ELSE remaining)
    /\ ProcessBulk(IF AtStart THEN len ELSE 0, n, out')
    /\ place' = (IF AtStart THEN 0 ELSE place) + Len(out')

StreamInit == remaining = 0 /\ packet_len = 0 /\ failed = FALSE

Init == StreamInit /\ place = 0 /\ out = <<>>

Spec == Init /\ [][Next]_vars

-----------------------------------------------------------------------------
Shapes == {Plain} \cup ({"leading", "trailing"} \X Nat)

TypeOK ==
  /\ remaining \in Nat /\ packet_len \in Lengths \cup {0}
  /\ failed = FALSE
  /\ place \in Nat
  /\ out \in Seq(Shapes)

(* The place of the i-th of the items published last. *)
PlaceOf(i) == place - Len(out) + i

(* The stream form and the PDU form of the block shape a packet alike,     *)
(* whatever its length and whatever its chunks (burst_shaper.hpp:94-122    *)
(* and 153-165).                                                           *)
FormsAgree == \A i \in DOMAIN out : out[i] = ProcessOne(packet_len, PlaceOf(i))

(* "It multiplies [...] the last trailing_shape.size() items in each       *)
(* packet by the elements of trailing_shape" (burst_shaper.hpp:24-26): the *)
(* item before last by the one before last, and so on.                     *)
LastItemsTrailed ==
  \A i \in DOMAIN out :
    packet_len - PlaceOf(i) < Trailing
      => out[i] = <<"trailing", Trailing - (packet_len - PlaceOf(i))>>
=============================================================================
