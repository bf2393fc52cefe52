--------------------------- MODULE PacketTypeFilter ---------------------------
(***************************************************************************)
(* The PacketTypeFilter block (packet-modem/packet_type_filter.hpp): the   *)
(* packets of one type pass, the others are consumed.                      *)
(*                                                                         *)
(* ProcessBulk is one call on n items, with the same space in the output;  *)
(* bits is the length in the tag of the first item (0: no tag), and        *)
(* matches whether the type in that tag is packet_type.                    *)
(***************************************************************************)
EXTENDS Integers

VARIABLES
  remaining,       (* _remaining: items of the packet that are to come     *)
  valid,           (* _valid: the packet passes                            *)
  failed           (* the block has stopped with an error                  *)

vars == <<remaining, valid, failed>>

Lesser(a, b) == IF a <= b THEN a ELSE b

AtStart == remaining = 0

Left(bits) == IF AtStart THEN bits ELSE remaining

Passes(matches) == IF AtStart THEN matches ELSE valid

Fail(bits, consumed) ==
  /\ Left(bits) = 0 /\ AtStart
  /\ consumed = 0
  /\ failed' = TRUE
  /\ UNCHANGED <<remaining, valid>>

(* What is consumed of a packet that passes is also published. *)
Take(bits, n, matches, consumed) ==
  /\ Left(bits) > 0
  /\ consumed = Lesser(Left(bits), n)
  /\ remaining' = Left(bits) - consumed
  /\ valid' = Passes(matches)
  /\ UNCHANGED failed

ProcessBulk(bits, n, matches, consumed) ==
  /\ ~failed
  /\ \/ Fail(bits, consumed)
     \/ Take(bits, n, matches, consumed)

(* start() does not set _valid, which has no initial value either. *)
Init == remaining = 0 /\ valid \in BOOLEAN /\ failed = FALSE
=============================================================================
