---------------------------- MODULE PacketIngress -----------------------------
(***************************************************************************)
(* The stream form of the PacketIngress block of the transmitter           *)
(* (packet-modem/packet_ingress.hpp).                                      *)
(*                                                                         *)
(* Packets arrive as a stream in which the first item of each packet has a *)
(* tag with the length.  The block sends one metadata message for a packet *)
(* that fits in the length field of the header and passes its items on; it *)
(* swallows the items of a longer packet.                                  *)
(*                                                                         *)
(* ProcessBulk is one call on a chunk of n items and an equal space in the *)
(* output.  The input is well formed: a packet starts where one ends, so   *)
(* the errors for a missing tag do not occur.                              *)
(***************************************************************************)
EXTENDS Integers

CONSTANTS
  MaxLength        (* the longest packet a header can announce: 65535      *)

VARIABLES
  remaining,       (* _remaining                                           *)
  valid,           (* _valid                                               *)
  failed           (* the assertion on the metadata output has failed      *)

vars == <<remaining, valid, failed>>

Lesser(a, b) == IF a <= b THEN a ELSE b

AtStart == remaining = 0

Fits(length) == length <= MaxLength

(* Mutation: a message is sent for the dropped packets too. *)
SendsAlways(length) == AtStart

(* A metadata message goes out with the first chunk of a valid packet. *)
Sends(length) == AtStart /\ Fits(length)

Passes(length) == IF AtStart THEN Fits(length) ELSE valid

(* The items of the packet that are still to come when the call starts. *)
Left(length) == IF AtStart THEN length ELSE remaining

(* Every call requires room for a message, needed or not. *)
NoRoom(room, consumed) ==
  /\ ~room
  /\ consumed = 0
  /\ failed' = TRUE
  /\ UNCHANGED <<remaining, valid>>

Pass(length, n, room, consumed) ==
  /\ room
  /\ consumed = Lesser(Left(length), n)
  /\ remaining' = Left(length) - consumed
  /\ valid' = Passes(length)
  /\ UNCHANGED failed

ProcessBulk(length, n, room, consumed) ==
  /\ ~failed
  /\ \/ NoRoom(room, consumed)
     \/ Pass(length, n, room, consumed)

(* start() leaves _valid alone: it is set before it is read. *)
Init ==
  /\ remaining = 0
  /\ valid \in BOOLEAN
  /\ failed = FALSE
=============================================================================
