------------------------- MODULE HeaderPayloadSplit --------------------------
(***************************************************************************)
(* The HeaderPayloadSplit block of the receiver                            *)
(* (packet-modem/header_payload_split.hpp).                                *)
(*                                                                         *)
(* Packets arrive back to back: a header of fixed size, then the payload,  *)
(* whose first item has a tag with its length.  A header that is followed  *)
(* by no such tag was not decoded, and another header follows.             *)
(* ProcessBulk is one call on n items whose first one has the tag bits (0: *)
(* no tag); an unexpected tag makes the handler throw.                     *)
(***************************************************************************)
EXTENDS Integers

CONSTANTS
  HeaderSize       (* header_size                                          *)

VARIABLES
  in_payload,      (* _in_payload                                          *)
  position,        (* _position                                            *)
  payload_items,   (* _payload_items                                       *)
  failed           (* processBulk() has thrown                             *)

vars == <<in_payload, position, payload_items, failed>>

Lesser(a, b) == IF a <= b THEN a ELSE b

Unexpected(bits) == bits # 0 /\ (in_payload \/ position # HeaderSize)

(* A header without a payload was not decoded: start another one. *)
HeaderStart == IF position = HeaderSize THEN 0 ELSE position

Throw(bits, consumed) ==
  /\ Unexpected(bits)
  /\ consumed = 0
  /\ failed' = TRUE
  /\ UNCHANGED <<in_payload, position, payload_items>>

Header(n, bits, consumed) ==
  /\ bits = 0 /\ ~in_payload
  /\ consumed = Lesser(n, HeaderSize - HeaderStart)
  /\ position' = HeaderStart + consumed
  /\ UNCHANGED <<in_payload, payload_items, failed>>

(* The end of the payload puts the block back at the start of a header. *)
CopyItems(start, items, n, consumed) ==
  /\ consumed = Lesser(n, items - start)
  /\ in_payload' = (start + consumed < items)
  /\ position' = IF start + consumed < items THEN start + consumed ELSE 0
  /\ payload_items' = items
  /\ UNCHANGED failed

Payload(n, bits, consumed) ==
  /\ ~Unexpected(bits)
  /\ \/ bits # 0 /\ CopyItems(0, bits, n, consumed)
     \/ bits = 0 /\ in_payload /\ CopyItems(position, payload_items, n, consumed)

ProcessBulk(n, bits, consumed) ==
  /\ ~failed
  /\ \/ Throw(bits, consumed)
     \/ Header(n, bits, consumed)
     \/ Payload(n, bits, consumed)

Init ==
  /\ in_payload = FALSE
  /\ position = 0
  /\ payload_items = 0
  /\ failed = FALSE
=============================================================================
