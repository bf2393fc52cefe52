--------------------------- MODULE TaggedStreamToPdu --------------------------
(***************************************************************************)
(* The TaggedStreamToPdu block (packet-modem/tagged_stream_to_pdu.hpp):    *)
(* packets of a stream, with their length in the tag of their first item,  *)
(* become PDUs, with the other contents of that tag and those of the tags  *)
(* of later items among the tags of the PDU.                               *)
(*                                                                         *)
(* ProcessBulk is one call on chunk, a sequence of items; the field bits   *)
(* of an item is the length in its tag, 0 if it has no tag, and its field  *)
(* of is what else the tag says.  The runtime keeps the tag that it gave   *)
(* to a call until a call that consumes and publishes, or until the block  *)
(* clears it.                                                              *)
(***************************************************************************)
EXTENDS Integers, Sequences

VARIABLES
  remaining,       (* _remaining: items of the packet that are to come     *)
  index,           (* _index: items of the packet in _pdu                  *)
  pdu,             (* _pdu                                                 *)
  merged_tag,      (* _mergedInputTag: no item, or the one with the tag    *)
  failed           (* the block has stopped with an error                  *)

vars == <<remaining, index, pdu, merged_tag, failed>>

EmptyPdu == [data |-> <<>>, tags |-> <<>>]

Lesser(a, b) == IF a <= b THEN a ELSE b

AtStart == remaining = 0

(* The tag that a call sees. *)
Merged(chunk) == IF chunk[1].bits > 0 THEN <<chunk[1]>> ELSE merged_tag

Left(chunk) ==
  CASE ~AtStart                         -> remaining
    [] AtStart /\ Merged(chunk) = <<>>  -> 0
    [] OTHER                            -> Merged(chunk)[1].bits

Place == IF AtStart THEN 0 ELSE index

(* Only in the first call of a packet is there a length to take away. *)
Noted(chunk) == [i \in DOMAIN Merged(chunk) |-> [index |-> Place, of |-> Merged(chunk)[i].of]]

Collected(chunk) ==
  LET begun == IF AtStart THEN EmptyPdu ELSE pdu
  IN [data |-> begun.data \o SubSeq(chunk, 1, Lesser(Left(chunk), Len(chunk))),
      tags |-> begun.tags \o Noted(chunk)]

Fail(chunk, consumed, published) ==
  /\ Left(chunk) = 0
  /\ consumed = 0 /\ published = <<>>
  /\ failed' = TRUE
  /\ UNCHANGED <<remaining, index, pdu, merged_tag>>

(* Mutation: the tag is left to the runtime, which does not clear it. *)
CollectKeeps(chunk, consumed, published) ==
  /\ Left(chunk) > Len(chunk)
  /\ consumed = Len(chunk) /\ published = <<>>
  /\ remaining' = Left(chunk) - consumed
  /\ index' = Place + consumed
  /\ pdu' = Collected(chunk)
  /\ merged_tag' = Merged(chunk)
  /\ UNCHANGED failed

(* The packet goes on behind the chunk. *)
Collect(chunk, consumed, published) ==
  /\ Left(chunk) > Len(chunk)
  /\ consumed = Len(chunk) /\ published = <<>>
  /\ remaining' = Left(chunk) - consumed
  /\ index' = Place + consumed
  /\ pdu' = Collected(chunk)
  /\ merged_tag' = <<>>
  /\ UNCHANGED failed

Publish(chunk, consumed, published) ==
  /\ Left(chunk) \in 1 .. Len(chunk)
  /\ consumed = Left(chunk) /\ published = <<Collected(chunk)>>
  /\ remaining' = 0
  /\ index' = Place + consumed
  /\ pdu' = EmptyPdu
  /\ merged_tag' = <<>>
  /\ UNCHANGED failed

ProcessBulk(chunk, consumed, published) ==
  /\ ~failed
  /\ \/ Fail(chunk, consumed, published)
     \/ Collect(chunk, consumed, published)
     \/ Publish(chunk, consumed, published)

Init ==
  /\ remaining = 0 /\ index = 0
  /\ pdu = EmptyPdu /\ merged_tag = <<>>
  /\ failed = FALSE
=============================================================================
