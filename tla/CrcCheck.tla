------------------------------- MODULE CrcCheck -------------------------------
(***************************************************************************)
(* The CrcCheck block of the receiver (packet-modem/crc_check.hpp), with   *)
(* discard_crc set.                                                        *)
(*                                                                         *)
(* The block passes a packet without its CRC if the CRC is right, and      *)
(* drops it otherwise.  It decides over a packet that it sees whole, in    *)
(* one call.  ProcessBulk is one call on n items, with the length bits in  *)
(* the tag of the first (0: no tag) and space places in the output; good   *)
(* tells whether the CRC of the packet at the front is right.              *)
(***************************************************************************)
EXTENDS Integers

CONSTANTS
  CrcSize          (* _crc_num_bytes                                       *)

VARIABLES
  packet_len,      (* _packet_len: 0 between packets                       *)
  failed           (* the block has stopped with an error                  *)

vars == <<packet_len, failed>>

(* The length of the packet at the front.  A tag can only be read in the   *)
(* first call on its item, so the length is kept.                          *)
Whole(bits) == IF packet_len = 0 THEN bits ELSE packet_len

(* Mutation: one item more than the packet is waited for. *)
CompleteLate(bits, n) == n > Whole(bits)

(* The whole packet must be there to decide over it. *)
Complete(bits, n) == n >= Whole(bits)

Fail(bits, consumed, published) ==
  /\ Whole(bits) = 0
  /\ consumed = 0 /\ published = 0
  /\ failed' = TRUE
  /\ UNCHANGED packet_len

(* Mutation: the length is read from the tag again in every call. *)
WaitForgets(bits, n, consumed, published) ==
  /\ Whole(bits) > 0 /\ ~Complete(bits, n)
  /\ consumed = 0 /\ published = 0
  /\ UNCHANGED vars

Wait(bits, n, consumed, published) ==
  /\ Whole(bits) > 0 /\ ~Complete(bits, n)
  /\ consumed = 0 /\ published = 0
  /\ packet_len' = Whole(bits)
  /\ UNCHANGED failed

(* Too short to hold more than a CRC, or the CRC is wrong. *)
Drop(bits, n, good, consumed, published) ==
  /\ Whole(bits) > 0 /\ Complete(bits, n)
  /\ Whole(bits) <= CrcSize \/ ~good
  /\ consumed = Whole(bits) /\ published = 0
  /\ packet_len' = 0
  /\ UNCHANGED failed

NoRoom(bits, n, good, space, consumed, published) ==
  /\ Whole(bits) > CrcSize /\ Complete(bits, n) /\ good
  /\ space < Whole(bits) - CrcSize
  /\ consumed = 0 /\ published = 0
  /\ packet_len' = Whole(bits)
  /\ UNCHANGED failed

Pass(bits, n, good, space, consumed, published) ==
  /\ Whole(bits) > CrcSize /\ Complete(bits, n) /\ good
  /\ space >= Whole(bits) - CrcSize
  /\ consumed = Whole(bits)
  /\ published = Whole(bits) - CrcSize
  /\ packet_len' = 0
  /\ UNCHANGED failed

(* The length tag of a packet that is passed. *)
TagOut(bits) == Whole(bits) - CrcSize

ProcessBulk(bits, n, good, space, consumed, published) ==
  /\ ~failed
  /\ \/ Fail(bits, consumed, published)
     \/ Wait(bits, n, consumed, published)
     \/ Drop(bits, n, good, consumed, published)
     \/ NoRoom(bits, n, good, space, consumed, published)
     \/ Pass(bits, n, good, space, consumed, published)

Init == packet_len = 0 /\ failed = FALSE
=============================================================================
