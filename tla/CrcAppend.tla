------------------------------ MODULE CrcAppend -------------------------------
(***************************************************************************)
(* The stream form of the CrcAppend block of the transmitter               *)
(* (packet-modem/crc_append.hpp).                                          *)
(*                                                                         *)
(* The block copies each packet, adds the CRC behind it and corrects the   *)
(* length in the tag of its first item.  Its output is asynchronous: a     *)
(* call gets the free space of the output buffer as it is.  ProcessBulk is *)
(* one call on n items, the first of them with the tag bits (0: no tag),   *)
(* and space places in the output.                                         *)
(***************************************************************************)
EXTENDS Integers

CONSTANTS
  CrcSize          (* _crc_num_bytes                                       *)

VARIABLES
  data_remaining,  (* _data_remaining                                      *)
  failed           (* the block has stopped with an error                  *)

vars == <<data_remaining, failed>>

Lesser(a, b) == IF a <= b THEN a ELSE b

AtStart == data_remaining = 0

(* The items of the packet that are still to come when the call starts. *)
Left(bits) == IF AtStart THEN bits ELSE data_remaining

Possible(bits, n, space) == Lesser(Left(bits), Lesser(n, space))

(* Mutation: the data is consumed without looking at the room for the CRC. *)
ConsumesAll(bits, n, space) == Possible(bits, n, space)

(* Mutation: the test for the room asks for one place too many. *)
ConsumesStrict(bits, n, space) ==
  IF Possible(bits, n, space) + CrcSize >= space
    THEN Possible(bits, n, space) - 1
    ELSE Possible(bits, n, space)

(* One item is kept back when there is no room for the CRC behind what     *)
(* could be copied.  A result of -1 is the unsigned number that wraps.     *)
Consumes(bits, n, space) ==
  IF Possible(bits, n, space) + CrcSize > space
    THEN Possible(bits, n, space) - 1
    ELSE Possible(bits, n, space)

(* Mutation: the length tag does not count the CRC. *)
TagWithout(bits) == IF AtStart THEN bits ELSE 0

(* The length tag of the output, on the first item published. *)
TagOut(bits) == IF AtStart THEN bits + CrcSize ELSE 0

(* Between packets and without input there is nothing to do. *)
Idle(n, consumed, published) ==
  /\ AtStart /\ n = 0
  /\ consumed = 0 /\ published = 0
  /\ UNCHANGED vars

(* The packet does not begin with its length, or consume() cannot consume  *)
(* what the subtraction that wraps asks for.  Either way the block stops:  *)
(* what its state is then is not read again.                               *)
Fail(bits, n, space, consumed, published) ==
  /\ ~(AtStart /\ n = 0)
  /\ Left(bits) = 0 \/ Consumes(bits, n, space) < 0
  /\ consumed = 0 /\ published = 0
  /\ failed' = TRUE
  /\ UNCHANGED data_remaining

Copy(bits, n, space, consumed, published) ==
  /\ ~(AtStart /\ n = 0)
  /\ Left(bits) > 0
  /\ consumed = Consumes(bits, n, space)
  /\ consumed >= 0
  /\ data_remaining' = Left(bits) - consumed
  /\ published = consumed + (IF data_remaining' = 0 THEN CrcSize ELSE 0)
  /\ UNCHANGED failed

ProcessBulk(bits, n, space, consumed, published) ==
  /\ ~failed
  /\ \/ Idle(n, consumed, published)
     \/ Fail(bits, n, space, consumed, published)
     \/ Copy(bits, n, space, consumed, published)

Init ==
  /\ data_remaining = 0
  /\ failed = FALSE
=============================================================================
