--------------------------- MODULE ContinuousStream ----------------------------
(***************************************************************************)
(* PacketToStream between a transmitter of tagged bursts, such as          *)
(* PacketTransmitter, and a sink that takes samples at its own rate        *)
(* (benchmark_packet_transmitter.cpp, qa_packet_to_stream.cpp).  The items *)
(* of a burst come in any portions, the calls at any time.                 *)
(***************************************************************************)
EXTENDS Integers, Sequences

CONSTANTS
  Modulus,         (* 2^64: the count is a uint64_t                        *)
  Lengths,         (* the lengths of bursts                                *)
  Capacity,        (* bound: items in the link                             *)
  Space,           (* bound: items that the output has space for           *)
  NumIds           (* bound: identities of bursts, reused in a circle      *)

StreamAssumption == Lengths \subseteq Nat \ {0} /\ Capacity < NumIds

VARIABLES
  burst, place,    (* the burst that is arriving, and its items so far     *)
  link,            (* items <<burst, place>> that have arrived             *)
  pdu, remaining, packet_count, failed,
  queue,           (* ghost: bursts of which not every item was sent       *)
  sent, out        (* ghost: items sent of the first; the items sent last  *)

block_vars == <<pdu, remaining, packet_count, failed>>
vars == <<burst, place, link, block_vars, queue, sent, out>>

Size(p) == p.len
Same(p) == p

B == INSTANCE PacketToStream WITH SizeOf <- Size

Packets == [id : 1 .. NumIds, len : Lengths]

(* The next item of the burst, or the first of the next. *)
Arrive(len) ==
  /\ Len(link) < Capacity
  /\ IF place = burst.len
       THEN /\ burst' = [id |-> (burst.id % NumIds) + 1, len |-> len]
            /\ place' = 1
            /\ queue' = Append(queue, burst')
       ELSE /\ place' = place + 1
            /\ UNCHANGED <<burst, queue>>
  /\ link' = Append(link, <<burst', place'>>)
  /\ UNCHANGED <<block_vars, sent, out>>

(* A tag is at the first item of a call or not there. *)
TagAt(items) == IF items # <<>> /\ items[1][2] = 1 THEN items[1][1].len ELSE 0

(* A call sees the items up to the next tag. *)
Call(n, space) ==
  LET chunk == SubSeq(link, 1, n)
  IN /\ \A i \in 2 .. n : link[i][2] > 1
     /\ \E k \in 0 .. n, gap \in BOOLEAN, ends \in 0 .. 1 :
          LET published == IF gap THEN B!Zeros(space) ELSE SubSeq(chunk, 1, k)
          IN /\ B!StreamCall(chunk, TagAt(chunk), space, published,
                             [i \in 1 .. ends |-> B!Message(i)])
             /\ gap => k = 0
             /\ out' = IF published = <<>> THEN out ELSE published
             /\ link' = SubSeq(link, k + 1, Len(link))
             /\ queue' = SubSeq(queue, ends + 1, Len(queue))
             /\ sent' = IF ends = 1 THEN 0 ELSE sent + k
     /\ UNCHANGED <<burst, place>>

CallStep == \E n \in 0 .. Len(link), space \in 1 .. Space : Call(n, space)

Next == (\E len \in Lengths : Arrive(len)) \/ CallStep

Init ==
  /\ burst = [id |-> NumIds, len |-> CHOOSE len \in Lengths : TRUE]
  /\ place = burst.len /\ link = <<>>
  /\ pdu = <<>> /\ B!Init
  /\ queue = <<>> /\ sent = 0 /\ out = <<>>

Spec == Init /\ [][Next]_vars

-----------------------------------------------------------------------------
(* The block finds a length where it looks for one ("Packets need to be    *)
(* present back-to-back in the input", packet_to_stream.hpp:29), however   *)
(* its calls cut the bursts.                                               *)
FindsTags == ~failed

Stream == INSTANCE BurstStream
            WITH Burst <- Same, Length <- Size, Gaps <- TRUE, count <- packet_count

(* The bursts leave whole and in order: "it requires input to be present   *)
(* to produce output, in order to finish the packet, instead of inserting  *)
(* zero mid-packet" (packet_to_stream.hpp:43); and the count is theirs.    *)
BurstsInOrder == Stream!Spec
=============================================================================
