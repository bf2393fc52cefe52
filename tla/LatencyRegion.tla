---------------------------- MODULE LatencyRegion ----------------------------
(***************************************************************************)
(* The latency management of the transmitter: a limiter at the entry of a  *)
(* region of the flowgraph, a counter at its exit, and count messages back *)
(* from the counter to the limiter.                                        *)
(*                                                                         *)
(*   Limit --ingress--> Check --pipeline--> Leave                          *)
(*     ^                                      |                            *)
(*     +--------------- counts ---------------+                            *)
(*                                                                         *)
(* The limiter is TunSource (tun_source.hpp) or PacketLimiter<Pdu>         *)
(* (packet_limiter.hpp), which decide with the same code; the counter is   *)
(* PacketToStream (packet_to_stream.hpp) or PacketCounter                  *)
(* (packet_counter.hpp).  Check is PacketIngress<Pdu>                      *)
(* (packet_ingress.hpp), the first block of the region.                    *)
(*                                                                         *)
(* The counters are unsigned integers that wrap; each block runs at any    *)
(* time, and messages take any time to be seen.                            *)
(***************************************************************************)
EXTENDS Integers, Sequences, SequenceTheorems, TLAPS

CONSTANTS
  Modulus,      (* 2^64: the counters are uint64_t                         *)
  MaxPackets,   (* max_packets, 0 for no limit                             *)
  MaxOffered,   (* bound: packets offered to one call                      *)
  Oversize      (* TRUE when packets may be longer than a header can say   *)

ASSUME LimitAssumption ==
  /\ Modulus \in Nat /\ MaxPackets \in Nat
  /\ MaxPackets < Modulus
  /\ MaxOffered \in Nat \ {0}
  /\ Oversize \in BOOLEAN

VARIABLES
  entry_count,    (* _entry_count of the limiter                           *)
  exit_count,     (* _exit_count of the limiter                            *)
  ingress,        (* packets on the way to PacketIngress                   *)
  pipeline,       (* packets between PacketIngress and the counter         *)
  packet_count,   (* _packet_count or _count of the counter                *)
  counts,         (* count messages that the limiter has not seen          *)
  dropped         (* ghost: packets that PacketIngress has dropped         *)

vars == <<entry_count, exit_count, ingress, pipeline, packet_count, counts, dropped>>

Counter == 0 .. Modulus - 1

(* Sums and differences of unsigned counters. *)
Wrap(x) == x % Modulus
Minus(a, b) == Wrap(a - b)

Lesser(a, b) == IF a <= b THEN a ELSE b

(* Mutation: the first of the messages instead of the last. *)
FirstSeen(seen) == IF seen = 0 THEN exit_count ELSE counts[1]

(* The limiter takes the last of the messages it sees and discards the     *)
(* others.                                                                 *)
LastSeen(seen) == IF seen = 0 THEN exit_count ELSE counts[seen]

(* Mutation: one packet too many. *)
RoomAtLimit(exit) ==
  IF MaxPackets > 0
    THEN IF Minus(entry_count, exit) > MaxPackets
           THEN 0 ELSE MaxPackets + 1 - Minus(entry_count, exit)
    ELSE MaxOffered

(* The iterations for which the condition of the limiter holds. *)
Room(exit) ==
  IF MaxPackets > 0
    THEN IF Minus(entry_count, exit) >= MaxPackets
           THEN 0 ELSE MaxPackets - Minus(entry_count, exit)
    ELSE MaxOffered

(* One call of the limiter, which sees some of the messages and is offered *)
(* some packets.                                                           *)
Limit(seen, offered) ==
  LET admitted == Lesser(offered, Room(LastSeen(seen)))
  IN /\ exit_count' = LastSeen(seen)
     /\ counts' = SubSeq(counts, seen + 1, Len(counts))
     /\ entry_count' = Wrap(entry_count + admitted)
     /\ ingress' = ingress + admitted
     /\ UNCHANGED <<pipeline, packet_count, dropped>>

(* One call of PacketIngress on k packets, of which bad are too long. *)
Check(k, bad) ==
  /\ ingress >= k
  /\ ingress' = ingress - k
  /\ pipeline' = pipeline + (k - bad)
  /\ dropped' = dropped + bad
  /\ UNCHANGED <<entry_count, exit_count, packet_count, counts>>

(* Mutation: one message for the whole call, with the first of the counts. *)
LeaveOnce(k) ==
  /\ pipeline >= k
  /\ pipeline' = pipeline - k
  /\ packet_count' = Wrap(packet_count + 1)
  /\ counts' = Append(counts, Wrap(packet_count + 1))
  /\ UNCHANGED <<entry_count, exit_count, ingress, dropped>>

(* One call of the counter that k packets cross.  PacketCounter looks at   *)
(* no free space before it writes the message (packet_counter.hpp:57-61).  *)
Leave(k) ==
  /\ pipeline >= k
  /\ pipeline' = pipeline - k
  /\ packet_count' = Wrap(packet_count + k)
  /\ counts' = counts \o [i \in 1 .. k |-> Wrap(packet_count + i)]
  /\ UNCHANGED <<entry_count, exit_count, ingress, dropped>>

LimitStep ==
  \E seen \in 0 .. Len(counts), offered \in 0 .. MaxOffered : Limit(seen, offered)
CheckStep ==
  \E k \in 1 .. ingress, bad \in 0 .. ingress :
    bad <= k /\ (bad > 0 => Oversize) /\ Check(k, bad)
LeaveStep == \E k \in 1 .. pipeline : Leave(k)

Next == LimitStep \/ CheckStep \/ LeaveStep

InitWith(count) ==
  /\ entry_count = 0 /\ exit_count = 0
  /\ ingress = 0 /\ pipeline = 0 /\ dropped = 0
  /\ packet_count = count
  /\ counts = <<>>

(* start() zeroes the counters ... *)
Init == InitWith(0)

(* ... except in PacketCounter<Pdu>, which has no start() and whose _count *)
(* has no initial value (packet_counter.hpp:91-100).                       *)
UnsetInit == \E count \in Counter : InitWith(count)

(* A call that sees every message; the scheduler calls each block again    *)
(* and again, and packets or idle packets keep being offered.              *)
SeeAll == \E offered \in 1 .. MaxOffered : Limit(Len(counts), offered)

Fairness == WF_vars(SeeAll) /\ WF_vars(CheckStep) /\ WF_vars(LeaveStep)

Spec == Init /\ [][Next]_vars
FairSpec == Spec /\ Fairness
UnsetSpec == UnsetInit /\ [][Next]_vars /\ Fairness

-----------------------------------------------------------------------------
TypeOK ==
  /\ entry_count \in Counter /\ exit_count \in Counter
  /\ packet_count \in Counter
  /\ ingress \in Nat /\ pipeline \in Nat /\ dropped \in Nat
  /\ counts \in Seq(Counter)

(* The packets that the limiter believes to be inside. *)
Window == Minus(entry_count, exit_count)

(* The packets inside, and the messages about those that have left, are at *)
(* most max_packets: "The maximum number of packets in the region is       *)
(* defined by `max_packets`" (packet_limiter.hpp:22).  So the counter,     *)
(* which writes its messages unchecked, needs max_packets of space.        *)
RegionBounded ==
  MaxPackets > 0 => ingress + pipeline + Len(counts) <= MaxPackets

(* The limiter's picture of the region differs from the truth exactly by   *)
(* the messages it has not seen and the packets that were dropped, however *)
(* the counters wrap and the messages lag.                                 *)
WindowExact ==
  MaxPackets > 0 => Window = ingress + pipeline + Len(counts) + dropped

(* The limiter never stays closed: packets keep entering the region, also  *)
(* after "Invalid packets (packets that are too long to be a valid packet  *)
(* to be transmitted) are dropped" inside it (packet_ingress.hpp).         *)
KeepsAdmitting == []<><<entry_count' # entry_count>>_vars

(* The limiter stays closed for ever only if max_packets packets were      *)
(* dropped inside the region.                                              *)
ClosedOnlyByDrops == [](dropped < MaxPackets) => KeepsAdmitting

-----------------------------------------------------------------------------
(* Proofs, for every width of the counters, every limit below it and any   *)
(* delay of the messages.  The limit is on (MaxPackets > 0): without it    *)
(* the limiter admits everything.                                          *)

(* Unsigned arithmetic.                                                    *)

(* The remainder of a number that is at most one turn away from 0 ..       *)
(* Modulus - 1.                                                            *)
LEMMA WrapOneTurn ==
  /\ \A x \in Int : Wrap(x) \in Counter
  /\ \A x \in Int : 0 <= x /\ x < Modulus => Wrap(x) = x
  /\ \A x \in Int : Modulus <= x /\ x < 2 * Modulus => Wrap(x) = x - Modulus
  /\ \A x \in Int : 0 - Modulus <= x /\ x < 0 => Wrap(x) = x + Modulus
<1>1. Modulus \in Nat \ {0}
  BY LimitAssumption
<1>2. \A x \in Int : Wrap(x) \in Counter
  BY <1>1 DEF Wrap, Counter
<1>3. \A x \in Int : 0 <= x /\ x < Modulus => Wrap(x) = x
  BY <1>1 DEF Wrap
<1>4. \A x \in Int : Modulus <= x /\ x < 2 * Modulus => Wrap(x) = x - Modulus
  BY <1>1 DEF Wrap
<1>5. \A x \in Int : 0 - Modulus <= x /\ x < 0 => Wrap(x) = x + Modulus
  BY <1>1 DEF Wrap
<1> QED BY <1>2, <1>3, <1>4, <1>5

LEMMA CounterNumbers ==
  \A c \in Counter : c \in Nat /\ c \in Int /\ 0 <= c /\ c < Modulus
<1>1. Modulus \in Nat
  BY LimitAssumption
<1> QED BY <1>1 DEF Counter

(* Two steps of a counter are one step, and differences of counters move   *)
(* with their arguments while they stay below the modulus.                 *)
LEMMA WrapAdd ==
  ASSUME NEW a \in Counter, NEW i \in Nat, NEW j \in Nat, i + j < Modulus
  PROVE  Wrap(Wrap(a + i) + j) = Wrap(a + (i + j))
<1>1. Modulus \in Nat \ {0} /\ a \in Nat /\ a < Modulus
  BY LimitAssumption DEF Counter
<1>2. CASE a + i < Modulus
  BY <1>1, <1>2, WrapOneTurn
<1>3. CASE a + i >= Modulus
  BY <1>1, <1>3, WrapOneTurn
<1> QED BY <1>1, <1>2, <1>3

LEMMA MinusLess ==
  ASSUME NEW a \in Counter, NEW b \in Counter, NEW s \in Nat, s <= Minus(a, b)
  PROVE  Minus(a, Wrap(b + s)) = Minus(a, b) - s
<1>1. /\ Modulus \in Nat \ {0}
      /\ a \in Nat /\ a < Modulus /\ b \in Nat /\ b < Modulus
      /\ Minus(a, b) \in Nat /\ Minus(a, b) < Modulus
  BY LimitAssumption, WrapOneTurn DEF Counter, Minus
<1>2. CASE a >= b
  <2>1. Minus(a, b) = a - b
    BY <1>1, <1>2, WrapOneTurn DEF Minus
  <2> QED BY <1>1, <1>2, <2>1, WrapOneTurn DEF Minus
<1>3. CASE a < b
  <2>1. Minus(a, b) = a - b + Modulus
    BY <1>1, <1>3, WrapOneTurn DEF Minus
  <2>2. CASE b + s < Modulus
    <3>1. Wrap(b + s) = b + s
      BY <1>1, <2>2, WrapOneTurn
    <3> QED BY <1>1, <1>3, <2>1, <2>2, <3>1, WrapOneTurn DEF Minus
  <2>3. CASE b + s >= Modulus
    <3>1. Wrap(b + s) = b + s - Modulus
      BY <1>1, <2>1, <2>3, WrapOneTurn
    <3> QED BY <1>1, <1>3, <2>1, <2>3, <3>1, WrapOneTurn DEF Minus
  <2> QED BY <1>1, <2>2, <2>3
<1> QED BY <1>1, <1>2, <1>3

LEMMA MinusMore ==
  ASSUME NEW a \in Counter, NEW b \in Counter, NEW k \in Nat,
         Minus(a, b) + k < Modulus
  PROVE  Minus(Wrap(a + k), b) = Minus(a, b) + k
<1>1. /\ Modulus \in Nat \ {0}
      /\ a \in Nat /\ a < Modulus /\ b \in Nat /\ b < Modulus
      /\ Minus(a, b) \in Nat /\ Minus(a, b) < Modulus
  BY LimitAssumption, WrapOneTurn DEF Counter, Minus
<1>2. CASE a >= b
  <2>1. Minus(a, b) = a - b
    BY <1>1, <1>2, WrapOneTurn DEF Minus
  <2>2. CASE a + k < Modulus
    <3>1. Wrap(a + k) = a + k
      BY <1>1, <2>2, WrapOneTurn
    <3> QED BY <1>1, <1>2, <2>1, <2>2, <3>1, WrapOneTurn DEF Minus
  <2>3. CASE a + k >= Modulus
    <3>1. Wrap(a + k) = a + k - Modulus
      BY <1>1, <2>1, <2>3, WrapOneTurn
    <3> QED BY <1>1, <1>2, <2>1, <2>3, <3>1, WrapOneTurn DEF Minus
  <2> QED BY <1>1, <2>2, <2>3
<1>3. CASE a < b
  <2>1. Minus(a, b) = a - b + Modulus
    BY <1>1, <1>3, WrapOneTurn DEF Minus
  <2>2. Wrap(a + k) = a + k
    BY <1>1, <2>1, WrapOneTurn
  <2> QED BY <1>1, <1>3, <2>1, <2>2, WrapOneTurn DEF Minus
<1> QED BY <1>1, <1>2, <1>3

-----------------------------------------------------------------------------
(* The inductive invariant.  RegionBounded does not follow from itself: it *)
(* needs that the limiter's picture of the region is exact and bounded,    *)
(* which in turn needs that the messages on their way continue the last    *)
(* count the limiter has seen, up to the count of the counter.             *)

CountsConsecutive ==
  /\ packet_count = Wrap(exit_count + Len(counts))
  /\ \A i \in 1 .. Len(counts) : counts[i] = Wrap(exit_count + i)

Inv ==
  /\ TypeOK
  /\ Window = ingress + pipeline + Len(counts) + dropped
  /\ Window <= MaxPackets
  /\ CountsConsecutive

(* The facts about the sizes that every step uses.                         *)
LEMMA InvBounds ==
  ASSUME Inv
  PROVE  /\ Modulus \in Nat \ {0} /\ MaxPackets \in Nat /\ MaxPackets < Modulus
         /\ entry_count \in Counter /\ exit_count \in Counter
         /\ packet_count \in Counter
         /\ ingress \in Nat /\ pipeline \in Nat /\ dropped \in Nat
         /\ Len(counts) \in Nat /\ Len(counts) <= MaxPackets
         /\ Window \in Nat
<1>1. counts \in Seq(Counter) /\ Len(counts) \in Nat
  BY DEF Inv, TypeOK
<1>2. entry_count \in Counter /\ exit_count \in Counter
  BY DEF Inv, TypeOK
<1>3. entry_count - exit_count \in Int
  BY <1>2, LimitAssumption DEF Counter
<1>4. Window \in Nat
  BY <1>3, WrapOneTurn, LimitAssumption DEF Window, Minus, Counter
<1> QED BY <1>1, <1>2, <1>4, LimitAssumption DEF Inv, TypeOK

(* What the limiter takes from the messages, and what is left of them.     *)
LEMMA SeenCount ==
  ASSUME Inv, NEW seen \in 0 .. Len(counts)
  PROVE  /\ LastSeen(seen) = Wrap(exit_count + seen)
         /\ Minus(entry_count, LastSeen(seen)) = Window - seen
<1>1. LastSeen(seen) = Wrap(exit_count + seen)
  <2>1. CASE seen = 0
    <3>1. /\ exit_count \in Int /\ 0 <= exit_count /\ exit_count < Modulus
          /\ exit_count + 0 = exit_count
      BY InvBounds, CounterNumbers
    <3>2. Wrap(exit_count + 0) = exit_count
      BY <3>1, WrapOneTurn
    <3> QED BY <2>1, <3>2 DEF LastSeen
  <2>2. CASE seen # 0
    <3>1. seen \in 1 .. Len(counts)
      BY <2>2, InvBounds
    <3> QED BY <2>2, <3>1 DEF LastSeen, Inv, CountsConsecutive
  <2> QED BY <2>1, <2>2
<1>2. seen \in Nat /\ seen <= Minus(entry_count, exit_count)
  BY InvBounds DEF Inv, Window
<1> QED BY <1>1, <1>2, InvBounds, MinusLess DEF Window

(* The limiter admits no more than the limit leaves room for.              *)
LEMMA AdmittedFits ==
  ASSUME Inv, MaxPackets > 0, NEW seen \in 0 .. Len(counts),
         NEW offered \in 0 .. MaxOffered
  PROVE  LET admitted == Lesser(offered, Room(LastSeen(seen)))
         IN admitted \in Nat /\ Window - seen + admitted <= MaxPackets
<1> DEFINE window == Minus(entry_count, LastSeen(seen))
<1>1. window = Window - seen
  BY SeenCount
<1>2. window \in Nat /\ window <= MaxPackets /\ offered \in Nat
  BY <1>1, InvBounds, LimitAssumption DEF Inv
<1>3. Room(LastSeen(seen)) = MaxPackets - window
  BY <1>2, InvBounds DEF Room
<1>4. MaxPackets - window \in Nat
  BY <1>2, InvBounds
<1> DEFINE admitted == Lesser(offered, Room(LastSeen(seen)))
<1>5. admitted \in Nat /\ admitted <= MaxPackets - window
  BY <1>2, <1>3, <1>4 DEF Lesser
<1> HIDE DEF window, admitted
<1>6. Window - seen + admitted <= MaxPackets
  BY <1>1, <1>2, <1>5, InvBounds
<1> QED BY <1>5, <1>6 DEF admitted

(* One call of the limiter.                                                *)
LEMMA LimitPreserves ==
  ASSUME Inv, MaxPackets > 0, LimitStep
  PROVE  Inv'
<1>1. PICK seen \in 0 .. Len(counts), offered \in 0 .. MaxOffered :
             Limit(seen, offered)
  BY DEF LimitStep
<1> DEFINE admitted == Lesser(offered, Room(LastSeen(seen)))
<1>2. admitted \in Nat /\ Window - seen + admitted <= MaxPackets
  BY AdmittedFits
<1>3. /\ exit_count' = LastSeen(seen)
      /\ counts' = SubSeq(counts, seen + 1, Len(counts))
      /\ entry_count' = Wrap(entry_count + admitted)
      /\ ingress' = ingress + admitted
      /\ pipeline' = pipeline /\ packet_count' = packet_count /\ dropped' = dropped
  BY <1>1 DEF Limit
<1> HIDE DEF admitted
<1>4. /\ seen \in Nat /\ seen <= Len(counts)
      /\ exit_count' = Wrap(exit_count + seen)
      /\ Minus(entry_count, exit_count') = Window - seen
  BY <1>3, SeenCount, InvBounds
<1>5. exit_count' \in Counter /\ entry_count' \in Counter
  <2>1. exit_count + seen \in Int /\ entry_count + admitted \in Int
    <3>1. exit_count \in Int /\ entry_count \in Int
      BY InvBounds, CounterNumbers
    <3> QED BY <3>1, <1>2, <1>4
  <2> QED BY <2>1, <1>3, <1>4, WrapOneTurn
<1>6. /\ counts' \in Seq(Counter)
      /\ Len(counts') = Len(counts) - seen
      /\ \A i \in 1 .. Len(counts') : counts'[i] = counts[seen + i]
  <2>1. \A i \in seen + 1 .. Len(counts) : counts[i] \in Counter
    BY <1>4 DEF Inv, TypeOK
  <2>2. seen + 1 \in Int /\ Len(counts) \in Int
    BY <1>4, InvBounds
  <2>3. /\ counts' \in Seq(Counter)
        /\ Len(counts') = IF seen + 1 <= Len(counts)
                            THEN Len(counts) - (seen + 1) + 1 ELSE 0
        /\ \A i \in 1 .. Len(counts) - (seen + 1) + 1 :
             counts'[i] = counts[seen + 1 + i - 1]
    BY <2>1, <2>2, <1>3, SubSeqProperties, SMTT(30)
  <2>4. Len(counts') = Len(counts) - seen
    BY <2>2, <2>3, <1>4
  <2>5. ASSUME NEW i \in 1 .. Len(counts')
        PROVE  counts'[i] = counts[seen + i]
    <3>1. i \in 1 .. Len(counts) - (seen + 1) + 1 /\ seen + 1 + i - 1 = seen + i
      BY <2>2, <2>4, <1>4
    <3> QED BY <3>1, <2>3
  <2> QED BY <2>3, <2>4, <2>5
<1>7. TypeOK'
  <2>1. ingress + admitted \in Nat
    BY <1>2, InvBounds
  <2>2. ingress' \in Nat
    BY <1>3, <2>1
  <2>3. pipeline' \in Nat /\ dropped' \in Nat /\ packet_count' \in Counter
    BY <1>3, InvBounds
  <2> QED BY <2>2, <2>3, <1>5, <1>6 DEF TypeOK
<1>8. Window' = Window - seen + admitted
  <2>1. Minus(entry_count, exit_count') + admitted < Modulus
    BY <1>2, <1>4, InvBounds
  <2>2. Minus(Wrap(entry_count + admitted), exit_count')
          = Minus(entry_count, exit_count') + admitted
    BY <2>1, <1>2, <1>5, InvBounds, MinusMore
  <2> QED BY <2>2, <1>3, <1>4 DEF Window
<1>9. Window' = (ingress + pipeline + Len(counts) + dropped)'
  <2>1. Window = ingress + pipeline + Len(counts) + dropped
    BY DEF Inv
  <2>2. (ingress + pipeline + Len(counts) + dropped)'
          = ingress + admitted + pipeline + (Len(counts) - seen) + dropped
    BY <1>3, <1>6
  <2>3. /\ ingress \in Int /\ admitted \in Int /\ pipeline \in Int
        /\ Len(counts) \in Int /\ seen \in Int /\ dropped \in Int
    BY <1>2, <1>4, InvBounds
  <2>4. (ingress + pipeline + Len(counts) + dropped) - seen + admitted
          = ingress + admitted + pipeline + (Len(counts) - seen) + dropped
    BY <2>3
  <2> QED BY <2>1, <2>2, <2>4, <1>8
<1>10. Window' <= MaxPackets
  BY <1>2, <1>8
<1>11. CountsConsecutive'
  <2>1. packet_count' = Wrap(exit_count' + Len(counts'))
    <3>1. seen + (Len(counts) - seen) = Len(counts)
      BY <1>4, InvBounds
    <3>2. Wrap(exit_count' + (Len(counts) - seen)) = Wrap(exit_count + Len(counts))
      BY <3>1, <1>4, InvBounds, WrapAdd
    <3> QED BY <3>2, <1>3, <1>6 DEF Inv, CountsConsecutive
  <2>2. ASSUME NEW i \in 1 .. Len(counts')
        PROVE  counts'[i] = Wrap(exit_count' + i)
    <3>1. i \in Nat /\ seen + i \in 1 .. Len(counts) /\ seen + i < Modulus
      BY <1>4, <1>6, InvBounds
    <3>2. Wrap(exit_count' + i) = Wrap(exit_count + (seen + i))
      BY <3>1, <1>4, InvBounds, WrapAdd
    <3> QED BY <3>1, <3>2, <1>6 DEF Inv, CountsConsecutive
  <2> QED BY <2>1, <2>2 DEF CountsConsecutive
<1> QED BY <1>7, <1>9, <1>10, <1>11 DEF Inv

(* One call of PacketIngress: what it drops stays in the limiter's picture. *)
LEMMA CheckPreserves ==
  ASSUME Inv, CheckStep
  PROVE  Inv'
<1>1. PICK k \in 1 .. ingress, bad \in 0 .. ingress : bad <= k /\ Check(k, bad)
  BY DEF CheckStep
<1>2. TypeOK'
  BY <1>1, InvBounds DEF Check, TypeOK, Inv
<1>3. Window' = Window /\ CountsConsecutive'
  BY <1>1 DEF Check, Window, CountsConsecutive, Inv
<1>4. (ingress + pipeline + Len(counts) + dropped)'
        = ingress + pipeline + Len(counts) + dropped
  <2>1. /\ ingress' = ingress - k /\ pipeline' = pipeline + (k - bad)
        /\ dropped' = dropped + bad /\ counts' = counts
    BY <1>1 DEF Check
  <2>2. (ingress + pipeline + Len(counts) + dropped)'
          = (ingress - k) + (pipeline + (k - bad)) + Len(counts) + (dropped + bad)
    BY <2>1
  <2>3. /\ k \in Int /\ bad \in Int /\ ingress \in Int /\ pipeline \in Int
        /\ Len(counts) \in Int /\ dropped \in Int
    BY InvBounds
  <2>4. (ingress - k) + (pipeline + (k - bad)) + Len(counts) + (dropped + bad)
          = ingress + pipeline + Len(counts) + dropped
    BY <2>3
  <2> QED BY <2>2, <2>4
<1> QED BY <1>2, <1>3, <1>4 DEF Inv

(* One call of the counter.                                                *)
LEMMA LeavePreserves ==
  ASSUME Inv, LeaveStep
  PROVE  Inv'
<1>1. PICK k \in 1 .. pipeline : Leave(k)
  BY DEF LeaveStep
<1> DEFINE news == [i \in 1 .. k |-> Wrap(packet_count + i)]
<1>2. /\ k \in Nat /\ k <= pipeline
      /\ pipeline' = pipeline - k
      /\ packet_count' = Wrap(packet_count + k)
      /\ counts' = counts \o news
      /\ entry_count' = entry_count /\ exit_count' = exit_count
      /\ ingress' = ingress /\ dropped' = dropped
  BY <1>1, InvBounds DEF Leave
<1>3. news \in Seq(Counter) /\ Len(news) = k
  <2>1. \A i \in 1 .. k : Wrap(packet_count + i) \in Counter
    <3>1. packet_count \in Int
      BY InvBounds, CounterNumbers
    <3>2. \A i \in 1 .. k : packet_count + i \in Int
      BY <3>1
    <3> QED BY <3>2, WrapOneTurn
  <2> QED BY <2>1, <1>2
<1>4. /\ counts' \in Seq(Counter)
      /\ Len(counts') = Len(counts) + k
      /\ \A i \in 1 .. Len(counts') :
           counts'[i] = IF i <= Len(counts) THEN counts[i] ELSE news[i - Len(counts)]
  <2>1. counts \in Seq(Counter)
    BY DEF Inv, TypeOK
  <2> QED BY <2>1, <1>2, <1>3, ConcatProperties
<1>5. TypeOK'
  <2>1. packet_count + k \in Int
    BY <1>2, InvBounds DEF Counter
  <2>2. packet_count' \in Counter
    BY <2>1, <1>2, WrapOneTurn
  <2>3. pipeline' \in Nat
    BY <1>2, InvBounds
  <2> QED BY <2>2, <2>3, <1>2, <1>4, InvBounds DEF TypeOK
<1>6. Window' = Window
  BY <1>2 DEF Window
<1>7. Len(counts) + k < Modulus
  <2>1. Window = ingress + pipeline + Len(counts) + dropped /\ Window <= MaxPackets
    BY DEF Inv
  <2>2. Len(counts) + pipeline <= MaxPackets
    BY <2>1, InvBounds
  <2> QED BY <2>2, <1>2, InvBounds
<1>8. CountsConsecutive'
  <2>1. packet_count = Wrap(exit_count + Len(counts))
    BY DEF Inv, CountsConsecutive
  <2>2. packet_count' = Wrap(exit_count' + Len(counts'))
    BY <2>1, <1>2, <1>4, <1>7, InvBounds, WrapAdd
  <2>3. ASSUME NEW i \in 1 .. Len(counts')
        PROVE  counts'[i] = Wrap(exit_count' + i)
    <3>1. CASE i <= Len(counts)
      <4>1. i \in 1 .. Len(counts)
        BY <3>1, InvBounds
      <4> QED BY <4>1, <3>1, <1>2, <1>4 DEF Inv, CountsConsecutive
    <3>2. CASE i > Len(counts)
      <4> DEFINE j == i - Len(counts)
      <4>1. /\ j \in 1 .. k /\ j \in Nat
            /\ Len(counts) + j = i /\ Len(counts) + j < Modulus
            /\ ~(i <= Len(counts))
        <5>1. i \in Nat /\ i <= Len(counts) + k /\ k \in Nat /\ Len(counts) \in Nat
          BY <1>2, <1>4, InvBounds
        <5>2. Len(counts) + k < Modulus /\ Modulus \in Nat
          BY <1>7, LimitAssumption
        <5> QED BY <5>1, <5>2, <3>2
      <4>2. counts'[i] = Wrap(packet_count + j)
        <5>1. counts'[i] = news[j]
          BY <4>1, <1>4
        <5> QED BY <5>1, <4>1
      <4>3. Wrap(packet_count + j) = Wrap(exit_count + (Len(counts) + j))
        BY <4>1, <2>1, InvBounds, WrapAdd
      <4> QED BY <4>1, <4>2, <4>3, <1>2
    <3> QED BY <3>1, <3>2, <1>4, InvBounds
  <2> QED BY <2>2, <2>3 DEF CountsConsecutive
<1>9. (ingress + pipeline + Len(counts) + dropped)'
        = ingress + pipeline + Len(counts) + dropped
  BY <1>2, <1>4, InvBounds
<1> QED BY <1>5, <1>6, <1>8, <1>9 DEF Inv

LEMMA InvHolds == MaxPackets > 0 => (Spec => []Inv)
<1> SUFFICES ASSUME MaxPackets > 0
             PROVE  Spec => []Inv
  OBVIOUS
<1>1. Init => Inv
  <2> SUFFICES ASSUME Init PROVE Inv
    OBVIOUS
  <2>1. /\ entry_count = 0 /\ exit_count = 0 /\ packet_count = 0
        /\ ingress = 0 /\ pipeline = 0 /\ dropped = 0
        /\ counts = <<>>
    BY DEF Init, InitWith
  <2>2. Wrap(0) = 0
    BY WrapOneTurn, LimitAssumption
  <2>3. TypeOK
    BY <2>1, LimitAssumption DEF TypeOK, Counter
  <2>4. Window = 0 /\ CountsConsecutive
    BY <2>1, <2>2 DEF Window, Minus, CountsConsecutive
  <2>5. Len(counts) = 0
    BY <2>1
  <2> QED BY <2>1, <2>3, <2>4, <2>5, LimitAssumption DEF Inv
<1>2. Inv /\ [Next]_vars => Inv'
  <2>1. Inv /\ Next => Inv'
    BY LimitPreserves, CheckPreserves, LeavePreserves DEF Next
  <2>2. Inv /\ UNCHANGED vars => Inv'
    BY DEF vars, Inv, TypeOK, Window, CountsConsecutive
  <2> QED BY <2>1, <2>2
<1> QED BY <1>1, <1>2, PTL DEF Spec

(* With a limit, the counters and the message queue keep their types.      *)
THEOREM TypeCorrect == MaxPackets > 0 => (Spec => []TypeOK)
<1>1. Inv => TypeOK
  BY DEF Inv
<1> QED BY <1>1, InvHolds, PTL

(* The limiter's picture of the region is exact up to the messages it has  *)
(* not seen and the packets that were dropped, over any number of wraps.   *)
THEOREM WindowAlwaysExact == Spec => []WindowExact
<1>1. CASE MaxPackets > 0
  <2>1. Inv => WindowExact
    BY DEF Inv, WindowExact
  <2> QED BY <1>1, <2>1, InvHolds, PTL
<1>2. CASE ~(MaxPackets > 0)
  <2>1. WindowExact
    BY <1>2 DEF WindowExact
  <2> QED BY <2>1, PTL
<1> QED BY <1>1, <1>2

(* The region never holds more than max_packets packets, and the counter   *)
(* never has more than max_packets messages waiting.                       *)
THEOREM RegionAlwaysBounded == Spec => []RegionBounded
<1>1. CASE MaxPackets > 0
  <2>1. Inv => RegionBounded
    BY InvBounds DEF Inv, RegionBounded
  <2> QED BY <1>1, <2>1, InvHolds, PTL
<1>2. CASE ~(MaxPackets > 0)
  <2>1. RegionBounded
    BY <1>2 DEF RegionBounded
  <2> QED BY <2>1, PTL
<1> QED BY <1>1, <1>2
=============================================================================
