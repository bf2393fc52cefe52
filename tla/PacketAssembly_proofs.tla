------------------------ MODULE PacketAssembly_proofs -------------------------
(***************************************************************************)
(* Proofs about PacketAssembly: for all sizes, lengths, links and calls, a *)
(* header and a payload meet in the multiplexer only if they are of the    *)
(* same packet, no block fails, and what leaves are the frames of the      *)
(* accepted packets in order, as PacketFraming says.                       *)
(*                                                                         *)
(* The invariant says where the items of the accepted packets are.  Packet *)
(* k of accepted begins behind item header_at[k] of headers, behind item   *)
(* payload_at[k] of payload and behind item data_at[k] of data; the        *)
(* numbers are negative for a packet of which items are gone.              *)
(***************************************************************************)
EXTENDS PacketAssembly, SequenceTheorems, TLAPS

N == Len(accepted)

(* The items of a packet behind CrcAppend, and of its frame. *)
Size(p) == p.len + CrcSize
FrameSize(p) == HeaderSize + Size(p)

(* Item j of a coded header, of a packet before CrcAppend and behind it. *)
HeaderItem(p, j) ==
  [of |-> p, part |-> "header", place |-> j, bits |-> IF j = 1 THEN HeaderSize ELSE 0]

DataItem(p, j) ==
  [of |-> p, part |-> "payload", place |-> j, bits |-> IF j = 1 THEN p.len ELSE 0]

PayloadItem(p, j) ==
  [of |-> p,
   part |-> IF j <= p.len THEN "payload" ELSE "crc",
   place |-> IF j <= p.len THEN j ELSE j - p.len,
   bits |-> IF j = 1 THEN Size(p) ELSE 0]

(* What Mux has sent of the first packet: items of its header, and of what *)
(* is behind.                                                              *)
HeaderSent ==
  CASE mux_packet_lens = <<>> -> 0
    [] OTHER -> IF mux_current_input = 1 THEN HeaderSize - mux_remaining ELSE HeaderSize

PayloadSent ==
  CASE mux_packet_lens = <<>> -> 0
    [] OTHER -> IF mux_current_input = 1 THEN 0 ELSE mux_packet_lens[2] - mux_remaining

(* What CrcAppend has copied of packet c. *)
Copied(c) == IF crc_data_remaining = 0 THEN 0 ELSE accepted[c].len - crc_data_remaining

(* What is still to come of the last accepted packet. *)
Coming == IF in_valid THEN in_remaining ELSE 0

-----------------------------------------------------------------------------
(* The inductive invariant.                                                *)

(* Mux is between packets, or within the first packet: it has taken the    *)
(* lengths from the tags, and copied an item of the header.                *)
MuxInPacket ==
  \/ mux_packet_lens = <<>>
  \/ /\ N > 0
     /\ mux_packet_lens = <<HeaderSize, Size(accepted[1])>>
     /\ mux_current_input \in {1, 2}
     /\ mux_remaining \in 1 .. mux_packet_lens[mux_current_input]
     /\ HeaderSent > 0

(* The headers of the first coded packets are in headers, those of the     *)
(* next in plain, and the messages of the others in metadata.              *)
HeaderPlaces(coded, header_at) ==
  /\ coded \in 0 .. N
  /\ header_at \in [1 .. N + 1 -> Int]
  /\ header_at[1] = 0 - HeaderSent
  /\ \A k \in 1 .. coded : /\ header_at[k + 1] = header_at[k] + HeaderSize
                            /\ header_at[k + 1] <= Len(headers)
  /\ Len(headers) = header_at[coded + 1]

HeadersThere(coded, header_at) ==
  \A k \in 1 .. coded : \A j \in 1 .. HeaderSize :
    header_at[k] + j \in 1 .. Len(headers) =>
      headers[header_at[k] + j] = HeaderItem(accepted[k], j)

MessagesThere(coded) ==
  /\ coded + Len(plain) + Len(metadata) = N
  /\ \A i \in 1 .. Len(plain) : plain[i] = accepted[coded + i]
  /\ \A i \in 1 .. Len(metadata) : metadata[i] = accepted[coded + Len(plain) + i]

(* The packets before c are in payload, with their CRC ...                 *)
PayloadPlaces(c, payload_at) ==
  /\ payload_at \in [1 .. N + 1 -> Int]
  /\ payload_at[1] = 0 - PayloadSent
  /\ \A k \in 1 .. c - 1 : payload_at[k + 1] = payload_at[k] + Size(accepted[k])
  /\ Len(payload) = payload_at[c] + Copied(c)

PayloadThere(c, payload_at) ==
  \A k \in 1 .. c : k <= N =>
    \A j \in 1 .. Size(accepted[k]) : payload_at[k] + j \in 1 .. Len(payload) =>
      payload[payload_at[k] + j] = PayloadItem(accepted[k], j)

(* ... each with an item and a CRC, as the count of messages needs.        *)
PayloadSpaced(c, payload_at) ==
  \A k, l \in 1 .. c : k <= l =>
    payload_at[l] - payload_at[k] >= (l - k) * (CrcSize + 1)

(* CrcAppend is in packet c or before it; the tag that it has published    *)
(* without an item is that of packet c.                                    *)
CrcInPacket(c) ==
  /\ c \in 1 .. N + 1
  /\ crc_data_remaining > 0 => c <= N /\ crc_data_remaining <= accepted[c].len
  /\ payload_tag = IF crc_data_remaining > 0 /\ Copied(c) = 0 THEN Size(accepted[c]) ELSE 0

(* Packet c, and those behind it, are in data, where the last one may not  *)
(* be whole.                                                               *)
DataPlaces(c, data_at) ==
  /\ data_at \in [1 .. N + 1 -> Int]
  /\ data_at[c] = 0 - Copied(c)
  /\ \A k \in c .. N : data_at[k + 1] = data_at[k] + accepted[k].len
  /\ Len(data) = data_at[N + 1] - Coming

DataThere(c, data_at) ==
  \A k \in c .. N : \A j \in 1 .. accepted[k].len :
    data_at[k] + j \in 1 .. Len(data) => data[data_at[k] + j] = DataItem(accepted[k], j)

DataSpaced(c, data_at) ==
  \A k, l \in c .. N + 1 : k <= l => data_at[l] - data_at[k] >= l - k

ComesLast ==
  Coming > 0 => N > 0 /\ packet = accepted[N] /\ Coming < packet.len

HeadersAt(coded, header_at) ==
  HeaderPlaces(coded, header_at) /\ HeadersThere(coded, header_at) /\ MessagesThere(coded)

PayloadAt(c, payload_at, data_at) ==
  /\ CrcInPacket(c)
  /\ PayloadPlaces(c, payload_at) /\ PayloadThere(c, payload_at)
  /\ PayloadSpaced(c, payload_at)
  /\ DataPlaces(c, data_at) /\ DataThere(c, data_at) /\ DataSpaced(c, data_at)

HeaderWay == \E coded, header_at : HeadersAt(coded, header_at)

PayloadWay == \E c, payload_at, data_at : PayloadAt(c, payload_at, data_at)

Inv == NoBlockFails /\ MuxInPacket /\ ComesLast /\ HeaderWay /\ PayloadWay

-----------------------------------------------------------------------------
(* Sizes, packets and sequences.                                           *)

(* The sizes are numbers, and the links have room for a CRC and an item    *)
(* and for a coded header.                                                 *)
LEMMA Sizes ==
  /\ HeaderSize \in Nat /\ HeaderSize > 0
  /\ CrcSize \in Nat /\ CrcSize > 0
  /\ MaxLength \in Nat /\ MaxSpace \in Nat
  /\ MetadataCapacity \in Nat /\ PlainCapacity \in Nat
  /\ DataCapacity \in Nat /\ DataCapacity > 0
  /\ HeadersCapacity \in Nat /\ PayloadCapacity \in Nat
  /\ NumIds \in Nat /\ NumIds > 0
  /\ \A len \in Lengths : len \in Nat /\ len > 0
BY AssemblyAssumption

(* The sizes of a packet. *)
LEMMA PacketSizes ==
  ASSUME NEW p \in Packets
  PROVE  /\ p.len \in Lengths /\ p.len \in Nat /\ p.len > 0
         /\ Size(p) \in Nat /\ Size(p) = p.len + CrcSize
         /\ Size(p) >= CrcSize + 1 /\ Size(p) > 0
         /\ FrameSize(p) \in Nat /\ FrameSize(p) = HeaderSize + Size(p)
<1>1. p.len \in Lengths
  BY DEF Packets
<1>2. p.len \in Nat /\ p.len > 0
  BY <1>1, Sizes
<1> QED BY <1>1, <1>2, Sizes DEF Size, FrameSize

(* The items of packets are items. *)
LEMMA PacketItems ==
  ASSUME NEW p \in Packets, NEW j \in Nat
  PROVE  /\ HeaderItem(p, j) \in Item
         /\ DataItem(p, j) \in Item
         /\ j > 0 => PayloadItem(p, j) \in Item
<1>1. p.len \in Nat /\ Size(p) \in Nat /\ HeaderSize \in Nat
  BY PacketSizes, Sizes
<1>2. HeaderItem(p, j) \in Item
  BY <1>1 DEF HeaderItem, Item
<1>3. DataItem(p, j) \in Item
  BY <1>1 DEF DataItem, Item
<1>4. ~(j <= p.len) => j - p.len \in Nat
  BY <1>1
<1>5. PayloadItem(p, j) \in Item
  <2>1. CASE j <= p.len
    BY <1>1, <2>1 DEF PayloadItem, Item
  <2>2. CASE ~(j <= p.len)
    BY <1>1, <1>4, <2>2 DEF PayloadItem, Item
  <2> QED BY <2>1, <2>2
<1> QED BY <1>2, <1>3, <1>5

(* What is left of a link. *)
LEMMA FromProperties ==
  ASSUME NEW S, NEW seq \in Seq(S), NEW k \in 0 .. Len(seq)
  PROVE  /\ From(seq, k) \in Seq(S)
         /\ Len(From(seq, k)) = Len(seq) - k
         /\ \A i \in 1 .. Len(seq) - k : From(seq, k)[i] = seq[i + k]
<1>1. Len(seq) \in Nat /\ \A i \in 1 .. Len(seq) : seq[i] \in S
  BY LenProperties, ElementOfSeq
<1>2. \A i \in k + 1 .. Len(seq) : seq[i] \in S
  BY <1>1
<1>3. /\ From(seq, k) \in Seq(S)
      /\ Len(From(seq, k)) = IF k + 1 <= Len(seq) THEN Len(seq) - (k + 1) + 1 ELSE 0
      /\ \A i \in 1 .. Len(seq) - (k + 1) + 1 : From(seq, k)[i] = seq[k + 1 + i - 1]
  BY <1>1, <1>2, SubSeqProperties DEF From
<1> QED BY <1>1, <1>3

(* The first items of a link. *)
LEMMA FrontProperties ==
  ASSUME NEW S, NEW seq \in Seq(S), NEW k \in 0 .. Len(seq)
  PROVE  /\ SubSeq(seq, 1, k) \in Seq(S)
         /\ Len(SubSeq(seq, 1, k)) = k
         /\ \A i \in 1 .. k : SubSeq(seq, 1, k)[i] = seq[i]
<1>1. Len(seq) \in Nat /\ \A i \in 1 .. Len(seq) : seq[i] \in S
  BY LenProperties, ElementOfSeq
<1>2. \A i \in 1 .. k : seq[i] \in S
  BY <1>1
<1>3. /\ SubSeq(seq, 1, k) \in Seq(S)
      /\ Len(SubSeq(seq, 1, k)) = IF 1 <= k THEN k - 1 + 1 ELSE 0
      /\ \A i \in 1 .. k - 1 + 1 : SubSeq(seq, 1, k)[i] = seq[1 + i - 1]
  BY <1>1, <1>2, SubSeqProperties
<1> QED BY <1>1, <1>3

(* A function on the first numbers is a sequence. *)
LEMMA FunctionIsSeq ==
  ASSUME NEW S, NEW m \in Nat, NEW f \in [1 .. m -> S]
  PROVE  f \in Seq(S) /\ Len(f) = m
<1>1. f \in Seq(S)
  BY SeqDef
<1>2. Len(f) \in Nat /\ 1 .. Len(f) = 1 .. m
  BY <1>1, LenProperties
<1> QED BY <1>1, <1>2

(* Two sequences, one behind the other. *)
LEMMA JoinProperties ==
  ASSUME NEW S, NEW seq \in Seq(S), NEW f \in Seq(S)
  PROVE  /\ seq \o f \in Seq(S) /\ Len(seq \o f) = Len(seq) + Len(f)
         /\ \A i \in 1 .. Len(seq) : (seq \o f)[i] = seq[i]
         /\ \A i \in 1 .. Len(f) : (seq \o f)[Len(seq) + i] = f[i]
<1>1. Len(f) \in Nat /\ Len(seq) \in Nat
  BY LenProperties
<1>2. /\ seq \o f \in Seq(S) /\ Len(seq \o f) = Len(seq) + Len(f)
      /\ \A i \in 1 .. Len(seq) + Len(f) :
            (seq \o f)[i] = IF i <= Len(seq) THEN seq[i] ELSE f[i - Len(seq)]
  BY ConcatProperties
<1>3. ASSUME NEW i \in 1 .. Len(f)
      PROVE  (seq \o f)[Len(seq) + i] = f[i]
  <2>1. Len(seq) + i \in 1 .. Len(seq) + Len(f) /\ ~(Len(seq) + i <= Len(seq))
    BY <1>1
  <2>2. Len(seq) + i - Len(seq) = i
    BY <1>1
  <2> QED BY <1>2, <2>1, <2>2
<1>4. ASSUME NEW i \in 1 .. Len(seq)
      PROVE  (seq \o f)[i] = seq[i]
  BY <1>1, <1>2
<1> QED BY <1>2, <1>3, <1>4

(* A sequence is empty if its length is zero. *)
LEMMA EmptyLength ==
  ASSUME NEW S, NEW seq \in Seq(S)
  PROVE  Len(seq) \in Nat /\ (seq = <<>> <=> Len(seq) = 0)
BY EmptySeq, LenProperties

(* The items that Items gives. *)
LEMMA ItemsProperties ==
  ASSUME NEW p \in Packets, NEW part \in {"header", "payload", "crc"},
         NEW start \in Nat, start > 0, NEW count \in Nat, NEW bits \in Nat
  PROVE  /\ Items(p, part, start, count, bits) \in Seq(Item)
         /\ Len(Items(p, part, start, count, bits)) = count
         /\ \A i \in 1 .. count :
              Items(p, part, start, count, bits)[i]
                = [of |-> p, part |-> part, place |-> start + i - 1,
                   bits |-> IF i = 1 THEN bits ELSE 0]
<1> DEFINE F == Items(p, part, start, count, bits)
<1>1. \A i \in 1 .. count : start + i - 1 \in Nat
  OBVIOUS
<1>2. F \in [1 .. count -> Item]
  BY <1>1 DEF Items, Item
<1>3. F \in Seq(Item) /\ Len(F) = count
  BY <1>2, FunctionIsSeq
<1>4. ASSUME NEW i \in 1 .. count
      PROVE  F[i] = [of |-> p, part |-> part, place |-> start + i - 1,
                     bits |-> IF i = 1 THEN bits ELSE 0]
  BY DEF Items
<1> QED BY <1>3, <1>4

(* No items are no items, whatever they would be of. *)
LEMMA NoItems ==
  ASSUME NEW p, NEW part, NEW start, NEW bits
  PROVE  Items(p, part, start, 0, bits) = <<>>
<1>1. Items(p, part, start, 0, bits) \in [1 .. 0 -> {}]
  BY DEF Items
<1>2. Items(p, part, start, 0, bits) \in Seq({}) /\ Len(Items(p, part, start, 0, bits)) = 0
  BY <1>1, FunctionIsSeq
<1> QED BY <1>2, EmptySeq

-----------------------------------------------------------------------------
(* One call of Mux.                                                        *)

(* Nothing stands before the first input. *)
LEMMA SumOfNone ==
  ASSUME NEW bits
  PROVE  MUX!Before(bits, 1) = 0
<1>1. 1 .. 1 - 1 = {}
  OBVIOUS
<1> QED BY <1>1 DEF MUX!Before, MUX!MapThenSumSet, MUX!MapThenFoldSet

(* What stands before the second input is what the first one gives.        *)
LEMMA SumOfOne ==
  ASSUME NEW bits, MUX!Needs(bits, 1) \in Int
  PROVE  MUX!Before(bits, 2) = MUX!Needs(bits, 1)
<1> DEFINE S == 1 .. 2 - 1
           pick(s) == CHOOSE x \in s : TRUE
           op(it, s) == IF s = {} THEN 0 ELSE MUX!Needs(bits, pick(s)) + it[s \ {pick(s)}]
           iter == CHOOSE it : it = [s \in SUBSET S |-> op(it, s)]
           w == [s \in SUBSET S |-> IF s = {} THEN 0 ELSE MUX!Needs(bits, 1)]
<1>1. MUX!Before(bits, 2) = iter[S]
  BY DEF MUX!Before, MUX!MapThenSumSet, MUX!MapThenFoldSet
<1>2. S = {1}
  OBVIOUS
<1>3. \A s \in SUBSET S : s = {} \/ s = {1}
  BY <1>2
<1>4. pick({1}) = 1 /\ {1} \ {1} = {}
  OBVIOUS
<1>5. w = [s \in SUBSET S |-> op(w, s)]
  <2>1. ASSUME NEW s \in SUBSET S
        PROVE  w[s] = op(w, s)
    <3>1. CASE s = {}
      BY <3>1
    <3>2. CASE s = {1}
      <4>1. w[s] = MUX!Needs(bits, 1) /\ w[{}] = 0
        BY <3>2
      <4>2. op(w, s) = MUX!Needs(bits, 1) + w[{}]
        BY <3>2, <1>4
      <4> QED BY <4>1, <4>2
    <3> QED BY <3>1, <3>2, <1>3
  <2> QED BY <2>1
<1>6. iter = [s \in SUBSET S |-> op(iter, s)]
  BY <1>5
<1> HIDE DEF iter
<1>7. iter[{}] = 0
  BY <1>6
<1>8. iter[{1}] = MUX!Needs(bits, 1) + iter[{}]
  <2>1. iter[{1}] = op(iter, {1})
    BY <1>2, <1>6
  <2> QED BY <2>1, <1>4
<1> QED BY <1>1, <1>2, <1>7, <1>8

(* The tag of the joined packet is the sum of both lengths.                *)
LEMMA SumOfBoth ==
  ASSUME NEW bits, bits[1] \in Int, bits[2] \in Int
  PROVE  MUX!MapThenSumSet(LAMBDA j : bits[j], MUX!Inputs) = bits[1] + bits[2]
<1> DEFINE S == 1 .. 2
           pick(s) == CHOOSE x \in s : TRUE
           op(it, s) == IF s = {} THEN 0 ELSE bits[pick(s)] + it[s \ {pick(s)}]
           iter == CHOOSE it : it = [s \in SUBSET S |-> op(it, s)]
           w == [s \in SUBSET S |->
                   (IF 1 \in s THEN bits[1] ELSE 0) + (IF 2 \in s THEN bits[2] ELSE 0)]
<1>1. MUX!MapThenSumSet(LAMBDA j : bits[j], MUX!Inputs) = iter[S]
  BY DEF MUX!Inputs, MUX!MapThenSumSet, MUX!MapThenFoldSet
<1>2. S = {1, 2}
  OBVIOUS
<1>3. \A s \in SUBSET S : s = {} \/ s = {1} \/ s = {2} \/ s = {1, 2}
  BY <1>2
<1>4. /\ pick({1}) = 1 /\ pick({2}) = 2 /\ pick({1, 2}) \in {1, 2}
      /\ {1} \ {1} = {} /\ {2} \ {2} = {} /\ {1, 2} \ {1} = {2} /\ {1, 2} \ {2} = {1}
  OBVIOUS
<1>5. /\ {} \in SUBSET S /\ {1} \in SUBSET S /\ {2} \in SUBSET S /\ {1, 2} \in SUBSET S
  BY <1>2
<1>6. w[{}] = 0 /\ w[{1}] = bits[1] /\ w[{2}] = bits[2] /\ w[{1, 2}] = bits[1] + bits[2]
  BY <1>5
<1>7. w = [s \in SUBSET S |-> op(w, s)]
  <2>1. ASSUME NEW s \in SUBSET S
        PROVE  w[s] = op(w, s)
    <3>1. CASE s = {}
      BY <1>6, <3>1
    <3>2. CASE s = {1}
      BY <1>4, <1>6, <3>2
    <3>3. CASE s = {2}
      BY <1>4, <1>6, <3>3
    <3>4. CASE s = {1, 2}
      <4>1. CASE pick({1, 2}) = 1
        <5>1. op(w, s) = bits[1] + w[{2}]
          BY <1>4, <3>4, <4>1
        <5> QED BY <1>6, <3>4, <5>1
      <4>2. CASE pick({1, 2}) = 2
        <5>1. op(w, s) = bits[2] + w[{1}]
          BY <1>4, <3>4, <4>2
        <5> QED BY <1>6, <3>4, <5>1
      <4> QED BY <1>4, <4>1, <4>2
    <3> QED BY <3>1, <3>2, <3>3, <3>4, <1>3
  <2> QED BY <2>1
<1>8. iter = [s \in SUBSET S |-> op(iter, s)]
  BY <1>7
<1> HIDE DEF iter
<1>9. iter[{}] = 0
  BY <1>8
<1>10. iter[{1}] = bits[1] /\ iter[{2}] = bits[2]
  <2>1. iter[{1}] = op(iter, {1}) /\ iter[{2}] = op(iter, {2})
    BY <1>5, <1>8
  <2>2. iter[{1}] = bits[1] + iter[{}] /\ iter[{2}] = bits[2] + iter[{}]
    BY <2>1, <1>4
  <2> QED BY <2>2, <1>9
<1>11. iter[{1, 2}] = bits[1] + bits[2]
  <2>1. iter[{1, 2}] = op(iter, {1, 2})
    BY <1>5, <1>8
  <2>2. CASE pick({1, 2}) = 1
    <3>1. iter[{1, 2}] = bits[1] + iter[{2}]
      BY <1>4, <2>1, <2>2
    <3> QED BY <1>10, <3>1
  <2>3. CASE pick({1, 2}) = 2
    <3>1. iter[{1, 2}] = bits[2] + iter[{1}]
      BY <1>4, <2>1, <2>3
    <3> QED BY <1>10, <3>1
  <2> QED BY <2>2, <2>3, <1>4
<1> QED BY <1>1, <1>2, <1>11

(* What a call copies from the two inputs: the second is reached once the  *)
(* first has all that is needed, if there is space.                        *)
LEMMA TakesFromBoth ==
  ASSUME NEW avail, NEW bits, NEW space \in Nat,
         avail[1] \in Nat, avail[2] \in Nat,
         MUX!Needs(bits, 1) \in Nat, MUX!Needs(bits, 2) \in Nat
  PROVE  LET n1 == MUX!Needs(bits, 1)
             n2 == MUX!Needs(bits, 2)
             taken == MUX!Takes(avail, bits, space)
         IN  /\ taken[1] \in Nat /\ taken[1] <= avail[1] /\ taken[1] <= n1
             /\ taken[1] <= space
             /\ n1 > 0 /\ avail[1] > 0 /\ space > 0 => taken[1] > 0
             /\ taken[2] \in Nat /\ taken[2] <= avail[2] /\ taken[2] <= n2
             /\ taken[1] + taken[2] <= space
             /\ taken[2] > 0 => taken[1] = n1
<1> DEFINE n1 == MUX!Needs(bits, 1)
           n2 == MUX!Needs(bits, 2)
           taken == MUX!Takes(avail, bits, space)
<1>1. MUX!Inputs = {1, 2}
  BY DEF MUX!Inputs
<1>2. MUX!Before(bits, 1) = 0 /\ MUX!Before(bits, 2) = n1
  BY SumOfNone, SumOfOne
<1>3. MUX!Reaches(avail, bits, space, 1)
  BY <1>2 DEF MUX!Reaches
<1>4. MUX!Reaches(avail, bits, space, 2) => avail[1] >= n1 /\ n1 <= space
  BY <1>2 DEF MUX!Reaches
<1>5. taken[1] = MUX!Lesser(MUX!Lesser(avail[1], n1), space - 0)
  BY <1>1, <1>2, <1>3 DEF MUX!Takes
<1>6. taken[2] = IF MUX!Reaches(avail, bits, space, 2)
                   THEN MUX!Lesser(MUX!Lesser(avail[2], n2), space - n1) ELSE 0
  BY <1>1, <1>2 DEF MUX!Takes
<1>7. \A x, y \in Int : /\ MUX!Lesser(x, y) \in {x, y}
                        /\ MUX!Lesser(x, y) <= x /\ MUX!Lesser(x, y) <= y
  BY DEF MUX!Lesser
<1> HIDE DEF n1, n2, taken
<1>8. n1 \in Nat /\ n2 \in Nat
  BY DEF n1, n2
<1>9. /\ taken[1] \in Nat /\ taken[1] <= avail[1] /\ taken[1] <= n1 /\ taken[1] <= space
      /\ n1 > 0 /\ avail[1] > 0 /\ space > 0 => taken[1] > 0
  BY <1>5, <1>7, <1>8
<1>10. CASE MUX!Reaches(avail, bits, space, 2)
  <2>1. avail[1] >= n1 /\ n1 <= space
    BY <1>4, <1>10
  <2>2. taken[1] = n1
    BY <1>5, <1>8, <2>1 DEF MUX!Lesser
  <2>3. space - n1 \in Nat
    BY <1>8, <2>1
  <2>4. /\ taken[2] \in Nat /\ taken[2] <= avail[2] /\ taken[2] <= n2
        /\ taken[2] <= space - n1
    BY <1>6, <1>7, <1>8, <1>10, <2>3
  <2>5. taken[1] + taken[2] <= space
    BY <1>8, <2>2, <2>3, <2>4
  <2> QED BY <1>9, <2>2, <2>4, <2>5 DEF n1, n2, taken
<1>11. CASE ~MUX!Reaches(avail, bits, space, 2)
  <2>1. taken[2] = 0
    BY <1>6, <1>11
  <2> QED BY <1>8, <1>9, <2>1 DEF n1, n2, taken
<1> QED BY <1>10, <1>11

(* Where a call of Mux leaves the first packet that is not done, if it     *)
(* copies a and b items and then needs more of the first or second input.  *)
LEMMA CopyGoesOn ==
  ASSUME NEW avail, NEW bits, NEW space, NEW taken,
         MUX!Copy(avail, bits, space, taken), ~MUX!Finishes(bits, taken),
         taken[1] \in Nat, taken[2] \in Nat,
         MUX!Needs(bits, 1) \in Nat, MUX!Needs(bits, 2) \in Nat,
         taken[1] <= MUX!Needs(bits, 1), taken[2] <= MUX!Needs(bits, 2)
  PROVE  /\ mux_packet_lens' = MUX!Lens(bits)
         /\ \/ /\ mux_current_input' = 1 /\ taken[1] < MUX!Needs(bits, 1)
               /\ mux_remaining' = MUX!Needs(bits, 1) - taken[1]
            \/ /\ mux_current_input' = 2 /\ taken[1] = MUX!Needs(bits, 1)
               /\ taken[2] < MUX!Needs(bits, 2)
               /\ mux_remaining' = MUX!Needs(bits, 2) - taken[2]
         /\ UNCHANGED mux_failed
<1> DEFINE P(j) == /\ taken[j] < MUX!Needs(bits, j)
                   /\ \A k \in 1 .. j - 1 : taken[k] = MUX!Needs(bits, k)
<1>1. MUX!Inputs = {1, 2}
  BY DEF MUX!Inputs
<1>2. /\ mux_packet_lens' = MUX!Lens(bits)
      /\ mux_current_input' = CHOOSE j \in MUX!Inputs : P(j)
      /\ mux_remaining' = MUX!Needs(bits, mux_current_input') - taken[mux_current_input']
      /\ UNCHANGED mux_failed
  BY DEF MUX!Copy
<1>3. P(1) <=> taken[1] < MUX!Needs(bits, 1)
  OBVIOUS
<1>4. P(2) <=> taken[2] < MUX!Needs(bits, 2) /\ taken[1] = MUX!Needs(bits, 1)
  OBVIOUS
<1>5. ~(taken[1] = MUX!Needs(bits, 1) /\ taken[2] = MUX!Needs(bits, 2))
  BY <1>1 DEF MUX!Finishes
<1> HIDE DEF P
<1>6. P(1) \/ P(2)
  BY <1>3, <1>4, <1>5
<1>7. mux_current_input' \in {1, 2} /\ P(mux_current_input')
  BY <1>1, <1>2, <1>6
<1>8. CASE mux_current_input' = 1
  BY <1>2, <1>3, <1>7, <1>8
<1>9. CASE mux_current_input' = 2
  BY <1>2, <1>4, <1>7, <1>9
<1> QED BY <1>2, <1>7, <1>8, <1>9

(* What Mux has sent of the first packet and what it needs of it.          *)
LEMMA SentSizes ==
  ASSUME TypeOK, MuxInPacket
  PROVE  /\ HeaderSent \in Nat /\ HeaderSent <= HeaderSize
         /\ PayloadSent \in Nat
         /\ Sent = HeaderSent + PayloadSent
         /\ PayloadSent > 0 => HeaderSent = HeaderSize
         /\ mux_packet_lens = <<>> => HeaderSent = 0 /\ PayloadSent = 0
         /\ N > 0 => accepted[1] \in Packets
         /\ mux_packet_lens # <<>> =>
              /\ N > 0 /\ PayloadSent < Size(accepted[1])
              /\ mux_packet_lens = <<HeaderSize, Size(accepted[1])>>
<1>1. N \in Nat /\ (N > 0 => accepted[1] \in Packets)
  <2>1. accepted \in Seq(Packets)
    BY DEF TypeOK
  <2>2. N \in Nat /\ (N > 0 => 1 \in 1 .. N)
    BY <2>1, LenProperties DEF N
  <2> QED BY <2>1, <2>2, ElementOfSeq DEF N
<1>2. HeaderSize \in Nat /\ HeaderSize > 0
  BY Sizes
<1>3. CASE mux_packet_lens = <<>>
  BY <1>1, <1>2, <1>3 DEF HeaderSent, PayloadSent, Sent
<1>4. CASE mux_packet_lens # <<>>
  <2>1. /\ N > 0
        /\ mux_packet_lens = <<HeaderSize, Size(accepted[1])>>
        /\ mux_current_input \in {1, 2}
        /\ mux_remaining \in 1 .. mux_packet_lens[mux_current_input]
    BY <1>4 DEF MuxInPacket
  <2>2. Size(accepted[1]) \in Nat /\ Size(accepted[1]) > 0
    BY <1>1, <2>1, PacketSizes
  <2>3. mux_packet_lens[1] = HeaderSize /\ mux_packet_lens[2] = Size(accepted[1])
    BY <2>1
  <2>4. CASE mux_current_input = 1
    <3>1. mux_remaining \in Nat /\ mux_remaining <= HeaderSize /\ mux_remaining > 0
      BY <1>2, <2>1, <2>3, <2>4
    <3>2. HeaderSent = HeaderSize - mux_remaining /\ PayloadSent = 0
          /\ Sent = HeaderSize - mux_remaining
      BY <1>4, <2>3, <2>4 DEF HeaderSent, PayloadSent, Sent
    <3> QED BY <1>1, <1>2, <1>4, <2>1, <2>2, <3>1, <3>2
  <2>5. CASE mux_current_input = 2
    <3>1. mux_remaining \in Nat /\ mux_remaining <= Size(accepted[1]) /\ mux_remaining > 0
      BY <2>1, <2>2, <2>3, <2>5
    <3>2. /\ HeaderSent = HeaderSize /\ PayloadSent = Size(accepted[1]) - mux_remaining
          /\ Sent = HeaderSize + Size(accepted[1]) - mux_remaining
      BY <1>4, <2>3, <2>5 DEF HeaderSent, PayloadSent, Sent
    <3> QED BY <1>1, <1>2, <1>4, <2>1, <2>2, <3>1, <3>2
  <2> QED BY <2>1, <2>4, <2>5
<1> QED BY <1>3, <1>4

(* The tags at the two inputs of Mux. *)
MuxBits == <<TagAt(headers), TagAt(payload)>>

(* Where a packet may begin, its lengths are there. *)
TagsThere ==
  mux_packet_lens = <<>> /\ Len(headers) > 0 /\ Len(payload) > 0 =>
    /\ N > 0
    /\ TagAt(headers) = HeaderSize /\ TagAt(payload) = Size(accepted[1])

(* What Mux needs for the rest of the first packet. *)
LEMMA NeedsOfPacket ==
  ASSUME TypeOK, MuxInPacket, TagsThere,
         mux_packet_lens = <<>> => Len(headers) > 0 /\ Len(payload) > 0
  PROVE  /\ N > 0 /\ accepted[1] \in Packets
         /\ MUX!Needs(MuxBits, 1) \in Nat
         /\ MUX!Needs(MuxBits, 1) = HeaderSize - HeaderSent
         /\ MUX!Needs(MuxBits, 2) \in Nat /\ MUX!Needs(MuxBits, 2) > 0
         /\ MUX!Needs(MuxBits, 2) = Size(accepted[1]) - PayloadSent
         /\ MUX!Lens(MuxBits) = <<HeaderSize, Size(accepted[1])>>
         /\ mux_packet_lens = <<>> => MuxBits = <<HeaderSize, Size(accepted[1])>>
<1>1. N > 0
  BY SentSizes DEF TagsThere
<1>2. accepted[1] \in Packets /\ Size(accepted[1]) \in Nat /\ Size(accepted[1]) > 0
  BY <1>1, SentSizes, PacketSizes
<1>3. HeaderSize \in Nat /\ HeaderSize > 0
  BY Sizes
<1>4. CASE mux_packet_lens = <<>>
  <2>1. MuxBits = <<HeaderSize, Size(accepted[1])>>
    BY <1>4 DEF MuxBits, TagsThere
  <2>2. MUX!Lens(MuxBits) = MuxBits /\ MUX!First = 1
    BY <1>4 DEF MUX!Lens, MUX!First, MUX!AtStart
  <2>3. MUX!Needs(MuxBits, 1) = HeaderSize /\ MUX!Needs(MuxBits, 2) = Size(accepted[1])
    BY <1>4, <2>1, <2>2 DEF MUX!Needs, MUX!AtStart
  <2>4. HeaderSent = 0 /\ PayloadSent = 0
    BY <1>4 DEF HeaderSent, PayloadSent
  <2> QED BY <1>1, <1>2, <1>3, <1>4, <2>1, <2>2, <2>3, <2>4
<1>5. CASE mux_packet_lens # <<>>
  <2>1. /\ mux_packet_lens = <<HeaderSize, Size(accepted[1])>>
        /\ mux_current_input \in {1, 2}
        /\ mux_remaining \in 1 .. mux_packet_lens[mux_current_input]
    BY <1>5 DEF MuxInPacket
  <2>2. MUX!Lens(MuxBits) = mux_packet_lens /\ MUX!First = mux_current_input
    BY <1>5 DEF MUX!Lens, MUX!First, MUX!AtStart
  <2>3. mux_packet_lens[1] = HeaderSize /\ mux_packet_lens[2] = Size(accepted[1])
    BY <2>1
  <2>4. CASE mux_current_input = 1
    <3>1. /\ MUX!Needs(MuxBits, 1) = mux_remaining
          /\ MUX!Needs(MuxBits, 2) = Size(accepted[1])
      BY <1>5, <2>2, <2>3, <2>4 DEF MUX!Needs, MUX!AtStart
    <3>2. HeaderSent = HeaderSize - mux_remaining /\ PayloadSent = 0
      BY <1>5, <2>4 DEF HeaderSent, PayloadSent
    <3>3. mux_remaining \in Nat
      BY <1>3, <2>1, <2>3, <2>4
    <3> QED BY <1>1, <1>2, <1>3, <1>5, <2>1, <2>2, <3>1, <3>2, <3>3
  <2>5. CASE mux_current_input = 2
    <3>1. /\ MUX!Needs(MuxBits, 1) = 0
          /\ MUX!Needs(MuxBits, 2) = mux_remaining
      BY <1>5, <2>2, <2>3, <2>5 DEF MUX!Needs, MUX!AtStart
    <3>2. HeaderSent = HeaderSize /\ PayloadSent = Size(accepted[1]) - mux_remaining
      BY <1>5, <2>3, <2>5 DEF HeaderSent, PayloadSent
    <3>3. mux_remaining \in Nat /\ mux_remaining > 0
      BY <1>2, <2>1, <2>3, <2>5
    <3> QED BY <1>1, <1>2, <1>3, <1>5, <2>1, <2>2, <3>1, <3>2, <3>3
  <2> QED BY <2>1, <2>4, <2>5
<1> QED BY <1>4, <1>5

(* What a call of Mux does: it copies a items of the header of the first   *)
(* packet and b items of what is behind the header.                        *)
MuxMoves(a, b) ==
  /\ a \in 0 .. Len(headers) /\ b \in 0 .. Len(payload)
  /\ a <= HeaderSize - HeaderSent
  /\ b > 0 => a = HeaderSize - HeaderSent
  /\ a + b > 0 => N > 0 /\ b <= Size(accepted[1]) - PayloadSent
  /\ headers' = From(headers, a) /\ payload' = From(payload, b)
  /\ out' = LET items == SubSeq(headers, 1, a) \o SubSeq(payload, 1, b)
            IN  IF items = <<>> THEN out
                ELSE [i \in DOMAIN items |->
                       [items[i] EXCEPT !.bits =
                          IF i = 1 /\ mux_packet_lens = <<>> THEN FrameSize(accepted[1]) ELSE 0]]

(* The packet is complete. *)
MuxEnds(a, b) ==
  /\ N > 0 /\ b > 0
  /\ a = HeaderSize - HeaderSent /\ b = Size(accepted[1]) - PayloadSent
  /\ mux_packet_lens' = <<>> /\ mux_current_input' = 3 /\ mux_remaining' = 0
  /\ accepted' = Tail(accepted)

(* The packet goes on, or none has begun. *)
MuxGoesOn(a, b) ==
  /\ UNCHANGED accepted
  /\ \/ a = 0 /\ b = 0 /\ mux_packet_lens' = <<>> /\ UNCHANGED mux_vars
     \/ /\ N > 0
        /\ mux_packet_lens' = <<HeaderSize, Size(accepted[1])>>
        /\ mux_current_input' \in {1, 2}
        /\ mux_remaining' \in 1 .. mux_packet_lens'[mux_current_input']
        /\ HeaderSent' = HeaderSent + a
        /\ PayloadSent' = PayloadSent + b
        /\ mux_packet_lens = <<>> => a > 0

(* With the right tags in front of it Mux does not throw, and does this.   *)
LEMMA MuxEffect ==
  ASSUME NoBlockFails, MuxInPacket, TagsThere,
         NEW space \in 1 .. MaxSpace, Mux(space)
  PROVE  /\ mux_failed' = FALSE
         /\ \E a, b \in Nat : MuxMoves(a, b) /\ (MuxEnds(a, b) \/ MuxGoesOn(a, b))
         /\ UNCHANGED <<in_vars, metadata, plain, data, crc_vars, payload_tag>>
<1> DEFINE avail == <<Len(headers), Len(payload)>>
<1>1. TypeOK /\ ~mux_failed /\ mux_failed \in BOOLEAN
  BY DEF NoBlockFails, TypeOK
<1>2. /\ headers \in Seq(Item) /\ Len(headers) \in Nat
      /\ payload \in Seq(Item) /\ Len(payload) \in Nat
  BY <1>1, LenProperties DEF TypeOK
<1>3. space \in Nat /\ space > 0
  BY Sizes
<1>4. UNCHANGED <<in_vars, metadata, plain, data, crc_vars, payload_tag>>
  BY DEF Mux
<1>5. PICK a \in 0 .. Len(headers), b \in 0 .. Len(payload) :
        /\ MUX!ProcessBulk(avail, MuxBits, space, <<a, b>>)
        /\ LET items == SubSeq(headers, 1, a) \o SubSeq(payload, 1, b)
               joined == [i \in DOMAIN items |->
                           [items[i] EXCEPT !.bits = IF i = 1 THEN MUX!TagOut(MuxBits) ELSE 0]]
           IN out' = IF items = <<>> THEN out ELSE joined
        /\ headers' = From(headers, a)
        /\ payload' = From(payload, b)
        /\ accepted' = IF b > 0 /\ mux_packet_lens' = <<>> THEN Tail(accepted) ELSE accepted
  BY DEF Mux, MuxBits
<1> DEFINE taken == <<a, b>>
           items == SubSeq(headers, 1, a) \o SubSeq(payload, 1, b)
<1>6. a \in Nat /\ b \in Nat /\ taken[1] = a /\ taken[2] = b
  BY <1>2
<1>7. HeaderSent \in Nat /\ HeaderSent <= HeaderSize /\ HeaderSize \in Nat /\ HeaderSize > 0
  BY <1>1, SentSizes, Sizes
<1>8. CASE MUX!Wait(avail, taken)
  <2>1. mux_packet_lens = <<>> /\ UNCHANGED mux_vars
    BY <1>8 DEF MUX!Wait, MUX!Ready, MUX!AtStart, MUX!vars, mux_vars
  <2>2. a = 0 /\ b = 0
    <3>1. taken[1] = 0 /\ taken[2] = 0
      BY <1>8 DEF MUX!Wait, MUX!Inputs
    <3> QED BY <3>1, <1>6
  <2>3. items = <<>>
    <3>1. /\ SubSeq(headers, 1, 0) \in Seq(Item) /\ Len(SubSeq(headers, 1, 0)) = 0
          /\ SubSeq(payload, 1, 0) \in Seq(Item) /\ Len(SubSeq(payload, 1, 0)) = 0
      BY <1>2, FrontProperties
    <3>2. items \in Seq(Item) /\ Len(items) = 0
      BY <2>2, <3>1, JoinProperties
    <3> QED BY <3>2, EmptyLength
  <2>4. MuxMoves(a, b)
    BY <1>5, <1>6, <1>7, <2>2, <2>3 DEF MuxMoves
  <2>5. MuxGoesOn(a, b)
    BY <1>5, <2>1, <2>2 DEF MuxGoesOn, mux_vars
  <2>6. mux_failed' = FALSE
    BY <1>1, <2>1 DEF mux_vars
  <2> QED BY <1>4, <1>6, <2>4, <2>5, <2>6
<1>9. ~MUX!Throw(avail, MuxBits, taken)
  <2>1. SUFFICES ASSUME MUX!Throw(avail, MuxBits, taken)
                 PROVE  FALSE
    OBVIOUS
  <2>2. /\ mux_packet_lens = <<>> /\ avail[1] > 0 /\ avail[2] > 0
        /\ MuxBits[1] = 0 \/ MuxBits[2] = 0
    BY <2>1 DEF MUX!Throw, MUX!Ready, MUX!AtStart, MUX!Inputs
  <2>3. N > 0 /\ MuxBits[1] = HeaderSize /\ MuxBits[2] = Size(accepted[1])
    BY <2>2 DEF TagsThere, MuxBits
  <2>4. Size(accepted[1]) > 0
    BY <1>1, <2>3, SentSizes, PacketSizes
  <2>5. HeaderSize # 0 /\ Size(accepted[1]) # 0
    BY <1>7, <2>4
  <2> QED BY <2>2, <2>3, <2>5
<1>10. CASE MUX!Copy(avail, MuxBits, space, taken)
  <2>1. mux_packet_lens = <<>> => Len(headers) > 0 /\ Len(payload) > 0
    BY <1>10 DEF MUX!Copy, MUX!Ready, MUX!AtStart, MUX!Inputs
  <2>2. /\ N > 0 /\ accepted[1] \in Packets
        /\ MUX!Needs(MuxBits, 1) \in Nat
        /\ MUX!Needs(MuxBits, 1) = HeaderSize - HeaderSent
        /\ MUX!Needs(MuxBits, 2) \in Nat /\ MUX!Needs(MuxBits, 2) > 0
        /\ MUX!Needs(MuxBits, 2) = Size(accepted[1]) - PayloadSent
        /\ MUX!Lens(MuxBits) = <<HeaderSize, Size(accepted[1])>>
        /\ mux_packet_lens = <<>> => MuxBits = <<HeaderSize, Size(accepted[1])>>
    BY <1>1, <2>1, NeedsOfPacket
  <2>3. taken = MUX!Takes(avail, MuxBits, space)
    BY <1>10 DEF MUX!Copy
  <2>4. /\ a <= MUX!Needs(MuxBits, 1) /\ b <= MUX!Needs(MuxBits, 2)
        /\ b > 0 => a = MUX!Needs(MuxBits, 1)
        /\ MUX!Needs(MuxBits, 1) > 0 /\ Len(headers) > 0 => a > 0
    <3>1. avail[1] = Len(headers) /\ avail[2] = Len(payload)
      OBVIOUS
    <3> HIDE DEF avail
    <3>2. LET n1 == MUX!Needs(MuxBits, 1)
              n2 == MUX!Needs(MuxBits, 2)
              t == MUX!Takes(avail, MuxBits, space)
          IN  /\ t[1] \in Nat /\ t[1] <= avail[1] /\ t[1] <= n1
              /\ t[1] <= space
              /\ n1 > 0 /\ avail[1] > 0 /\ space > 0 => t[1] > 0
              /\ t[2] \in Nat /\ t[2] <= avail[2] /\ t[2] <= n2
              /\ t[1] + t[2] <= space
              /\ t[2] > 0 => t[1] = n1
      BY <1>2, <1>3, <2>2, <3>1, TakesFromBoth
    <3> QED BY <1>3, <1>6, <2>3, <3>1, <3>2
  <2>5. MUX!TagOut(MuxBits) = IF mux_packet_lens = <<>> THEN FrameSize(accepted[1]) ELSE 0
    <3>1. CASE mux_packet_lens = <<>>
      <4>1. MuxBits[1] = HeaderSize /\ MuxBits[2] = Size(accepted[1])
        BY <2>2, <3>1
      <4>2. MuxBits[1] \in Int /\ MuxBits[2] \in Int
        BY <1>7, <2>2, <4>1, PacketSizes
      <4>3. MUX!MapThenSumSet(LAMBDA j : MuxBits[j], MUX!Inputs) = MuxBits[1] + MuxBits[2]
        BY <4>2, SumOfBoth
      <4> QED BY <3>1, <4>1, <4>3 DEF MUX!TagOut, MUX!AtStart, FrameSize
    <3>2. CASE mux_packet_lens # <<>>
      BY <3>2 DEF MUX!TagOut, MUX!AtStart
    <3> QED BY <3>1, <3>2
  <2>6. MuxMoves(a, b)
    <3>1. out' = IF items = <<>> THEN out
                 ELSE [i \in DOMAIN items |->
                       [items[i] EXCEPT !.bits =
                          IF i = 1 /\ mux_packet_lens = <<>> THEN FrameSize(accepted[1]) ELSE 0]]
      BY <1>5, <2>5
    <3>2. a \in 0 .. Len(headers) /\ b \in 0 .. Len(payload)
      OBVIOUS
    <3> HIDE DEF items
    <3> QED BY <1>5, <2>2, <2>4, <3>1, <3>2 DEF MuxMoves, items
  <2>7. CASE MUX!Finishes(MuxBits, taken)
    <3>1. a = MUX!Needs(MuxBits, 1) /\ b = MUX!Needs(MuxBits, 2)
      BY <1>6, <2>7 DEF MUX!Finishes, MUX!Inputs
    <3>2. /\ mux_packet_lens' = <<>> /\ mux_current_input' = 2 + 1 /\ mux_remaining' = 0
          /\ UNCHANGED mux_failed
      BY <1>10, <2>7 DEF MUX!Copy
    <3>3. MuxEnds(a, b)
      BY <1>5, <2>2, <3>1, <3>2 DEF MuxEnds
    <3> QED BY <1>1, <1>4, <1>6, <2>6, <3>2, <3>3
  <2>8. CASE ~MUX!Finishes(MuxBits, taken)
    <3>1. /\ mux_packet_lens' = MUX!Lens(MuxBits)
          /\ \/ /\ mux_current_input' = 1 /\ a < MUX!Needs(MuxBits, 1)
                /\ mux_remaining' = MUX!Needs(MuxBits, 1) - a
             \/ /\ mux_current_input' = 2 /\ a = MUX!Needs(MuxBits, 1)
                /\ b < MUX!Needs(MuxBits, 2)
                /\ mux_remaining' = MUX!Needs(MuxBits, 2) - b
          /\ UNCHANGED mux_failed
      <4> HIDE DEF taken, avail
      <4> QED BY <1>6, <1>10, <2>2, <2>4, <2>8, CopyGoesOn
    <3>2. mux_packet_lens' = <<HeaderSize, Size(accepted[1])>>
      BY <2>2, <3>1
    <3>3. /\ mux_packet_lens' # <<>> /\ mux_packet_lens'[1] = HeaderSize
          /\ mux_packet_lens'[2] = Size(accepted[1])
      BY <3>2
    <3>4. UNCHANGED accepted
      BY <1>5, <3>3
    <3>5. Size(accepted[1]) \in Nat /\ PayloadSent \in Nat
      BY <1>1, <2>2, SentSizes, PacketSizes
    <3>6. PayloadSent > 0 => HeaderSent = HeaderSize
      BY <1>1, SentSizes
    <3>7. /\ mux_current_input' \in {1, 2}
          /\ mux_remaining' \in 1 .. mux_packet_lens'[mux_current_input']
          /\ HeaderSent' = HeaderSent + a
          /\ PayloadSent' = PayloadSent + b
      <4>1. CASE mux_current_input' = 1
        <5>1. /\ a < MUX!Needs(MuxBits, 1) /\ mux_remaining' = MUX!Needs(MuxBits, 1) - a
          BY <3>1, <4>1
        <5>2. b = 0 /\ PayloadSent = 0
          <6>1. ~(b > 0)
            BY <2>4, <5>1
          <6>2. HeaderSent # HeaderSize
            BY <1>6, <1>7, <2>2, <5>1
          <6> QED BY <1>6, <3>5, <3>6, <6>1, <6>2
        <5>3. HeaderSent' = HeaderSize - mux_remaining' /\ PayloadSent' = 0
          BY <3>3, <4>1 DEF HeaderSent, PayloadSent
        <5>4. HeaderSent \in Nat
          BY <1>1, SentSizes
        <5>5. mux_remaining' = (HeaderSize - HeaderSent) - a
          BY <2>2, <5>1
        <5>6. mux_remaining' \in 1 .. HeaderSize
          BY <1>6, <1>7, <2>2, <5>1, <5>4, <5>5
        <5>7. HeaderSent' = HeaderSent + a
          BY <1>6, <1>7, <5>3, <5>4, <5>5
        <5> QED BY <1>6, <3>3, <4>1, <5>2, <5>3, <5>6, <5>7
      <4>2. CASE mux_current_input' = 2
        <5>1. /\ a = MUX!Needs(MuxBits, 1) /\ b < MUX!Needs(MuxBits, 2)
              /\ mux_remaining' = MUX!Needs(MuxBits, 2) - b
          BY <3>1, <4>2
        <5>2. /\ HeaderSent' = HeaderSize
              /\ PayloadSent' = mux_packet_lens'[2] - mux_remaining'
          BY <3>3, <4>2 DEF HeaderSent, PayloadSent
        <5>3. mux_remaining' = Size(accepted[1]) - PayloadSent - b
          BY <2>2, <5>1
        <5>4. mux_remaining' \in 1 .. Size(accepted[1])
          BY <1>6, <2>2, <3>5, <5>1
        <5>5. HeaderSent' = HeaderSent + a
          BY <1>6, <1>7, <2>2, <5>1, <5>2
        <5>6. PayloadSent' = PayloadSent + b
          BY <1>6, <3>3, <3>5, <5>2, <5>3
        <5> QED BY <3>3, <4>2, <5>4, <5>5, <5>6
      <4> QED BY <3>1, <4>1, <4>2
    <3>8. mux_packet_lens = <<>> => a > 0
      <4>1. mux_packet_lens = <<>> => HeaderSent = 0
        BY <1>1, SentSizes
      <4>2. mux_packet_lens = <<>> => MUX!Needs(MuxBits, 1) > 0
        BY <1>7, <2>2, <4>1
      <4> QED BY <2>1, <2>4, <4>2
    <3>9. MuxGoesOn(a, b)
      BY <2>2, <3>2, <3>4, <3>7, <3>8 DEF MuxGoesOn
    <3> QED BY <1>1, <1>4, <1>6, <2>6, <3>1, <3>9
  <2> QED BY <2>7, <2>8
<1> QED BY <1>5, <1>8, <1>9, <1>10 DEF MUX!ProcessBulk

-----------------------------------------------------------------------------
(* Mux keeps the invariant: items leave headers and payload at the front,  *)
(* and with its last item a packet leaves accepted.                        *)

(* The accepted packets after gone of them, one or none, have left. *)
Leaves(gone) ==
  /\ accepted' \in Seq(Packets) /\ Len(accepted') = N - gone
  /\ \A k \in 1 .. N - gone : accepted'[k] = accepted[k + gone]

(* The way of the headers is kept when Mux takes items, and a packet that  *)
(* is complete goes.                                                       *)
LEMMA HeadersLeave ==
  ASSUME TypeOK, NEW coded, NEW header_at,
         HeadersAt(coded, header_at),
         NEW a \in 0 .. Len(headers), headers' = From(headers, a),
         NEW gone \in {0, 1}, gone <= coded, Leaves(gone),
         UNCHANGED <<plain, metadata>>,
         0 - HeaderSent' = header_at[1 + gone] - a
  PROVE  HeaderWay'
<1>1. PICK next_at : next_at = [k \in 1 .. N - gone + 1 |-> header_at[k + gone] - a]
  OBVIOUS
<1>2. PICK next_coded : next_coded = coded - gone
  OBVIOUS
<1>0. HeaderPlaces(coded, header_at) /\ HeadersThere(coded, header_at) /\ MessagesThere(coded)
  BY DEF HeadersAt
<1>3. /\ headers \in Seq(Item) /\ Len(headers) \in Nat /\ accepted \in Seq(Packets) /\ N \in Nat
      /\ Len(plain) \in Nat /\ Len(metadata) \in Nat
  BY LenProperties DEF TypeOK, N
<1>4. /\ coded \in Nat /\ coded <= N
      /\ header_at \in [1 .. N + 1 -> Int]
      /\ \A k \in 1 .. coded : /\ header_at[k + 1] = header_at[k] + HeaderSize
                               /\ header_at[k + 1] <= Len(headers)
      /\ Len(headers) = header_at[coded + 1]
      /\ a \in Nat /\ a <= Len(headers)
  BY <1>0, <1>3 DEF HeaderPlaces
<1>5. gone \in Nat /\ next_coded \in Nat /\ next_coded + gone = coded /\ N' = N - gone
      /\ N - gone \in Nat
  BY <1>2, <1>3, <1>4 DEF Leaves, N
<1>6. Len(headers') = Len(headers) - a
      /\ \A i \in 1 .. Len(headers) - a : headers'[i] = headers[i + a]
  BY <1>3, FromProperties
<1>7. /\ \A k \in 1 .. N - gone + 1 : next_at[k] = header_at[k + gone] - a
      /\ next_at \in [1 .. N - gone + 1 -> Int]
  <2>1. \A k \in 1 .. N - gone + 1 : k + gone \in 1 .. N + 1
    BY <1>3, <1>5
  <2>2. \A k \in 1 .. N - gone + 1 : header_at[k + gone] - a \in Int
    BY <1>4, <2>1
  <2> QED BY <1>1, <2>2
<1>8. HeaderPlaces(next_coded, next_at)'
  <2>1. next_coded \in 0 .. N'
    BY <1>3, <1>4, <1>5
  <2>2. next_at \in [1 .. N' + 1 -> Int]
    BY <1>5, <1>7
  <2>3. next_at[1] = 0 - HeaderSent'
    BY <1>5, <1>7
  <2>4. ASSUME NEW k \in 1 .. next_coded
        PROVE  next_at[k + 1] = next_at[k] + HeaderSize /\ next_at[k + 1] <= Len(headers')
    <3>1. k + gone \in 1 .. coded /\ k \in 1 .. N - gone + 1 /\ k + 1 \in 1 .. N - gone + 1
      BY <1>3, <1>4, <1>5
    <3>2. /\ header_at[(k + gone) + 1] = header_at[k + gone] + HeaderSize
          /\ header_at[(k + gone) + 1] <= Len(headers)
      BY <1>4, <3>1
    <3>3. next_at[k] = header_at[k + gone] - a /\ next_at[k + 1] = header_at[(k + 1) + gone] - a
      BY <1>7, <3>1
    <3>4. (k + 1) + gone = (k + gone) + 1 /\ k + gone \in 1 .. N + 1
      BY <1>3, <1>4, <1>5, <3>1
    <3>5. header_at[k + gone] \in Int
      BY <1>4, <3>4
    <3>6. (k + gone) + 1 \in 1 .. N + 1
      BY <1>3, <1>4, <3>1
    <3>7. header_at[(k + gone) + 1] \in Int
      BY <1>4, <3>6
    <3>8. next_at[k + 1] = header_at[(k + gone) + 1] - a
      BY <3>3, <3>4
    <3>9. a \in Nat /\ Len(headers) \in Nat /\ HeaderSize \in Nat /\ Len(headers') = Len(headers) - a
      BY <1>3, <1>4, <1>6, Sizes
    <3>10. header_at[(k + gone) + 1] - a = (header_at[k + gone] - a) + HeaderSize
      BY <3>2, <3>5, <3>9
    <3>11. header_at[(k + gone) + 1] - a <= Len(headers) - a
      BY <3>2, <3>7, <3>9
    <3> QED BY <3>3, <3>8, <3>9, <3>10, <3>11
  <2>5. Len(headers') = next_at[next_coded + 1]
    <3>1. next_coded + 1 \in 1 .. N - gone + 1 /\ next_coded + 1 + gone = coded + 1
      BY <1>3, <1>4, <1>5
    <3> QED BY <1>4, <1>6, <1>7, <3>1
  <2> QED BY <2>1, <2>2, <2>3, <2>4, <2>5 DEF HeaderPlaces
<1>9. HeadersThere(next_coded, next_at)'
  <2>1. ASSUME NEW k \in 1 .. next_coded, NEW j \in 1 .. HeaderSize,
               next_at[k] + j \in 1 .. Len(headers')
        PROVE  headers'[next_at[k] + j] = HeaderItem(accepted'[k], j)
    <3>1. k + gone \in 1 .. coded /\ k \in 1 .. N - gone /\ k \in 1 .. N - gone + 1
      BY <1>3, <1>4, <1>5
    <3>2. next_at[k] = header_at[k + gone] - a /\ header_at[k + gone] \in Int
      BY <1>3, <1>4, <1>7, <3>1
    <3>3. /\ next_at[k] + j \in 1 .. Len(headers) - a
          /\ next_at[k] + j + a = header_at[k + gone] + j
          /\ header_at[k + gone] + j \in 1 .. Len(headers)
      <4>1. next_at[k] + j \in 1 .. Len(headers) - a
        BY <1>6, <2>1
      <4>2. j \in Int /\ next_at[k] \in Int
        BY <1>4, <3>2, Sizes
      <4>3. next_at[k] + j + a = header_at[k + gone] + j
        BY <1>4, <3>2, <4>2
      <4>4. \A x \in 1 .. Len(headers) - a : x + a \in 1 .. Len(headers)
        BY <1>3, <1>4
      <4>5. next_at[k] + j + a \in 1 .. Len(headers)
        BY <4>1, <4>4
      <4> QED BY <4>1, <4>3, <4>5
    <3>4. headers[header_at[k + gone] + j] = HeaderItem(accepted[k + gone], j)
      BY <1>0, <3>1, <3>3 DEF HeadersThere
    <3>5. accepted'[k] = accepted[k + gone]
      BY <3>1 DEF Leaves
    <3> QED BY <1>6, <3>3, <3>4, <3>5
  <2> QED BY <2>1 DEF HeadersThere, HeaderItem
<1>10. MessagesThere(next_coded)'
  <2>0. coded + Len(plain) + Len(metadata) = N
    BY <1>0 DEF MessagesThere
  <2>1. next_coded + Len(plain) + Len(metadata) = N'
    <3>1. \A w, x, y, z \in Nat : (w + gone) + x + y = z => w + x + y = z - gone
      BY <1>5
    <3> QED BY <1>3, <1>5, <2>0, <3>1
  <2>2. ASSUME NEW i \in 1 .. Len(plain)
        PROVE  plain[i] = accepted'[next_coded + i]
    <3>1. plain[i] = accepted[coded + i]
      BY <1>0 DEF MessagesThere
    <3>2. next_coded + i \in 1 .. N - gone /\ next_coded + i + gone = coded + i
      BY <1>3, <1>4, <1>5, <2>0
    <3> QED BY <3>1, <3>2 DEF Leaves
  <2>3. ASSUME NEW i \in 1 .. Len(metadata)
        PROVE  metadata[i] = accepted'[next_coded + Len(plain) + i]
    <3>1. metadata[i] = accepted[coded + Len(plain) + i]
      BY <1>0 DEF MessagesThere
    <3>2. /\ next_coded + Len(plain) + i \in 1 .. N - gone
          /\ next_coded + Len(plain) + i + gone = coded + Len(plain) + i
      <4>1. i \in Nat /\ i >= 1 /\ i <= Len(metadata)
        BY <1>3
      <4>2. next_coded + Len(plain) + i + gone = coded + Len(plain) + i
        <5>1. \A w, x, y, z \in Nat : w + x + y + z = w + z + x + y
          OBVIOUS
        <5> QED BY <1>3, <1>5, <4>1, <5>1
      <4>3. next_coded + Len(plain) + i <= N - gone
        BY <1>3, <1>4, <1>5, <2>0, <4>1
      <4> QED BY <1>3, <1>5, <4>1, <4>2, <4>3
    <3> QED BY <3>1, <3>2 DEF Leaves
  <2> QED BY <2>1, <2>2, <2>3 DEF MessagesThere
<1> QED BY <1>8, <1>9, <1>10 DEF HeaderWay, HeadersAt

(* Lengths and packets as numbers. *)
LEMMA LinkLengths ==
  ASSUME TypeOK
  PROVE  /\ N \in Nat /\ accepted \in Seq(Packets)
         /\ \A k \in 1 .. N : /\ accepted[k] \in Packets
                              /\ accepted[k].len \in Nat /\ accepted[k].len > 0
                              /\ Size(accepted[k]) \in Nat
                              /\ Size(accepted[k]) = accepted[k].len + CrcSize
         /\ Len(headers) \in Nat /\ Len(payload) \in Nat /\ Len(data) \in Nat
         /\ Len(plain) \in Nat /\ Len(metadata) \in Nat
         /\ headers \in Seq(Item) /\ payload \in Seq(Item) /\ data \in Seq(Item)
         /\ plain \in Seq(Packets) /\ metadata \in Seq(Packets)
<1>1. /\ headers \in Seq(Item) /\ payload \in Seq(Item) /\ data \in Seq(Item)
      /\ plain \in Seq(Packets) /\ metadata \in Seq(Packets) /\ accepted \in Seq(Packets)
  BY DEF TypeOK
<1>2. /\ Len(headers) \in Nat /\ Len(payload) \in Nat /\ Len(data) \in Nat
      /\ Len(plain) \in Nat /\ Len(metadata) \in Nat /\ N \in Nat
  BY <1>1, LenProperties DEF N
<1>3. \A k \in 1 .. N : accepted[k] \in Packets
  BY <1>1, ElementOfSeq DEF N
<1> QED BY <1>1, <1>2, <1>3, PacketSizes

(* The numbers of the packets in payload and data. *)
LEMMA PlacesOfPackets ==
  ASSUME TypeOK, NEW c, NEW payload_at, NEW data_at,
         PayloadAt(c, payload_at, data_at)
  PROVE  /\ c \in Nat /\ c >= 1 /\ c <= N + 1
         /\ Copied(c) \in Nat
         /\ crc_data_remaining \in Nat
         /\ crc_data_remaining > 0 =>
              /\ c \in 1 .. N /\ crc_data_remaining <= accepted[c].len
              /\ Copied(c) = accepted[c].len - crc_data_remaining
         /\ crc_data_remaining = 0 => Copied(c) = 0
         /\ \A k \in 1 .. N + 1 : payload_at[k] \in Int /\ data_at[k] \in Int
         /\ Coming \in Nat
<1>1. N \in Nat
  BY LinkLengths
<1>2. c \in Nat /\ c >= 1 /\ c <= N + 1
  BY <1>1 DEF PayloadAt, CrcInPacket
<1>3. crc_data_remaining \in Nat /\ in_remaining \in Nat
  BY DEF TypeOK
<1>4. crc_data_remaining > 0 =>
        /\ c \in 1 .. N /\ crc_data_remaining <= accepted[c].len
        /\ Copied(c) = accepted[c].len - crc_data_remaining /\ Copied(c) \in Nat
  <2>1. SUFFICES ASSUME crc_data_remaining > 0
                 PROVE  /\ c \in 1 .. N /\ crc_data_remaining <= accepted[c].len
                        /\ Copied(c) = accepted[c].len - crc_data_remaining /\ Copied(c) \in Nat
    OBVIOUS
  <2>2. c <= N /\ crc_data_remaining <= accepted[c].len
    BY <2>1 DEF PayloadAt, CrcInPacket
  <2>3. c \in 1 .. N
    BY <1>1, <1>2, <2>2
  <2>4. accepted[c].len \in Nat
    BY <2>3, LinkLengths
  <2> QED BY <1>3, <2>1, <2>2, <2>3, <2>4 DEF Copied
<1>5. crc_data_remaining = 0 => Copied(c) = 0
  BY DEF Copied
<1>6. payload_at \in [1 .. N + 1 -> Int] /\ data_at \in [1 .. N + 1 -> Int]
  BY DEF PayloadAt, PayloadPlaces, DataPlaces
<1>7. Coming \in Nat
  BY <1>3 DEF Coming
<1>8. \A k \in 1 .. N + 1 : payload_at[k] \in Int /\ data_at[k] \in Int
  BY <1>6
<1> QED BY <1>2, <1>3, <1>4, <1>5, <1>7, <1>8

(* The same of the way of the payload, where packets are counted from the  *)
(* first one left.                                                         *)
LEMMA PayloadLeaves ==
  ASSUME TypeOK, NEW c, NEW payload_at, NEW data_at,
         PayloadAt(c, payload_at, data_at),
         NEW b \in 0 .. Len(payload), payload' = From(payload, b),
         NEW gone \in {0, 1}, gone < c, Leaves(gone),
         UNCHANGED <<in_vars, data, crc_vars, payload_tag>>,
         0 - PayloadSent' = payload_at[1 + gone] - b
  PROVE  PayloadWay'
<1>1. PICK next_payload : next_payload = [k \in 1 .. N - gone + 1 |-> payload_at[k + gone] - b]
  OBVIOUS
<1>2. PICK next_data : next_data = [k \in 1 .. N - gone + 1 |-> data_at[k + gone]]
  OBVIOUS
<1>3. PICK next_c : next_c = c - gone
  OBVIOUS
<1>4. /\ N \in Nat /\ c \in Nat /\ c >= 1 /\ c <= N + 1
      /\ \A k \in 1 .. N + 1 : payload_at[k] \in Int /\ data_at[k] \in Int
      /\ Len(payload) \in Nat /\ payload \in Seq(Item)
      /\ b \in Nat /\ b <= Len(payload)
  BY LinkLengths, PlacesOfPackets
<1>5. /\ gone \in Nat /\ next_c \in Nat /\ next_c >= 1 /\ next_c + gone = c
      /\ N' = N - gone /\ N - gone \in Nat
  <2>1. Len(accepted') = N - gone
    BY DEF Leaves
  <2> QED BY <1>3, <1>4, <2>1 DEF N
<1>6. /\ Len(payload') = Len(payload) - b
      /\ \A i \in 1 .. Len(payload) - b : payload'[i] = payload[i + b]
  BY <1>4, FromProperties
<1>7. \A k \in 1 .. N - gone + 1 :
        /\ k + gone \in 1 .. N + 1
        /\ next_payload[k] = payload_at[k + gone] - b
        /\ next_payload[k] \in Int
        /\ next_data[k] = data_at[k + gone] /\ next_data[k] \in Int
  <2>1. \A k \in 1 .. N - gone + 1 : k + gone \in 1 .. N + 1
    BY <1>4, <1>5
  <2> QED BY <1>1, <1>2, <1>4, <2>1
<1>8. \A k \in 1 .. N - gone : accepted'[k] = accepted[k + gone] /\ k + gone \in 1 .. N
  <2>1. \A k \in 1 .. N - gone : k + gone \in 1 .. N
    BY <1>4, <1>5
  <2>2. \A k \in 1 .. N - gone : accepted'[k] = accepted[k + gone]
    BY DEF Leaves
  <2> QED BY <2>1, <2>2
<1>9. /\ UNCHANGED <<data, crc_data_remaining, payload_tag>>
      /\ Coming' = Coming
  BY DEF crc_vars, in_vars, Coming
<1>10. Copied(next_c)' = Copied(c)
  <2>1. CASE crc_data_remaining = 0
    BY <1>9, <2>1 DEF Copied
  <2>2. CASE crc_data_remaining # 0
    <3>1. c <= N /\ crc_data_remaining > 0
      BY <2>2, PlacesOfPackets
    <3>2. next_c \in 1 .. N - gone
      BY <1>4, <1>5, <3>1
    <3>3. accepted'[next_c] = accepted[c]
      BY <1>5, <1>8, <3>2
    <3> QED BY <1>9, <3>3 DEF Copied
  <2> QED BY <2>1, <2>2
<1>11. crc_data_remaining > 0 => next_c \in 1 .. N - gone /\ accepted'[next_c] = accepted[c]
  <2>1. crc_data_remaining > 0 => c <= N
    BY PlacesOfPackets
  <2> QED BY <1>4, <1>5, <1>8, <2>1
<1>12. CrcInPacket(next_c)'
  <2>1. next_c \in 1 .. N' + 1
    BY <1>4, <1>5
  <2>2. crc_data_remaining > 0 => next_c <= N' /\ crc_data_remaining <= accepted'[next_c].len
    BY <1>4, <1>5, <1>11 DEF PayloadAt, CrcInPacket
  <2>3. payload_tag = IF crc_data_remaining > 0 /\ Copied(next_c)' = 0
                        THEN Size(accepted'[next_c]) ELSE 0
    BY <1>10, <1>11 DEF PayloadAt, CrcInPacket
  <2> QED BY <1>9, <2>1, <2>2, <2>3 DEF CrcInPacket, Size
<1>13. PayloadPlaces(next_c, next_payload)'
  <2>1. next_payload \in [1 .. N' + 1 -> Int]
    BY <1>1, <1>5, <1>7
  <2>2. next_payload[1] = 0 - PayloadSent'
    BY <1>5, <1>7
  <2>3. ASSUME NEW k \in 1 .. next_c - 1
        PROVE  next_payload[k + 1] = next_payload[k] + Size(accepted'[k])
    <3>1. /\ k \in 1 .. N - gone + 1 /\ k + 1 \in 1 .. N - gone + 1 /\ k \in 1 .. N - gone
          /\ k + gone \in 1 .. c - 1 /\ (k + 1) + gone = (k + gone) + 1
      BY <1>4, <1>5
    <3>2. payload_at[(k + gone) + 1] = payload_at[k + gone] + Size(accepted[k + gone])
      BY <3>1 DEF PayloadAt, PayloadPlaces
    <3>3. /\ payload_at[k + gone] \in Int /\ Size(accepted[k + gone]) \in Nat
          /\ accepted'[k] = accepted[k + gone]
      BY <1>4, <1>7, <1>8, <3>1, LinkLengths
    <3>4. next_payload[k + 1] = payload_at[(k + gone) + 1] - b
          /\ next_payload[k] = payload_at[k + gone] - b
      BY <1>7, <3>1
    <3> QED BY <1>4, <3>2, <3>3, <3>4
  <2>4. Len(payload') = next_payload[next_c] + Copied(next_c)'
    <3>1. Len(payload) = payload_at[c] + Copied(c) /\ Copied(c) \in Nat
      BY PlacesOfPackets DEF PayloadAt, PayloadPlaces
    <3>2. next_c \in 1 .. N - gone + 1 /\ c \in 1 .. N + 1
      BY <1>4, <1>5
    <3>3. next_payload[next_c] = payload_at[c] - b /\ payload_at[c] \in Int
      BY <1>4, <1>5, <1>7, <3>2
    <3> QED BY <1>4, <1>6, <1>10, <3>1, <3>3
  <2> QED BY <2>1, <2>2, <2>3, <2>4 DEF PayloadPlaces, Size
<1>14. PayloadThere(next_c, next_payload)'
  <2>1. ASSUME NEW k \in 1 .. next_c, k <= N', NEW j \in 1 .. Size(accepted'[k]),
               next_payload[k] + j \in 1 .. Len(payload')
        PROVE  payload'[next_payload[k] + j] = PayloadItem(accepted'[k], j)
    <3>1. /\ k \in 1 .. N - gone + 1 /\ k \in 1 .. N - gone
          /\ k + gone \in 1 .. c /\ k + gone <= N
      BY <1>4, <1>5, <2>1
    <3>2. /\ accepted'[k] = accepted[k + gone] /\ Size(accepted[k + gone]) \in Nat
          /\ next_payload[k] = payload_at[k + gone] - b /\ payload_at[k + gone] \in Int
      BY <1>4, <1>7, <1>8, <3>1, LinkLengths
    <3>3. j \in Nat /\ j \in 1 .. Size(accepted[k + gone])
      BY <3>2
    <3>4. next_payload[k] + j + b = payload_at[k + gone] + j
      BY <1>4, <3>2, <3>3
    <3>5. next_payload[k] + j \in 1 .. Len(payload) - b
      BY <1>6, <2>1
    <3>6. \A x \in 1 .. Len(payload) - b : x + b \in 1 .. Len(payload)
      BY <1>4
    <3>7. payload_at[k + gone] + j \in 1 .. Len(payload)
      BY <3>4, <3>5, <3>6
    <3>8. payload[payload_at[k + gone] + j] = PayloadItem(accepted[k + gone], j)
      BY <3>1, <3>3, <3>7 DEF PayloadAt, PayloadThere
    <3> QED BY <1>6, <3>2, <3>4, <3>5, <3>8
  <2> QED BY <2>1 DEF PayloadThere, PayloadItem, Size
<1>15. PayloadSpaced(next_c, next_payload)'
  <2>1. ASSUME NEW k \in 1 .. next_c, NEW l \in 1 .. next_c, k <= l
        PROVE  next_payload[l] - next_payload[k] >= (l - k) * (CrcSize + 1)
    <3>1. /\ k \in 1 .. N - gone + 1 /\ l \in 1 .. N - gone + 1
          /\ k + gone \in 1 .. c /\ l + gone \in 1 .. c /\ k + gone <= l + gone
      BY <1>4, <1>5, <2>1
    <3>2. payload_at[l + gone] - payload_at[k + gone]
            >= ((l + gone) - (k + gone)) * (CrcSize + 1)
      BY <3>1 DEF PayloadAt, PayloadSpaced
    <3>3. (l + gone) - (k + gone) = l - k
      BY <1>5, <3>1
    <3>4. /\ payload_at[l + gone] \in Int /\ payload_at[k + gone] \in Int
          /\ next_payload[l] = payload_at[l + gone] - b
          /\ next_payload[k] = payload_at[k + gone] - b
      BY <1>4, <1>7, <3>1
    <3>5. next_payload[l] - next_payload[k] = payload_at[l + gone] - payload_at[k + gone]
      BY <1>4, <3>4
    <3> QED BY <3>2, <3>3, <3>5
  <2> QED BY <2>1 DEF PayloadSpaced
<1>16. DataPlaces(next_c, next_data)'
  <2>1. next_data \in [1 .. N' + 1 -> Int]
    BY <1>2, <1>5, <1>7
  <2>2. next_data[next_c] = 0 - Copied(next_c)'
    <3>1. next_c \in 1 .. N - gone + 1
      BY <1>4, <1>5
    <3>2. next_data[next_c] = data_at[c]
      BY <1>5, <1>7, <3>1
    <3> QED BY <1>10, <3>2 DEF PayloadAt, DataPlaces
  <2>3. ASSUME NEW k \in next_c .. N'
        PROVE  next_data[k + 1] = next_data[k] + accepted'[k].len
    <3>1. /\ k \in 1 .. N - gone + 1 /\ k + 1 \in 1 .. N - gone + 1 /\ k \in 1 .. N - gone
          /\ k + gone \in c .. N /\ (k + 1) + gone = (k + gone) + 1
      BY <1>4, <1>5
    <3>2. data_at[(k + gone) + 1] = data_at[k + gone] + accepted[k + gone].len
      BY <3>1 DEF PayloadAt, DataPlaces
    <3> QED BY <1>7, <1>8, <3>1, <3>2
  <2>4. Len(data') = next_data[N' + 1] - Coming'
    <3>1. Len(data) = data_at[N + 1] - Coming
      BY DEF PayloadAt, DataPlaces
    <3>2. N - gone + 1 \in 1 .. N - gone + 1 /\ N - gone + 1 + gone = N + 1
      BY <1>4, <1>5
    <3>3. next_data[N' + 1] = data_at[N + 1]
      BY <1>5, <1>7, <3>2
    <3> QED BY <1>9, <3>1, <3>3
  <2> QED BY <2>1, <2>2, <2>3, <2>4 DEF DataPlaces
<1>17. DataThere(next_c, next_data)'
  <2>1. ASSUME NEW k \in next_c .. N', NEW j \in 1 .. accepted'[k].len,
               next_data[k] + j \in 1 .. Len(data)
        PROVE  data[next_data[k] + j] = DataItem(accepted'[k], j)
    <3>1. k \in 1 .. N - gone + 1 /\ k \in 1 .. N - gone /\ k + gone \in c .. N
      BY <1>4, <1>5
    <3>2. accepted'[k] = accepted[k + gone] /\ next_data[k] = data_at[k + gone]
      BY <1>7, <1>8, <3>1
    <3> QED BY <2>1, <3>1, <3>2 DEF PayloadAt, DataThere
  <2> QED BY <1>9, <2>1 DEF DataThere, DataItem
<1>18. DataSpaced(next_c, next_data)'
  <2>1. ASSUME NEW k \in next_c .. N' + 1, NEW l \in next_c .. N' + 1, k <= l
        PROVE  next_data[l] - next_data[k] >= l - k
    <3>1. /\ k \in 1 .. N - gone + 1 /\ l \in 1 .. N - gone + 1
          /\ k + gone \in c .. N + 1 /\ l + gone \in c .. N + 1 /\ k + gone <= l + gone
      BY <1>4, <1>5, <2>1
    <3>2. data_at[l + gone] - data_at[k + gone] >= (l + gone) - (k + gone)
      BY <3>1 DEF PayloadAt, DataSpaced
    <3>3. (l + gone) - (k + gone) = l - k
      BY <1>5, <3>1
    <3> QED BY <1>7, <3>1, <3>2, <3>3
  <2> QED BY <2>1 DEF DataSpaced
<1> QED BY <1>12, <1>13, <1>14, <1>15, <1>16, <1>17, <1>18 DEF PayloadWay, PayloadAt

(* The places of the headers. *)
LEMMA PlacesOfHeaders ==
  ASSUME TypeOK, MuxInPacket, NEW coded, NEW header_at, HeadersAt(coded, header_at)
  PROVE  /\ coded \in Nat /\ coded <= N
         /\ \A k \in 1 .. N + 1 : header_at[k] \in Int
         /\ header_at[1] = 0 - HeaderSent
         /\ Len(headers) > 0 => coded > 0
         /\ coded > 0 => header_at[2] = HeaderSize - HeaderSent
<1>1. N \in Nat /\ HeaderSent \in Nat /\ HeaderSize \in Nat
  BY LinkLengths, SentSizes, Sizes
<1>2. coded \in Nat /\ coded <= N /\ header_at[1] = 0 - HeaderSent
      /\ header_at \in [1 .. N + 1 -> Int]
  BY <1>1 DEF HeadersAt, HeaderPlaces
<1>3. \A k \in 1 .. N + 1 : header_at[k] \in Int
  BY <1>2
<1>4. Len(headers) > 0 => coded > 0
  <2>1. SUFFICES ASSUME coded = 0
                 PROVE  ~(Len(headers) > 0)
    BY <1>2
  <2>2. Len(headers) = header_at[coded + 1]
    BY DEF HeadersAt, HeaderPlaces
  <2>3. Len(headers) = 0 - HeaderSent
    BY <1>2, <2>1, <2>2
  <2> QED BY <1>1, <2>3
<1>5. coded > 0 => header_at[2] = HeaderSize - HeaderSent
  <2>1. SUFFICES ASSUME coded > 0
                 PROVE  header_at[2] = HeaderSize - HeaderSent
    OBVIOUS
  <2>2. header_at[1 + 1] = header_at[1] + HeaderSize
    <3>1. 1 \in 1 .. coded
      BY <1>2, <2>1
    <3> QED BY <3>1 DEF HeadersAt, HeaderPlaces
  <2> QED BY <1>1, <1>2, <2>2
<1> QED BY <1>2, <1>3, <1>4, <1>5

(* The first items of headers and payload are those that the first packet  *)
(* needs next.                                                             *)
LEMMA FrontOfLinks ==
  ASSUME TypeOK, MuxInPacket, HeaderWay, PayloadWay, NEW i \in Nat, i > 0
  PROVE  /\ i <= Len(headers) /\ i <= HeaderSize - HeaderSent =>
              N > 0 /\ headers[i] = HeaderItem(accepted[1], HeaderSent + i)
         /\ i <= Len(payload) /\ N > 0 /\ i <= Size(accepted[1]) - PayloadSent =>
              payload[i] = PayloadItem(accepted[1], PayloadSent + i)
<1>1. PICK coded, header_at : HeadersAt(coded, header_at)
  BY DEF HeaderWay
<1>2. PICK c, payload_at, data_at : PayloadAt(c, payload_at, data_at)
  BY DEF PayloadWay
<1>3. /\ N \in Nat /\ HeaderSent \in Nat /\ PayloadSent \in Nat
      /\ Len(headers) \in Nat /\ Len(payload) \in Nat
  BY LinkLengths, SentSizes
<1>4. ASSUME i <= Len(headers), i <= HeaderSize - HeaderSent
      PROVE  N > 0 /\ headers[i] = HeaderItem(accepted[1], HeaderSent + i)
  <2>1. coded > 0 /\ coded \in Nat /\ coded <= N /\ header_at[1] = 0 - HeaderSent
    BY <1>1, <1>3, <1>4, PlacesOfHeaders
  <2>2. 1 \in 1 .. coded /\ HeaderSent + i \in 1 .. HeaderSize
    BY <1>3, <1>4, <2>1, Sizes
  <2>3. header_at[1] + (HeaderSent + i) = i
    BY <1>3, <2>1
  <2>4. header_at[1] + (HeaderSent + i) \in 1 .. Len(headers)
    BY <1>3, <1>4, <2>3
  <2>5. headers[header_at[1] + (HeaderSent + i)] = HeaderItem(accepted[1], HeaderSent + i)
    BY <1>1, <2>2, <2>4 DEF HeadersAt, HeadersThere
  <2> QED BY <1>3, <2>1, <2>3, <2>5
<1>5. ASSUME i <= Len(payload), N > 0, i <= Size(accepted[1]) - PayloadSent
      PROVE  payload[i] = PayloadItem(accepted[1], PayloadSent + i)
  <2>1. payload_at[1] = 0 - PayloadSent
    BY <1>2 DEF PayloadAt, PayloadPlaces
  <2>2. 1 \in 1 .. c /\ 1 \in 1 .. N /\ 1 <= N
    BY <1>2, <1>3, <1>5, PlacesOfPackets
  <2>3. PayloadSent + i \in 1 .. Size(accepted[1])
    <3>1. Size(accepted[1]) \in Nat
      BY <2>2, LinkLengths
    <3> QED BY <1>3, <1>5, <3>1
  <2>4. payload_at[1] + (PayloadSent + i) = i
    BY <1>3, <2>1
  <2>5. payload_at[1] + (PayloadSent + i) \in 1 .. Len(payload)
    BY <1>3, <1>5, <2>4
  <2>6. payload[payload_at[1] + (PayloadSent + i)] = PayloadItem(accepted[1], PayloadSent + i)
    BY <1>2, <2>2, <2>3, <2>5 DEF PayloadAt, PayloadThere
  <2> QED BY <2>4, <2>6
<1> QED BY <1>4, <1>5

(* The multiplexer finds the lengths of a packet at its two inputs: they   *)
(* are at the first item of one packet.                                    *)
LEMMA TagsAreThere ==
  ASSUME TypeOK, MuxInPacket, HeaderWay, PayloadWay
  PROVE  TagsThere
<1>1. SUFFICES ASSUME mux_packet_lens = <<>>, Len(headers) > 0, Len(payload) > 0
               PROVE  N > 0 /\ TagAt(headers) = HeaderSize /\ TagAt(payload) = Size(accepted[1])
  BY DEF TagsThere
<1>2. /\ HeaderSent = 0 /\ PayloadSent = 0 /\ HeaderSize \in Nat /\ HeaderSize > 0
      /\ Len(headers) \in Nat /\ Len(payload) \in Nat
  BY <1>1, SentSizes, Sizes, LinkLengths
<1>3. N > 0 /\ headers[1] = HeaderItem(accepted[1], 0 + 1)
  BY <1>1, <1>2, FrontOfLinks
<1>4. Size(accepted[1]) \in Nat /\ Size(accepted[1]) > 0
  <2>1. accepted[1] \in Packets
    BY <1>3, SentSizes
  <2> QED BY <2>1, PacketSizes
<1>5. payload[1] = PayloadItem(accepted[1], 0 + 1)
  BY <1>1, <1>2, <1>3, <1>4, FrontOfLinks
<1>6. headers # <<>> /\ payload # <<>>
  BY <1>1, LinkLengths, EmptyLength
<1>7. headers[1].bits = HeaderSize /\ payload[1].bits = Size(accepted[1])
  BY <1>3, <1>5 DEF HeaderItem, PayloadItem
<1> QED BY <1>3, <1>6, <1>7 DEF TagAt

(* What leaves are items. *)
LEMMA OutType ==
  ASSUME TypeOK, MuxInPacket, NEW a \in Nat, NEW b \in Nat, MuxMoves(a, b)
  PROVE  out' \in Seq(Item)
<1> DEFINE items == SubSeq(headers, 1, a) \o SubSeq(payload, 1, b)
           tag(i) == IF i = 1 /\ mux_packet_lens = <<>> THEN FrameSize(accepted[1]) ELSE 0
<1>1. out \in Seq(Item) /\ a \in 0 .. Len(headers) /\ b \in 0 .. Len(payload)
  BY DEF TypeOK, MuxMoves
<1>2. /\ SubSeq(headers, 1, a) \in Seq(Item) /\ Len(SubSeq(headers, 1, a)) = a
      /\ SubSeq(payload, 1, b) \in Seq(Item) /\ Len(SubSeq(payload, 1, b)) = b
  BY <1>1, LinkLengths, FrontProperties
<1>3. items \in Seq(Item) /\ Len(items) = a + b
  BY <1>2, JoinProperties
<1>4. out' = IF items = <<>> THEN out
             ELSE [i \in DOMAIN items |-> [items[i] EXCEPT !.bits = tag(i)]]
  BY DEF MuxMoves
<1> HIDE DEF items
<1>5. DOMAIN items = 1 .. a + b /\ \A i \in 1 .. a + b : items[i] \in Item
  BY <1>3, LenProperties, ElementOfSeq
<1>6. ASSUME items # <<>>
      PROVE  [i \in DOMAIN items |-> [items[i] EXCEPT !.bits = tag(i)]] \in Seq(Item)
  <2>1. N > 0
    <3>1. a + b # 0
      BY <1>3, <1>6, EmptyLength
    <3> QED BY <3>1 DEF MuxMoves
  <2>2. FrameSize(accepted[1]) \in Nat
    BY <2>1, SentSizes, PacketSizes
  <2>3. \A i \in 1 .. a + b : tag(i) \in Nat
    BY <2>2
  <2> HIDE DEF tag
  <2>4. \A i \in 1 .. a + b : [items[i] EXCEPT !.bits = tag(i)] \in Item
    BY <1>5, <2>3 DEF Item
  <2>5. [i \in DOMAIN items |-> [items[i] EXCEPT !.bits = tag(i)]] \in [1 .. a + b -> Item]
    BY <1>5, <2>4
  <2>6. a + b \in Nat
    OBVIOUS
  <2> QED BY <2>5, <2>6, FunctionIsSeq
<1> QED BY <1>1, <1>4, <1>6

(* When Mux ends a packet, both ways have gone on to the next one. *)
LEMMA EndsOnBothWays ==
  ASSUME TypeOK, MuxInPacket, ComesLast, NEW coded, NEW header_at, HeadersAt(coded, header_at),
         NEW c, NEW payload_at, NEW data_at, PayloadAt(c, payload_at, data_at),
         NEW a \in Nat, NEW b \in Nat, MuxMoves(a, b), MuxEnds(a, b)
  PROVE  /\ 1 <= coded /\ 1 < c
         /\ header_at[2] - a = 0 /\ payload_at[2] - b = 0
         /\ Coming > 0 => N > 1
<1>1. /\ N \in Nat /\ N > 0 /\ HeaderSent \in Nat /\ HeaderSent <= HeaderSize
      /\ PayloadSent \in Nat /\ HeaderSize \in Nat /\ HeaderSize > 0
      /\ Len(headers) \in Nat /\ Len(payload) \in Nat /\ Len(data) \in Nat
  BY LinkLengths, SentSizes, Sizes DEF MuxEnds
<1>2. 1 \in 1 .. N /\ accepted[1] \in Packets
  BY <1>1, SentSizes
<1>3. /\ accepted[1].len \in Nat /\ Size(accepted[1]) \in Nat
      /\ Size(accepted[1]) = accepted[1].len + CrcSize /\ CrcSize \in Nat /\ CrcSize > 0
  BY <1>2, PacketSizes, Sizes
<1>4. /\ a = HeaderSize - HeaderSent /\ b = Size(accepted[1]) - PayloadSent
      /\ a <= Len(headers) /\ b <= Len(payload)
  BY <1>1 DEF MuxEnds, MuxMoves
<1>5. /\ coded \in Nat /\ coded <= N /\ header_at[1] = 0 - HeaderSent
      /\ Len(headers) > 0 => coded > 0
      /\ coded > 0 => header_at[2] = HeaderSize - HeaderSent
  BY PlacesOfHeaders
<1>6. coded > 0
  <2>1. SUFFICES ASSUME coded = 0
                 PROVE  FALSE
    BY <1>5
  <2>2. Len(headers) = header_at[coded + 1]
    BY DEF HeadersAt, HeaderPlaces
  <2>3. Len(headers) = 0 - HeaderSent
    BY <1>5, <2>1, <2>2
  <2> QED BY <1>1, <1>4, <2>3
<1>7. c \in Nat /\ c >= 1 /\ c <= N + 1 /\ Copied(c) \in Nat
  BY PlacesOfPackets
<1>8. c > 1
  <2>1. SUFFICES ASSUME c = 1
                 PROVE  FALSE
    BY <1>7
  <2>2. Len(payload) = (0 - PayloadSent) + Copied(1)
    BY <2>1 DEF PayloadAt, PayloadPlaces
  <2>3. Copied(1) \in Nat /\ Copied(1) <= accepted[1].len
    <3>1. CASE crc_data_remaining = 0
      BY <1>3, <3>1 DEF Copied
    <3>2. CASE crc_data_remaining # 0
      <4>1. crc_data_remaining \in Nat
        BY DEF TypeOK
      <4> QED BY <1>3, <1>7, <2>1, <3>2, <4>1 DEF Copied
    <3> QED BY <3>1, <3>2
  <2>4. PICK cp : cp = Copied(1)
    OBVIOUS
  <2>5. PICK len : len = accepted[1].len
    OBVIOUS
  <2>6. /\ cp \in Nat /\ len \in Nat /\ cp <= len /\ b = (len + CrcSize) - PayloadSent
        /\ b <= Len(payload) /\ Len(payload) = (0 - PayloadSent) + cp
    BY <1>3, <1>4, <2>2, <2>3, <2>4, <2>5
  <2> HIDE DEF N
  <2> QED BY ONLY <1>1, <1>3, <2>6
<1>9. payload_at[2] = Size(accepted[1]) - PayloadSent
  <2>1. payload_at[1 + 1] = payload_at[1] + Size(accepted[1]) /\ payload_at[1] = 0 - PayloadSent
    <3>1. 1 \in 1 .. c - 1
      BY <1>7, <1>8
    <3> QED BY <3>1 DEF PayloadAt, PayloadPlaces
  <2> QED BY <1>1, <1>3, <2>1
<1>10. Coming > 0 => N > 1
  <2>1. SUFFICES ASSUME Coming > 0, N = 1
                 PROVE  FALSE
    BY <1>1
  <2>2. c = N + 1
    BY <1>7, <1>8, <2>1
  <2>3. crc_data_remaining = 0
    <3>1. crc_data_remaining \in Nat /\ (crc_data_remaining > 0 => c <= N)
      BY DEF TypeOK, PayloadAt, CrcInPacket
    <3> QED BY <1>1, <2>2, <3>1
  <2>4. Copied(c) = 0
    BY <2>3 DEF Copied
  <2>5. data_at[N + 1] = 0 /\ Len(data) = data_at[N + 1] - Coming
    BY <2>2, <2>4 DEF PayloadAt, DataPlaces
  <2>6. Coming \in Nat
    BY PlacesOfPackets
  <2> QED BY <1>1, <2>1, <2>5, <2>6
<1>11. header_at[2] = a /\ payload_at[2] = b
  BY <1>4, <1>5, <1>6, <1>9
<1>12. header_at[2] - a = 0 /\ payload_at[2] - b = 0
  <2>1. a - a = 0 /\ b - b = 0
    OBVIOUS
  <2> QED BY <1>11, <2>1
<1>13. 1 <= coded /\ 1 < c
  BY <1>5, <1>6, <1>7, <1>8
<1> QED BY <1>10, <1>12, <1>13

(* Without the end of a packet none leaves. *)
LEMMA NoneLeaves ==
  ASSUME TypeOK, UNCHANGED accepted
  PROVE  Leaves(0)
<1>1. \A k \in 1 .. N - 0 : k + 0 = k
  OBVIOUS
<1> QED BY <1>1, LinkLengths DEF Leaves, N

(* The packet that is complete is the first one.                           *)
LEMMA OneLeaves ==
  ASSUME TypeOK, N > 0, accepted' = Tail(accepted)
  PROVE  Leaves(1)
<1>1. accepted \in Seq(Packets) /\ accepted # <<>>
  BY LinkLengths, EmptyLength DEF N
<1>2. /\ Tail(accepted) \in Seq(Packets) /\ Len(Tail(accepted)) = N - 1
      /\ \A k \in 1 .. Len(Tail(accepted)) : Tail(accepted)[k] = accepted[k + 1]
  BY <1>1, HeadTailProperties DEF N
<1> QED BY <1>2 DEF Leaves

(* What Mux leaves of the types. *)
LEMMA MuxTypes ==
  ASSUME TypeOK, mux_failed' = FALSE,
         UNCHANGED <<in_vars, metadata, plain, data, crc_vars, payload_tag>>,
         headers' \in Seq(Item), Len(headers') <= Len(headers),
         payload' \in Seq(Item), Len(payload') <= Len(payload),
         out' \in Seq(Item), accepted' \in Seq(Packets),
         mux_packet_lens' \in {<<>>} \cup (Nat \X Nat),
         mux_current_input' \in 1 .. 3, mux_remaining' \in Nat
  PROVE  TypeOK'
<1>1. /\ in_remaining' = in_remaining /\ in_valid' = in_valid /\ in_failed' = in_failed
      /\ packet' = packet /\ metadata' = metadata /\ plain' = plain /\ data' = data
      /\ crc_data_remaining' = crc_data_remaining /\ crc_failed' = crc_failed
      /\ payload_tag' = payload_tag
  BY DEF in_vars, crc_vars
<1>2. /\ in_remaining \in Nat /\ in_valid \in BOOLEAN /\ in_failed \in BOOLEAN
      /\ packet \in Packets
      /\ metadata \in Seq(Packets) /\ Len(metadata) <= MetadataCapacity
      /\ plain \in Seq(Packets) /\ Len(plain) <= PlainCapacity
      /\ data \in Seq(Item) /\ Len(data) <= DataCapacity
      /\ crc_data_remaining \in Nat /\ crc_failed \in BOOLEAN /\ payload_tag \in Nat
      /\ Len(headers) <= HeadersCapacity /\ Len(payload) <= PayloadCapacity
      /\ headers \in Seq(Item) /\ payload \in Seq(Item)
  BY DEF TypeOK
<1>3. Len(headers') <= HeadersCapacity /\ Len(payload') <= PayloadCapacity
  <2>1. /\ Len(headers') \in Nat /\ Len(headers) \in Nat
        /\ Len(payload') \in Nat /\ Len(payload) \in Nat
    BY <1>2, LenProperties
  <2>2. Len(headers') <= HeadersCapacity
    BY <1>2, <2>1, Sizes
  <2>3. Len(payload') <= PayloadCapacity
    BY <1>2, <2>1, Sizes
  <2> QED BY <2>2, <2>3
<1>4. mux_failed' \in BOOLEAN
  OBVIOUS
<1>5. /\ in_remaining' \in Nat /\ in_valid' \in BOOLEAN /\ in_failed' \in BOOLEAN
      /\ packet' \in Packets
      /\ metadata' \in Seq(Packets) /\ Len(metadata') <= MetadataCapacity
      /\ plain' \in Seq(Packets) /\ Len(plain') <= PlainCapacity
      /\ data' \in Seq(Item) /\ Len(data') <= DataCapacity
      /\ crc_data_remaining' \in Nat /\ crc_failed' \in BOOLEAN /\ payload_tag' \in Nat
  BY <1>1, <1>2
<1> QED BY <1>3, <1>4, <1>5 DEF TypeOK

(* A call of Mux does not fail, and keeps the items of the packets in place. *)
LEMMA MuxInv ==
  ASSUME Inv, NEW space \in 1 .. MaxSpace, Mux(space)
  PROVE  Inv'
<1>1. /\ NoBlockFails /\ TypeOK /\ MuxInPacket /\ ComesLast /\ HeaderWay /\ PayloadWay
  BY DEF Inv, NoBlockFails
<1>2. /\ mux_failed' = FALSE
      /\ UNCHANGED <<in_vars, metadata, plain, data, crc_vars, payload_tag>>
      /\ \E a, b \in Nat : MuxMoves(a, b) /\ (MuxEnds(a, b) \/ MuxGoesOn(a, b))
  BY <1>1, TagsAreThere, MuxEffect
<1>3. PICK a \in Nat, b \in Nat : MuxMoves(a, b) /\ (MuxEnds(a, b) \/ MuxGoesOn(a, b))
  BY <1>2
<1>4. PICK coded, header_at : HeadersAt(coded, header_at)
  BY <1>1 DEF HeaderWay
<1>5. PICK c, payload_at, data_at : PayloadAt(c, payload_at, data_at)
  BY <1>1 DEF PayloadWay
<1>6. /\ a \in 0 .. Len(headers) /\ headers' = From(headers, a)
      /\ b \in 0 .. Len(payload) /\ payload' = From(payload, b)
  BY <1>3 DEF MuxMoves
<1>7. /\ headers' \in Seq(Item) /\ Len(headers') <= Len(headers)
      /\ payload' \in Seq(Item) /\ Len(payload') <= Len(payload)
      /\ out' \in Seq(Item)
  <2>1. headers' \in Seq(Item) /\ Len(headers') = Len(headers) - a
    BY <1>1, <1>6, LinkLengths, FromProperties
  <2>2. payload' \in Seq(Item) /\ Len(payload') = Len(payload) - b
    BY <1>1, <1>6, LinkLengths, FromProperties
  <2>3. out' \in Seq(Item)
    BY <1>1, <1>3, OutType
  <2> QED BY <1>1, <1>6, <2>1, <2>2, <2>3, LinkLengths
<1>8. Coming' = Coming /\ N \in Nat /\ Coming \in Nat
  BY <1>1, <1>2, <1>5, LinkLengths, PlacesOfPackets DEF Coming, in_vars
<1>9. CASE MuxEnds(a, b)
  <2>1. /\ N > 0 /\ mux_packet_lens' = <<>> /\ mux_current_input' = 3 /\ mux_remaining' = 0
        /\ accepted' = Tail(accepted)
    BY <1>9 DEF MuxEnds
  <2>2. Leaves(1)
    BY <1>1, <2>1, OneLeaves
  <2>3. HeaderSent' = 0 /\ PayloadSent' = 0
    BY <2>1 DEF HeaderSent, PayloadSent
  <2>4. /\ 1 <= coded /\ 1 < c
        /\ header_at[2] - a = 0 /\ payload_at[2] - b = 0
        /\ Coming > 0 => N > 1
    BY <1>1, <1>3, <1>4, <1>5, <1>9, EndsOnBothWays
  <2>5. HeaderWay'
    <3>1. 0 - HeaderSent' = header_at[1 + 1] - a
      BY <2>3, <2>4
    <3> QED BY <1>1, <1>2, <1>4, <1>6, <2>2, <2>4, <3>1, HeadersLeave
  <2>6. PayloadWay'
    <3>1. 0 - PayloadSent' = payload_at[1 + 1] - b
      BY <2>3, <2>4
    <3> QED BY <1>1, <1>2, <1>5, <1>6, <2>2, <2>4, <3>1, PayloadLeaves
  <2>7. ComesLast'
    <3>1. SUFFICES ASSUME Coming > 0
                   PROVE  N' > 0 /\ packet' = accepted'[N'] /\ Coming < packet'.len
      BY <1>8 DEF ComesLast
    <3>2. N' = N - 1 /\ N - 1 \in 1 .. N - 1 /\ (N - 1) + 1 = N
      BY <1>8, <2>2, <2>4, <3>1 DEF Leaves, N
    <3>3. accepted'[N'] = accepted[N]
      BY <2>2, <3>2 DEF Leaves
    <3>4. packet' = packet
      BY <1>2 DEF in_vars
    <3> QED BY <1>1, <3>1, <3>2, <3>3, <3>4 DEF ComesLast
  <2>8. MuxInPacket'
    BY <2>1 DEF MuxInPacket
  <2>9. TypeOK'
    <3>1. /\ mux_packet_lens' \in {<<>>} \cup (Nat \X Nat)
          /\ mux_current_input' \in 1 .. 3 /\ mux_remaining' \in Nat
      BY <2>1
    <3>2. accepted' \in Seq(Packets)
      BY <2>2 DEF Leaves
    <3> QED BY <1>1, <1>2, <1>7, <3>1, <3>2, MuxTypes
  <2> QED BY <1>1, <1>2, <2>5, <2>6, <2>7, <2>8, <2>9 DEF Inv, NoBlockFails, in_vars, crc_vars
<1>10. CASE MuxGoesOn(a, b)
  <2>1. UNCHANGED accepted
    BY <1>10 DEF MuxGoesOn
  <2>2. Leaves(0)
    BY <1>1, <2>1, NoneLeaves
  <2>3. HeaderSent' = HeaderSent + a /\ PayloadSent' = PayloadSent + b
        /\ HeaderSent \in Nat /\ PayloadSent \in Nat
    <3>1. CASE a = 0 /\ b = 0 /\ UNCHANGED mux_vars
      <4>1. HeaderSent' = HeaderSent /\ PayloadSent' = PayloadSent
        BY <3>1 DEF mux_vars, HeaderSent, PayloadSent
      <4> QED BY <1>1, <3>1, <4>1, SentSizes
    <3> QED BY <1>1, <1>10, <3>1, SentSizes DEF MuxGoesOn
  <2>4. header_at[1] = 0 - HeaderSent /\ coded \in Nat
    BY <1>1, <1>4, PlacesOfHeaders
  <2>5. payload_at[1] = 0 - PayloadSent /\ c \in Nat /\ c >= 1
    BY <1>1, <1>5, PlacesOfPackets DEF PayloadAt, PayloadPlaces
  <2>6. HeaderWay'
    <3>1. 0 - HeaderSent' = header_at[1 + 0] - a
      BY <2>3, <2>4
    <3>2. 0 <= coded
      BY <2>4
    <3> QED BY <1>1, <1>2, <1>4, <1>6, <2>2, <3>1, <3>2, HeadersLeave
  <2>7. PayloadWay'
    <3>1. 0 - PayloadSent' = payload_at[1 + 0] - b
      BY <2>3, <2>5
    <3>2. 0 < c
      BY <2>5
    <3> QED BY <1>1, <1>2, <1>5, <1>6, <2>2, <3>1, <3>2, PayloadLeaves
  <2>8. ComesLast'
    <3>1. packet' = packet /\ N' = N
      BY <1>2, <2>1 DEF in_vars, N
    <3> QED BY <1>1, <1>8, <2>1, <3>1 DEF ComesLast
  <2>9. MuxInPacket' /\ mux_packet_lens' \in {<<>>} \cup (Nat \X Nat)
        /\ mux_current_input' \in 1 .. 3 /\ mux_remaining' \in Nat
    <3>1. CASE mux_packet_lens' = <<>> /\ UNCHANGED mux_vars
      BY <1>1, <3>1 DEF MuxInPacket, mux_vars, TypeOK
    <3>2. CASE /\ N > 0
               /\ mux_packet_lens' = <<HeaderSize, Size(accepted[1])>>
               /\ mux_current_input' \in {1, 2}
               /\ mux_remaining' \in 1 .. mux_packet_lens'[mux_current_input']
               /\ mux_packet_lens = <<>> => a > 0
      <4>1. HeaderSize \in Nat /\ Size(accepted[1]) \in Nat
        BY <1>1, <3>2, SentSizes, PacketSizes, Sizes
      <4>2. mux_packet_lens'[1] = HeaderSize /\ mux_packet_lens'[2] = Size(accepted[1])
        BY <3>2
      <4>3. mux_packet_lens'[mux_current_input'] \in Nat
        BY <3>2, <4>1, <4>2
      <4>4. mux_remaining' \in Nat /\ mux_current_input' \in 1 .. 3
        BY <3>2, <4>3
      <4>5. Size(accepted[1])' = Size(accepted[1]) /\ N' = N
        BY <2>1 DEF Size, N
      <4>6. HeaderSent' > 0
        <5>1. mux_packet_lens # <<>> => HeaderSent > 0
          BY <1>1 DEF MuxInPacket
        <5> QED BY <2>3, <3>2, <5>1
      <4>7. MuxInPacket'
        BY <3>2, <4>5, <4>6 DEF MuxInPacket
      <4> QED BY <3>2, <4>1, <4>4, <4>7
    <3> QED BY <1>10, <3>1, <3>2 DEF MuxGoesOn
  <2>10. TypeOK'
    <3>1. accepted' \in Seq(Packets)
      BY <2>2 DEF Leaves
    <3> QED BY <1>1, <1>2, <1>7, <2>9, <3>1, MuxTypes
  <2> QED BY <1>1, <1>2, <2>6, <2>7, <2>8, <2>9, <2>10 DEF Inv, NoBlockFails, in_vars, crc_vars
<1> QED BY <1>3, <1>9, <1>10

-----------------------------------------------------------------------------
(* The other blocks leave one of the two ways, or the multiplexer, alone.  *)
(* First, the way of the headers.                                          *)
LEMMA HeadersStay ==
  ASSUME HeaderWay, UNCHANGED <<header_vars, mux_vars, accepted>>
  PROVE  HeaderWay'
<1>1. PICK coded, header_at : HeadersAt(coded, header_at)
  BY DEF HeaderWay
<1>2. UNCHANGED <<headers, plain, metadata, accepted,
                  mux_packet_lens, mux_current_input, mux_remaining>>
  BY DEF header_vars, mux_vars
<1>3. N' = N /\ HeaderSent' = HeaderSent
  BY <1>2 DEF N, HeaderSent
<1>4. HeaderPlaces(coded, header_at)'
  BY <1>1, <1>2, <1>3 DEF HeadersAt, HeaderPlaces
<1>5. HeadersThere(coded, header_at)'
  BY <1>1, <1>2 DEF HeadersAt, HeadersThere, HeaderItem
<1>6. MessagesThere(coded)'
  BY <1>1, <1>2, <1>3 DEF HeadersAt, MessagesThere
<1> QED BY <1>4, <1>5, <1>6 DEF HeaderWay, HeadersAt

(* The same of the other way.                                              *)
LEMMA PayloadStays ==
  ASSUME PayloadWay, Coming' = Coming,
         UNCHANGED <<data, crc_vars, payload, payload_tag, mux_vars, accepted>>
  PROVE  PayloadWay'
<1>1. PICK c, payload_at, data_at : PayloadAt(c, payload_at, data_at)
  BY DEF PayloadWay
<1>2. UNCHANGED <<data, crc_data_remaining, payload, payload_tag, accepted,
                  mux_packet_lens, mux_current_input, mux_remaining>>
  BY DEF crc_vars, mux_vars
<1>3. /\ N' = N /\ PayloadSent' = PayloadSent /\ Copied(c)' = Copied(c) /\ Coming' = Coming
      /\ \A k : Size(accepted[k])' = Size(accepted[k])
  BY <1>2 DEF N, PayloadSent, Copied, Size
<1>4. CrcInPacket(c)'
  BY <1>1, <1>2, <1>3 DEF PayloadAt, CrcInPacket
<1>5. PayloadPlaces(c, payload_at)'
  BY <1>1, <1>2, <1>3 DEF PayloadAt, PayloadPlaces
<1>6. PayloadThere(c, payload_at)'
  BY <1>1, <1>2, <1>3 DEF PayloadAt, PayloadThere, PayloadItem, Size
<1>7. PayloadSpaced(c, payload_at)'
  BY <1>1 DEF PayloadAt, PayloadSpaced
<1>8. DataPlaces(c, data_at)'
  BY <1>1, <1>2, <1>3 DEF PayloadAt, DataPlaces
<1>9. DataThere(c, data_at)'
  BY <1>1, <1>2, <1>3 DEF PayloadAt, DataThere, DataItem
<1>10. DataSpaced(c, data_at)'
  BY <1>1, <1>3 DEF PayloadAt, DataSpaced
<1> QED BY <1>4, <1>5, <1>6, <1>7, <1>8, <1>9, <1>10 DEF PayloadWay, PayloadAt

(* The place of Mux is that of its variables.                              *)
LEMMA MuxStays ==
  ASSUME MuxInPacket, UNCHANGED <<mux_vars, accepted>>
  PROVE  MuxInPacket' /\ HeaderSent' = HeaderSent /\ PayloadSent' = PayloadSent
BY DEF MuxInPacket, mux_vars, N, Size, HeaderSent, PayloadSent

(* What is still to come is a matter of the ingress.                       *)
LEMMA IngressStays ==
  ASSUME ComesLast, UNCHANGED <<in_vars, accepted>>
  PROVE  ComesLast' /\ Coming' = Coming
BY DEF ComesLast, in_vars, N, Coming

(* Format takes messages in order. *)
LEMMA FormatInv ==
  ASSUME Inv, NEW count \in 1 .. MetadataCapacity, Format(count)
  PROVE  Inv'
<1>1. /\ NoBlockFails /\ TypeOK /\ MuxInPacket /\ ComesLast /\ HeaderWay /\ PayloadWay
  BY DEF Inv, NoBlockFails
<1>2. /\ count \in 0 .. Len(metadata) /\ count \in Nat
      /\ Len(plain) + count <= PlainCapacity
      /\ plain' = plain \o SubSeq(metadata, 1, count)
      /\ metadata' = From(metadata, count)
  BY <1>1, Sizes, LinkLengths DEF Format
<1>3. UNCHANGED <<in_vars, headers, data, crc_vars, payload, payload_tag,
                  mux_vars, out, accepted>>
  BY DEF Format
<1>4. /\ plain \in Seq(Packets) /\ Len(plain) \in Nat
      /\ metadata \in Seq(Packets) /\ Len(metadata) \in Nat /\ N \in Nat
      /\ Len(metadata) <= MetadataCapacity /\ MetadataCapacity \in Nat
  BY <1>1, LinkLengths, Sizes DEF TypeOK
<1>5. /\ metadata' \in Seq(Packets) /\ Len(metadata') = Len(metadata) - count
      /\ \A i \in 1 .. Len(metadata) - count : metadata'[i] = metadata[i + count]
  BY <1>2, <1>4, FromProperties
<1>6. /\ SubSeq(metadata, 1, count) \in Seq(Packets) /\ Len(SubSeq(metadata, 1, count)) = count
      /\ \A i \in 1 .. count : SubSeq(metadata, 1, count)[i] = metadata[i]
  BY <1>2, <1>4, FrontProperties
<1>7. /\ plain' \in Seq(Packets) /\ Len(plain') = Len(plain) + count
      /\ \A i \in 1 .. Len(plain) : plain'[i] = plain[i]
      /\ \A i \in 1 .. count : plain'[Len(plain) + i] = metadata[i]
  BY <1>2, <1>4, <1>6, JoinProperties
<1>8. TypeOK'
  <2>1. /\ UNCHANGED <<in_remaining, in_valid, in_failed, packet, headers, data,
                       crc_data_remaining, crc_failed, payload, payload_tag, out, accepted,
                       mux_packet_lens, mux_current_input, mux_remaining, mux_failed>>
    BY <1>3 DEF in_vars, crc_vars, mux_vars
  <2>2. Len(metadata') <= MetadataCapacity /\ Len(plain') <= PlainCapacity
    BY <1>2, <1>4, <1>5, <1>7
  <2> QED BY <1>1, <1>5, <1>7, <2>1, <2>2 DEF TypeOK
<1>9. HeaderWay'
  <2>1. PICK coded, header_at : HeadersAt(coded, header_at)
    BY <1>1 DEF HeaderWay
  <2>2. HeaderSent' = HeaderSent /\ N' = N /\ UNCHANGED <<headers, accepted>>
    BY <1>1, <1>3, MuxStays DEF N
  <2>3. HeaderPlaces(coded, header_at)'
    BY <2>1, <2>2 DEF HeadersAt, HeaderPlaces
  <2>4. HeadersThere(coded, header_at)'
    BY <2>1, <2>2 DEF HeadersAt, HeadersThere, HeaderItem
  <2>5. /\ coded \in Nat /\ coded + Len(plain) + Len(metadata) = N
        /\ \A i \in 1 .. Len(plain) : plain[i] = accepted[coded + i]
        /\ \A i \in 1 .. Len(metadata) : metadata[i] = accepted[coded + Len(plain) + i]
    BY <1>1, <2>1, PlacesOfHeaders DEF HeadersAt, MessagesThere
  <2>6. coded + Len(plain') + Len(metadata') = N
    BY <1>2, <1>4, <1>5, <1>7, <2>5
  <2>7. ASSUME NEW i \in 1 .. Len(plain')
        PROVE  plain'[i] = accepted[coded + i]
    <3>1. CASE i <= Len(plain)
      <4>1. i \in 1 .. Len(plain)
        BY <3>1, <1>4
      <4> QED BY <1>7, <2>5, <4>1
    <3>2. CASE ~(i <= Len(plain))
      <4>1. PICK j : j = i - Len(plain)
        OBVIOUS
      <4>2. j \in 1 .. count /\ Len(plain) + j = i /\ j \in 1 .. Len(metadata)
            /\ (coded + Len(plain)) + j = coded + i
        BY <1>2, <1>4, <1>7, <2>5, <3>2, <4>1
      <4>3. plain'[Len(plain) + j] = metadata[j] /\ metadata[j] = accepted[coded + Len(plain) + j]
        BY <1>7, <2>5, <4>2
      <4> QED BY <4>2, <4>3
    <3> QED BY <3>1, <3>2
  <2>8. ASSUME NEW i \in 1 .. Len(metadata')
        PROVE  metadata'[i] = accepted[coded + Len(plain') + i]
    <3>1. /\ i \in 1 .. Len(metadata) - count /\ i + count \in 1 .. Len(metadata)
          /\ (coded + Len(plain)) + (i + count) = (coded + Len(plain')) + i
      BY <1>2, <1>4, <1>5, <1>7, <2>5
    <3>2. metadata'[i] = metadata[i + count]
      BY <1>5, <3>1
    <3>3. metadata[i + count] = accepted[(coded + Len(plain)) + (i + count)]
      BY <2>5, <3>1
    <3> QED BY <3>1, <3>2, <3>3
  <2>9. MessagesThere(coded)'
    BY <2>2, <2>6, <2>7, <2>8 DEF MessagesThere
  <2> QED BY <2>3, <2>4, <2>9 DEF HeaderWay, HeadersAt
<1>10. PayloadWay' /\ MuxInPacket' /\ ComesLast'
  BY <1>1, <1>3, PayloadStays, MuxStays, IngressStays
<1> QED BY <1>1, <1>3, <1>8, <1>9, <1>10
        DEF Inv, NoBlockFails, in_vars, crc_vars, mux_vars

(* Encode gives the next packet its header. *)
LEMMA EncodeInv ==
  ASSUME Inv, Encode
  PROVE  Inv'
<1>1. /\ NoBlockFails /\ TypeOK /\ MuxInPacket /\ ComesLast /\ HeaderWay /\ PayloadWay
  BY DEF Inv, NoBlockFails
<1>2. /\ plain # <<>> /\ Len(headers) + HeaderSize <= HeadersCapacity
      /\ headers' = headers \o Items(Head(plain), "header", 1, HeaderSize, HeaderSize)
      /\ plain' = Tail(plain)
      /\ UNCHANGED <<in_vars, metadata, data, crc_vars, payload, payload_tag,
                     mux_vars, out, accepted>>
  BY DEF Encode
<1>3. PICK coded, header_at : HeadersAt(coded, header_at)
  BY <1>1 DEF HeaderWay
<1>4. /\ plain \in Seq(Packets) /\ Len(plain) \in Nat /\ headers \in Seq(Item)
      /\ Len(headers) \in Nat /\ Len(metadata) \in Nat /\ N \in Nat
      /\ HeaderSize \in Nat /\ HeaderSize > 0 /\ Len(plain) <= PlainCapacity
      /\ PlainCapacity \in Nat
  BY <1>1, LinkLengths, Sizes DEF TypeOK
<1>5. /\ Len(plain) > 0 /\ Head(plain) = plain[1] /\ Head(plain) \in Packets
      /\ plain' \in Seq(Packets) /\ Len(plain') = Len(plain) - 1
      /\ \A i \in 1 .. Len(plain') : plain'[i] = plain[i + 1]
  BY <1>2, <1>4, HeadTailProperties, EmptyLength
<1>6. /\ coded \in Nat /\ coded + Len(plain) + Len(metadata) = N
      /\ \A i \in 1 .. Len(plain) : plain[i] = accepted[coded + i]
      /\ \A i \in 1 .. Len(metadata) : metadata[i] = accepted[coded + Len(plain) + i]
      /\ header_at \in [1 .. N + 1 -> Int] /\ header_at[1] = 0 - HeaderSent
      /\ \A k \in 1 .. coded : /\ header_at[k + 1] = header_at[k] + HeaderSize
                               /\ header_at[k + 1] <= Len(headers)
      /\ Len(headers) = header_at[coded + 1]
      /\ \A k \in 1 .. coded : \A j \in 1 .. HeaderSize :
           header_at[k] + j \in 1 .. Len(headers) =>
             headers[header_at[k] + j] = HeaderItem(accepted[k], j)
  BY <1>1, <1>3, PlacesOfHeaders DEF HeadersAt, HeaderPlaces, HeadersThere, MessagesThere
<1>7. coded + 1 \in 1 .. N /\ Head(plain) = accepted[coded + 1]
  <2>1. 1 \in 1 .. Len(plain)
    BY <1>4, <1>5
  <2>2. plain[1] = accepted[coded + 1]
    BY <1>6, <2>1
  <2>3. coded \in Nat /\ coded + Len(plain) + Len(metadata) = N
    BY <1>6
  <2>4. coded + 1 \in 1 .. N
    BY <1>4, <1>5, <2>3
  <2> QED BY <1>5, <2>2, <2>4
<1>13. PICK p : p = Head(plain)
  OBVIOUS
<1>14. PICK items : items = Items(p, "header", 1, HeaderSize, HeaderSize)
  OBVIOUS
<1>8. /\ items \in Seq(Item) /\ Len(items) = HeaderSize
      /\ \A j \in 1 .. HeaderSize : items[j] = HeaderItem(accepted[coded + 1], j)
  <2>0. p \in Packets /\ HeaderSize \in Nat
    BY <1>4, <1>5, <1>13
  <2>1. /\ items \in Seq(Item) /\ Len(items) = HeaderSize
        /\ \A j \in 1 .. HeaderSize :
             items[j] = [of |-> p, part |-> "header", place |-> 1 + j - 1,
                         bits |-> IF j = 1 THEN HeaderSize ELSE 0]
    <3>1. Items(p, "header", 1, HeaderSize, HeaderSize) \in Seq(Item)
      BY <2>0, ItemsProperties
    <3>2. Len(Items(p, "header", 1, HeaderSize, HeaderSize)) = HeaderSize
      BY <2>0, ItemsProperties
    <3>3. \A j \in 1 .. HeaderSize :
             Items(p, "header", 1, HeaderSize, HeaderSize)[j]
               = [of |-> p, part |-> "header", place |-> 1 + j - 1,
                         bits |-> IF j = 1 THEN HeaderSize ELSE 0]
      BY <2>0, ItemsProperties
    <3> QED BY <1>14, <3>1, <3>2, <3>3
  <2>2. \A j \in 1 .. HeaderSize : 1 + j - 1 = j
    BY <1>4
  <2> QED BY <1>7, <1>13, <2>1, <2>2 DEF HeaderItem
<1>9. /\ headers' \in Seq(Item) /\ Len(headers') = Len(headers) + HeaderSize
      /\ \A i \in 1 .. Len(headers) : headers'[i] = headers[i]
      /\ \A j \in 1 .. HeaderSize : headers'[Len(headers) + j] = items[j]
  <2>1. headers' = headers \o items
    BY <1>2, <1>13, <1>14
  <2>2. headers \in Seq(Item) /\ items \in Seq(Item) /\ Len(items) = HeaderSize
    BY <1>4, <1>8
  <2>3. /\ headers \o items \in Seq(Item) /\ Len(headers \o items) = Len(headers) + Len(items)
        /\ \A i \in 1 .. Len(headers) : (headers \o items)[i] = headers[i]
        /\ \A i \in 1 .. Len(items) : (headers \o items)[Len(headers) + i] = items[i]
    <3>1. headers \o items \in Seq(Item)
      BY <2>2, JoinProperties
    <3>2. Len(headers \o items) = Len(headers) + Len(items)
      BY <2>2, JoinProperties
    <3>3. \A i \in 1 .. Len(headers) : (headers \o items)[i] = headers[i]
      BY <2>2, JoinProperties
    <3>4. \A i \in 1 .. Len(items) : (headers \o items)[Len(headers) + i] = items[i]
      BY <2>2, JoinProperties
    <3> QED BY <3>1, <3>2, <3>3, <3>4
  <2> QED BY <2>1, <2>2, <2>3
<1>10. TypeOK'
  <2>1. UNCHANGED <<in_remaining, in_valid, in_failed, packet, metadata, data,
                    crc_data_remaining, crc_failed, payload, payload_tag, out, accepted,
                    mux_packet_lens, mux_current_input, mux_remaining, mux_failed>>
    BY <1>2 DEF in_vars, crc_vars, mux_vars
  <2>2. Len(headers') <= HeadersCapacity /\ Len(plain') <= PlainCapacity
    BY <1>2, <1>4, <1>5, <1>9
  <2> QED BY <1>1, <1>5, <1>9, <2>1, <2>2 DEF TypeOK
<1>11. HeaderWay'
  <2>1. PICK next_at : next_at = [header_at EXCEPT ![coded + 2] = header_at[coded + 1] + HeaderSize]
    OBVIOUS
  <2>2. PICK next_coded : next_coded = coded + 1
    OBVIOUS
  <2>3. HeaderSent' = HeaderSent /\ N' = N /\ accepted' = accepted /\ metadata' = metadata
    BY <1>1, <1>2, MuxStays DEF N
  <2>4. coded + 2 \in 1 .. N + 1 /\ coded + 1 \in 1 .. N + 1 /\ header_at[coded + 1] \in Int
    BY <1>4, <1>6, <1>7
  <2>5. /\ next_at \in [1 .. N + 1 -> Int]
        /\ next_at[coded + 2] = header_at[coded + 1] + HeaderSize
        /\ \A k \in 1 .. coded + 1 : next_at[k] = header_at[k]
    <3>1. \A k \in 1 .. coded + 1 : k \in 1 .. N + 1 /\ k # coded + 2
      BY <1>4, <1>6, <1>7
    <3> QED BY <1>4, <1>6, <2>1, <2>4, <3>1
  <2>6. HeaderPlaces(next_coded, next_at)'
    <3>1. next_coded \in 0 .. N
      BY <1>4, <1>7, <2>2
    <3>2. next_at[1] = 0 - HeaderSent
      BY <1>6, <2>5
    <3>3. ASSUME NEW k \in 1 .. next_coded
          PROVE  next_at[k + 1] = next_at[k] + HeaderSize /\ next_at[k + 1] <= Len(headers')
      <4>1. CASE k = coded + 1
        <5>1. k + 1 = coded + 2 /\ k \in 1 .. coded + 1
          BY <1>6, <4>1
        <5>2. next_at[k + 1] = header_at[coded + 1] + HeaderSize
              /\ next_at[k] = header_at[coded + 1]
          BY <2>5, <4>1, <5>1
        <5>3. Len(headers) = header_at[coded + 1] /\ Len(headers') = Len(headers) + HeaderSize
          BY <1>6, <1>9
        <5>4. Len(headers) \in Nat /\ HeaderSize \in Nat
          BY <1>4
        <5> QED BY <5>2, <5>3, <5>4
      <4>2. CASE k # coded + 1
        <5>1. k \in 1 .. coded /\ k + 1 \in 1 .. coded + 1 /\ k \in 1 .. coded + 1
          BY <1>6, <2>2, <4>2
        <5>2. k + 1 \in 1 .. N + 1
          BY <1>4, <1>6, <5>1
        <5>3. header_at[k + 1] \in Int
          BY <1>6, <5>2
        <5>4. next_at[k + 1] = header_at[k + 1] /\ next_at[k] = header_at[k]
          BY <2>5, <5>1
        <5>5. header_at[k + 1] = header_at[k] + HeaderSize /\ header_at[k + 1] <= Len(headers)
          BY <1>6, <5>1
        <5>6. header_at[k + 1] <= Len(headers')
          BY <1>4, <1>9, <5>3, <5>5
        <5> QED BY <5>4, <5>5, <5>6
      <4> QED BY <4>1, <4>2
    <3>4. Len(headers') = next_at[next_coded + 1]
      <4>1. next_coded + 1 = coded + 2
        BY <1>6, <2>2
      <4> QED BY <1>6, <1>9, <2>5, <4>1
    <3> QED BY <2>3, <2>5, <3>1, <3>2, <3>3, <3>4 DEF HeaderPlaces
  <2>7. ASSUME NEW k \in 1 .. next_coded, NEW j \in 1 .. HeaderSize,
               next_at[k] + j \in 1 .. Len(headers')
        PROVE  headers'[next_at[k] + j] = HeaderItem(accepted[k], j)
    <3>1. CASE k = coded + 1
      <4>1. k \in 1 .. coded + 1
        BY <1>6, <3>1
      <4>2. next_at[k] = Len(headers)
        BY <1>6, <2>5, <3>1, <4>1
      <4> QED BY <1>8, <1>9, <3>1, <4>2
    <3>2. CASE k # coded + 1
      <4>1. k \in 1 .. coded /\ k \in 1 .. coded + 1 /\ k \in 1 .. N + 1 /\ j \in Nat
        BY <1>4, <1>6, <2>2, <3>2
      <4>2. next_at[k] = header_at[k] /\ header_at[k] \in Int
        BY <1>6, <2>5, <4>1
      <4>3. header_at[k] + j <= Len(headers)
        <5>1. header_at[k + 1] = header_at[k] + HeaderSize /\ header_at[k + 1] <= Len(headers)
          BY <1>6, <4>1
        <5> QED BY <1>4, <4>1, <4>2, <5>1
      <4>4. header_at[k] + j \in 1 .. Len(headers)
        BY <1>4, <2>7, <4>1, <4>2, <4>3
      <4> QED BY <1>6, <1>9, <4>1, <4>2, <4>4
    <3> QED BY <3>1, <3>2
  <2>8. HeadersThere(next_coded, next_at)'
    BY <2>3, <2>7 DEF HeadersThere, HeaderItem
  <2>9. /\ next_coded + Len(plain') + Len(metadata) = N
        /\ next_coded + Len(plain') = coded + Len(plain)
    <3>1. coded \in Nat /\ coded + Len(plain) + Len(metadata) = N
      BY <1>6
    <3>2. next_coded + Len(plain') = coded + Len(plain)
      BY <1>4, <1>5, <2>2, <3>1
    <3>3. next_coded + Len(plain') + Len(metadata) = (next_coded + Len(plain')) + Len(metadata)
      OBVIOUS
    <3> QED BY <3>1, <3>2, <3>3
  <2>10. ASSUME NEW i \in 1 .. Len(plain')
         PROVE  plain'[i] = accepted[next_coded + i]
    <3>1. i + 1 \in 1 .. Len(plain) /\ coded + (i + 1) = next_coded + i
      BY <1>4, <1>5, <1>6, <2>2
    <3> QED BY <1>5, <1>6, <3>1
  <2>11. MessagesThere(next_coded)'
    BY <1>6, <2>3, <2>9, <2>10 DEF MessagesThere
  <2> QED BY <2>6, <2>8, <2>11 DEF HeaderWay, HeadersAt
<1>12. PayloadWay' /\ MuxInPacket' /\ ComesLast'
  BY <1>1, <1>2, PayloadStays, MuxStays, IngressStays
<1> QED BY <1>1, <1>2, <1>10, <1>11, <1>12
        DEF Inv, NoBlockFails, in_vars, crc_vars, mux_vars

-----------------------------------------------------------------------------
(* The first items of data are those that CrcAppend needs next.            *)
LEMMA FrontOfData ==
  ASSUME TypeOK, NEW c, NEW payload_at, NEW data_at, PayloadAt(c, payload_at, data_at),
         Len(data) > 0
  PROVE  /\ c \in 1 .. N
         /\ Copied(c) < accepted[c].len
         /\ \A i \in 1 .. Len(data) : i <= accepted[c].len - Copied(c) =>
              data[i] = DataItem(accepted[c], Copied(c) + i)
<1>1. /\ N \in Nat /\ Len(data) \in Nat /\ c \in Nat /\ c >= 1 /\ c <= N + 1
      /\ Copied(c) \in Nat /\ Coming \in Nat /\ crc_data_remaining \in Nat
  BY LinkLengths, PlacesOfPackets
<1>2. data_at[c] = 0 - Copied(c) /\ Len(data) = data_at[N + 1] - Coming
  BY DEF PayloadAt, DataPlaces
<1>3. c \in 1 .. N
  <2>1. SUFFICES ASSUME c = N + 1
                 PROVE  FALSE
    BY <1>1
  <2>2. crc_data_remaining = 0
    <3>1. ~(crc_data_remaining > 0)
      <4>1. SUFFICES ASSUME crc_data_remaining > 0
                     PROVE  FALSE
        OBVIOUS
      <4>2. c \in 1 .. N
        BY <4>1, PlacesOfPackets
      <4> QED BY <1>1, <2>1, <4>2
    <3> QED BY <1>1, <3>1
  <2>3. Copied(c) = 0
    BY <2>2 DEF Copied
  <2>4. Len(data) = 0 - Coming
    BY <1>2, <2>1, <2>3
  <2> QED BY <1>1, <2>4
<1>4. accepted[c] \in Packets /\ accepted[c].len \in Nat /\ accepted[c].len > 0
  BY <1>3, LinkLengths
<1>5. Copied(c) < accepted[c].len
  <2>1. CASE crc_data_remaining > 0
    <3>1. Copied(c) = accepted[c].len - crc_data_remaining
      BY <2>1, PlacesOfPackets
    <3> QED BY <1>1, <1>4, <2>1, <3>1
  <2>2. CASE crc_data_remaining = 0
    BY <1>4, <2>2 DEF Copied
  <2> QED BY <1>1, <2>1, <2>2
<1>6. ASSUME NEW i \in 1 .. Len(data), i <= accepted[c].len - Copied(c)
      PROVE  data[i] = DataItem(accepted[c], Copied(c) + i)
  <2>1. /\ c \in c .. N /\ Copied(c) + i \in 1 .. accepted[c].len
        /\ (0 - Copied(c)) + (Copied(c) + i) = i
    BY <1>1, <1>3, <1>4, <1>6
  <2>2. data_at[c] + (Copied(c) + i) = i
    BY <1>2, <2>1
  <2>3. data_at[c] + (Copied(c) + i) \in 1 .. Len(data) =>
           data[data_at[c] + (Copied(c) + i)] = DataItem(accepted[c], Copied(c) + i)
    BY <2>1 DEF PayloadAt, DataThere
  <2> QED BY <2>2, <2>3
<1> QED BY <1>3, <1>5, <1>6

(* What one call of CrcAppend does, for every size of packet, chunk, CRC   *)
(* and output space.                                                       *)

(* The item that is kept back leaves the packet unfinished: the CRC is     *)
(* never due in a call that has no room for it.                            *)
LEMMA ConsumesBounds ==
  ASSUME CrcSize \in Nat, crc_data_remaining \in Nat,
         NEW bits \in Nat, NEW n \in Nat, NEW space \in Nat
  PROVE  /\ CRC!Consumes(bits, n, space) \in Int
         /\ CRC!Consumes(bits, n, space) <= n
         /\ CRC!Consumes(bits, n, space) <= space
         /\ CRC!Consumes(bits, n, space) <= CRC!Left(bits)
         /\ CRC!Consumes(bits, n, space) = CRC!Left(bits)
              => CRC!Consumes(bits, n, space) + CrcSize <= space
<1> DEFINE p == CRC!Possible(bits, n, space)
<1>1. CRC!Left(bits) \in Nat
  BY DEF CRC!Left
<1>2. p \in Nat /\ p <= n /\ p <= space /\ p <= CRC!Left(bits)
  BY <1>1 DEF CRC!Possible, CRC!Lesser
<1>3. CASE p + CrcSize > space
  <2>1. CRC!Consumes(bits, n, space) = p - 1
    BY <1>3 DEF CRC!Consumes
  <2>. QED BY <1>1, <1>2, <2>1
<1>4. CASE ~(p + CrcSize > space)
  <2>1. CRC!Consumes(bits, n, space) = p
    BY <1>4 DEF CRC!Consumes
  <2>. QED BY <1>1, <1>2, <1>4, <2>1
<1>. QED BY <1>3, <1>4

(* A call that copies never writes more than its output space, CRC         *)
(* included, nor consumes more than its chunk, and the count of the items  *)
(* to come does not wrap (crc_append.hpp:150-183).                         *)
THEOREM CopyFits ==
  ASSUME CrcSize \in Nat, crc_data_remaining \in Nat,
         NEW bits \in Nat, NEW n \in Nat, NEW space \in Nat,
         NEW consumed, NEW published,
         CRC!Copy(bits, n, space, consumed, published)
  PROVE  consumed <= n /\ published <= space /\ crc_data_remaining' \in Nat
<1>1. /\ consumed = CRC!Consumes(bits, n, space) /\ consumed >= 0
      /\ crc_data_remaining' = CRC!Left(bits) - consumed
      /\ published = consumed + (IF crc_data_remaining' = 0 THEN CrcSize ELSE 0)
  BY DEF CRC!Copy
<1>2. CRC!Left(bits) \in Nat
  BY DEF CRC!Left
<1>3. consumed \in Int /\ consumed <= n /\ consumed <= space /\ consumed <= CRC!Left(bits)
  BY <1>1, ConsumesBounds
<1>4. crc_data_remaining' \in Nat
  BY <1>1, <1>2, <1>3
<1>5. CASE crc_data_remaining' = 0
  <2>1. consumed = CRC!Left(bits)
    BY <1>1, <1>2, <1>3, <1>5
  <2>2. consumed + CrcSize <= space
    BY <1>1, <2>1, ConsumesBounds
  <2>. QED BY <1>1, <1>3, <1>4, <1>5, <2>2
<1>6. CASE crc_data_remaining' # 0
  BY <1>1, <1>3, <1>4, <1>6
<1>. QED BY <1>5, <1>6

(* With a chunk of at least one item, room for at least one, and a length  *)
(* at the start of each packet, no call fails: the unsigned subtraction    *)
(* wraps only when a span is empty (crc_append.hpp:157-159).               *)
THEOREM NeverWrapsWithItems ==
  ASSUME CrcSize \in Nat, crc_data_remaining \in Nat,
         NEW bits \in Nat, NEW n \in Nat \ {0}, NEW space \in Nat \ {0},
         CRC!Left(bits) # 0,
         NEW consumed, NEW published
  PROVE  ~CRC!Fail(bits, n, space, consumed, published)
<1>1. CRC!Left(bits) \in Nat \ {0}
  BY DEF CRC!Left
<1>2. CRC!Possible(bits, n, space) \in Nat \ {0}
  BY <1>1 DEF CRC!Possible, CRC!Lesser
<1>3. CRC!Consumes(bits, n, space) >= 0
  BY <1>2 DEF CRC!Consumes
<1>4. ~(CRC!Left(bits) = 0 \/ CRC!Consumes(bits, n, space) < 0)
  <2>1. CRC!Consumes(bits, n, space) \in Int
    BY ConsumesBounds
  <2>. QED BY <1>3, <2>1
<1>. QED BY <1>4 DEF CRC!Fail

(* What a call of CrcAppend with items publishes: the next items of its    *)
(* packet, with the CRC when they are the last.                            *)
CrcMoves(c, consumed, published) ==
  /\ consumed \in 0 .. Len(data) /\ published \in Nat
  /\ crc_failed' = crc_failed
  /\ crc_data_remaining' \in Nat
  /\ crc_data_remaining' = (accepted[c].len - Copied(c)) - consumed
  /\ published = consumed + (IF crc_data_remaining' = 0 THEN CrcSize ELSE 0)
  /\ data' = From(data, consumed)
  /\ payload' \in Seq(Item) /\ Len(payload') = Len(payload) + published
  /\ Len(payload') <= PayloadCapacity
  /\ \A i \in 1 .. Len(payload) : payload'[i] = payload[i]
  /\ \A i \in 1 .. published :
       payload'[Len(payload) + i] = PayloadItem(accepted[c], Copied(c) + i)
  /\ payload_tag' = IF published > 0 THEN 0
                    ELSE IF Copied(c) = 0 THEN Size(accepted[c]) ELSE 0

(* A call of CrcAppend with an item in front of it does this, with spans   *)
(* that are not empty.                                                     *)
LEMMA CrcEffect ==
  ASSUME TypeOK, ~EmptySpans, NEW c, NEW payload_at, NEW data_at,
         PayloadAt(c, payload_at, data_at),
         NEW n \in 0 .. DataCapacity, NEW space \in 0 .. PayloadCapacity, n > 0,
         Crc(n, space)
  PROVE  c \in 1 .. N /\ \E consumed, published : CrcMoves(c, consumed, published)
<1>1. /\ n \in Nat \ {0} /\ space \in Nat /\ CrcSize \in Nat /\ PayloadCapacity \in Nat
      /\ crc_data_remaining \in Nat /\ Len(data) \in Nat /\ data \in Seq(Item)
      /\ Len(payload) \in Nat /\ payload \in Seq(Item) /\ Copied(c) \in Nat
  BY LinkLengths, PlacesOfPackets, Sizes
<1>2. n <= Len(data) /\ Len(payload) + space <= PayloadCapacity /\ space \in Nat \ {0}
  BY <1>1 DEF Crc, DataChunk
<1>3. PICK tag : tag = IF n > 0 /\ CRC!AtStart THEN CRC!TagOut(TagAt(data)) ELSE payload_tag
  OBVIOUS
<1>4. PICK consumed \in 0 .. n, published \in 0 .. n + CrcSize :
          /\ CRC!ProcessBulk(TagAt(data), n, space, consumed, published)
          /\ payload' = payload
               \o [i \in 1 .. consumed |-> [data[i] EXCEPT !.bits = IF i = 1 THEN tag ELSE 0]]
               \o Items(data[1].of, "crc", 1, published - consumed, 0)
          /\ payload_tag' = IF published > 0 THEN 0 ELSE tag
          /\ data' = From(data, consumed)
  BY <1>3 DEF Crc
<1>5. /\ c \in 1 .. N /\ Copied(c) < accepted[c].len
      /\ \A i \in 1 .. Len(data) : i <= accepted[c].len - Copied(c) =>
           data[i] = DataItem(accepted[c], Copied(c) + i)
  BY <1>1, <1>2, FrontOfData
<1>6. PICK p : p = accepted[c]
  OBVIOUS
<1>7. PICK cp : cp = Copied(c)
  OBVIOUS
<1>8. /\ p \in Packets /\ p.len \in Nat /\ Size(p) = p.len + CrcSize /\ Size(p) \in Nat
      /\ cp \in Nat /\ cp < p.len
      /\ \A i \in 1 .. Len(data) : i <= p.len - cp => data[i] = DataItem(p, cp + i)
  BY <1>1, <1>5, <1>6, <1>7, LinkLengths
<1>9. data[1] = DataItem(p, cp + 1) /\ data # <<>>
  <2>1. 1 \in 1 .. Len(data) /\ 1 <= p.len - cp
    BY <1>1, <1>2, <1>8
  <2> QED BY <1>1, <1>8, <2>1, EmptyLength
<1>10. /\ data[1].of = p
       /\ TagAt(data) = IF cp = 0 THEN p.len ELSE 0
  <2>1. cp + 1 = 1 <=> cp = 0
    BY <1>8
  <2> QED BY <1>9, <2>1 DEF TagAt, DataItem
<1>11. TagAt(data) \in Nat
  BY <1>8, <1>10
<1>12. CRC!Left(TagAt(data)) = p.len - cp
  <2>1. CASE crc_data_remaining = 0
    <3>1. cp = 0
      BY <1>7, <2>1 DEF Copied
    <3> QED BY <1>8, <1>10, <2>1, <3>1 DEF CRC!Left, CRC!AtStart
  <2>2. CASE crc_data_remaining # 0
    <3>1. cp = p.len - crc_data_remaining
      BY <1>6, <1>7, <2>2 DEF Copied
    <3> QED BY <1>1, <1>8, <2>2, <3>1 DEF CRC!Left, CRC!AtStart
  <2> QED BY <2>1, <2>2
<1>13. CRC!Copy(TagAt(data), n, space, consumed, published)
  <2>1. CRC!Left(TagAt(data)) # 0
    BY <1>8, <1>12
  <2>2. ~CRC!Fail(TagAt(data), n, space, consumed, published)
    BY <1>1, <1>2, <1>11, <2>1, NeverWrapsWithItems
  <2>3. ~CRC!Idle(n, consumed, published)
    BY <1>1 DEF CRC!Idle
  <2> QED BY <1>4, <2>2, <2>3 DEF CRC!ProcessBulk
<1>14. /\ consumed = CRC!Consumes(TagAt(data), n, space)
       /\ crc_data_remaining' = CRC!Left(TagAt(data)) - consumed
       /\ published = consumed + (IF crc_data_remaining' = 0 THEN CrcSize ELSE 0)
       /\ crc_failed' = crc_failed
  BY <1>13 DEF CRC!Copy
<1>15. published <= space /\ crc_data_remaining' \in Nat /\ consumed <= n
  BY <1>1, <1>2, <1>11, <1>13, CopyFits
<1>16. /\ consumed \in Nat /\ published \in Nat /\ published - consumed \in Nat
       /\ consumed <= Len(data) /\ consumed <= p.len - cp
       /\ crc_data_remaining' = (p.len - cp) - consumed
       /\ published - consumed = (IF crc_data_remaining' = 0 THEN CrcSize ELSE 0)
  <2>1. consumed \in Nat /\ published \in Nat /\ consumed <= Len(data)
    BY <1>1, <1>2, <1>15
  <2>2. crc_data_remaining' = (p.len - cp) - consumed
    BY <1>12, <1>14
  <2>3. consumed <= p.len - cp
    BY <1>8, <1>15, <2>1, <2>2
  <2>4. \A x, y \in Nat : (x + y) - x = y
    OBVIOUS
  <2>5. published - consumed = (IF crc_data_remaining' = 0 THEN CrcSize ELSE 0)
    BY <1>1, <1>14, <2>1, <2>4
  <2> QED BY <1>1, <2>1, <2>2, <2>3, <2>5
<1>17. tag = IF cp = 0 THEN Size(p) ELSE 0
  <2>1. CASE crc_data_remaining = 0
    <3>1. cp = 0
      BY <1>7, <2>1 DEF Copied
    <3> QED BY <1>1, <1>3, <1>8, <1>10, <2>1, <3>1 DEF CRC!TagOut, CRC!AtStart
  <2>2. CASE crc_data_remaining # 0
    <3>1. tag = payload_tag /\ crc_data_remaining > 0
      BY <1>1, <1>3, <2>2 DEF CRC!AtStart
    <3> QED BY <1>6, <1>7, <3>1 DEF PayloadAt, CrcInPacket
  <2> QED BY <2>1, <2>2
<1>18. PICK copied :
         copied = [i \in 1 .. consumed |-> [data[i] EXCEPT !.bits = IF i = 1 THEN tag ELSE 0]]
  OBVIOUS
<1>19. /\ copied \in Seq(Item) /\ Len(copied) = consumed
       /\ \A i \in 1 .. consumed : copied[i] = PayloadItem(p, cp + i)
  <2>1. ASSUME NEW i \in 1 .. consumed
        PROVE  copied[i] = PayloadItem(p, cp + i) /\ copied[i] \in Item
    <3>1. /\ i \in 1 .. Len(data) /\ i <= p.len - cp /\ cp + i <= p.len
          /\ cp + i \in Nat /\ cp + i > 0
          /\ (cp + i = 1 <=> cp = 0 /\ i = 1)
      <4>1. i \in Nat /\ i >= 1 /\ i <= consumed
        BY <1>16
      <4>2. i \in 1 .. Len(data)
        <5>1. consumed <= Len(data) /\ consumed \in Nat /\ Len(data) \in Nat
          BY <1>8, <1>16
        <5> QED BY <4>1, <5>1
      <4>3. i <= p.len - cp /\ cp + i <= p.len
        <5>1. PICK len \in Nat : len = p.len
          BY <1>8
        <5>2. consumed \in Nat /\ consumed <= len - cp /\ cp \in Nat
          BY <1>8, <1>16, <5>1
        <5> QED BY <4>1, <5>1, <5>2
      <4>4. cp + i \in Nat /\ cp + i > 0 /\ (cp + i = 1 <=> cp = 0 /\ i = 1)
        BY <1>8, <4>1
      <4> QED BY <4>2, <4>3, <4>4
    <3>2. data[i] = DataItem(p, cp + i)
      BY <1>8, <3>1
    <3>3. copied[i] = [data[i] EXCEPT !.bits = IF i = 1 THEN tag ELSE 0]
      BY <1>18
    <3>4. copied[i] = [of |-> p, part |-> "payload", place |-> cp + i,
                       bits |-> IF i = 1 THEN tag ELSE 0]
      BY <3>2, <3>3 DEF DataItem
    <3>5. (IF i = 1 THEN tag ELSE 0) = (IF cp + i = 1 THEN Size(p) ELSE 0)
      BY <1>17, <3>1
    <3>6. copied[i] = PayloadItem(p, cp + i)
      BY <3>1, <3>4, <3>5 DEF PayloadItem
    <3> QED BY <1>8, <3>1, <3>6, PacketItems
  <2>2. copied \in [1 .. consumed -> Item]
    BY <1>18, <2>1
  <2> QED BY <1>16, <2>1, <2>2, FunctionIsSeq
<1>20. PICK count : count = published - consumed
  OBVIOUS
<1>21. PICK none : none = 0
  OBVIOUS
<1>21a. PICK crc : crc = Items(p, "crc", 1, count, none)
  OBVIOUS
<1>22. /\ crc \in Seq(Item) /\ Len(crc) = count
       /\ \A i \in 1 .. count : crc[i] = [of |-> p, part |-> "crc", place |-> 1 + i - 1, bits |-> 0]
  <2>1. /\ count \in Nat /\ p \in Packets /\ none \in Nat /\ 1 \in Nat /\ 1 > 0
        /\ "crc" \in {"header", "payload", "crc"}
    BY <1>8, <1>16, <1>20, <1>21
  <2>2. Items(p, "crc", 1, count, none) \in Seq(Item)
    BY <2>1, ItemsProperties
  <2>3. Len(Items(p, "crc", 1, count, none)) = count
    BY <2>1, ItemsProperties
  <2>4. ASSUME NEW i \in 1 .. count
        PROVE  crc[i] = [of |-> p, part |-> "crc", place |-> 1 + i - 1, bits |-> 0]
    BY <1>21, <1>21a DEF Items
  <2> QED BY <1>21a, <2>2, <2>3, <2>4
<1>23. ASSUME NEW i \in 1 .. count
       PROVE  crc[i] = PayloadItem(p, cp + (consumed + i))
  <2>1. /\ count = CrcSize /\ cp + consumed = p.len
        /\ i \in Nat /\ i > 0
    <3>1. count = (IF crc_data_remaining' = 0 THEN CrcSize ELSE 0)
      BY <1>16, <1>20
    <3>2. crc_data_remaining' = 0 /\ i \in Nat /\ i > 0
      BY <3>1
    <3>3. (p.len - cp) - consumed = 0
      BY <1>16, <3>2
    <3>4. \A x, y, z \in Nat : (x - y) - z = 0 => y + z = x
      OBVIOUS
    <3>5. p.len \in Nat /\ cp \in Nat /\ consumed \in Nat
      BY <1>8, <1>16
    <3>6. cp + consumed = p.len
      BY <3>3, <3>4, <3>5
    <3> QED BY <3>1, <3>2, <3>6
  <2>2. /\ cp + (consumed + i) = p.len + i /\ ~(p.len + i <= p.len) /\ (p.len + i) - p.len = i
        /\ 1 + i - 1 = i /\ p.len + i # 1
    <3>1. \A x, y, z, w \in Nat :
            x + y = z /\ w > 0 =>
              x + (y + w) = z + w /\ ~(z + w <= z) /\ (z + w) - z = w /\ 1 + w - 1 = w
      OBVIOUS
    <3>2. PICK len \in Nat : len = p.len /\ len > 0
      BY <1>8
    <3>3. /\ cp \in Nat /\ consumed \in Nat /\ i \in Nat /\ i > 0 /\ cp + consumed = len
      BY <1>8, <1>16, <2>1, <3>2
    <3>4. /\ cp + (consumed + i) = len + i /\ ~(len + i <= len) /\ (len + i) - len = i
          /\ 1 + i - 1 = i
      BY <3>1, <3>2, <3>3
    <3>5. len + i # 1
      BY <3>2, <3>3
    <3> QED BY <3>2, <3>4, <3>5
  <2> QED BY <1>22, <2>2 DEF PayloadItem
<1>24. payload' = payload \o copied \o crc
  BY <1>4, <1>10, <1>18, <1>20, <1>21, <1>21a
<1>25. /\ payload \o copied \in Seq(Item) /\ Len(payload \o copied) = Len(payload) + consumed
       /\ \A i \in 1 .. Len(payload) : (payload \o copied)[i] = payload[i]
       /\ \A i \in 1 .. consumed : (payload \o copied)[Len(payload) + i] = copied[i]
  <2>1. payload \o copied \in Seq(Item) /\ Len(payload \o copied) = Len(payload) + Len(copied)
    BY <1>1, <1>19, JoinProperties
  <2>2. \A i \in 1 .. Len(payload) : (payload \o copied)[i] = payload[i]
    BY <1>1, <1>19, JoinProperties
  <2>3. \A i \in 1 .. Len(copied) : (payload \o copied)[Len(payload) + i] = copied[i]
    BY <1>1, <1>19, JoinProperties
  <2> QED BY <1>19, <2>1, <2>2, <2>3
<1>26. PICK front : front = payload \o copied
  OBVIOUS
<1>27. /\ front \in Seq(Item) /\ Len(front) = Len(payload) + consumed
       /\ \A i \in 1 .. Len(payload) : front[i] = payload[i]
       /\ \A i \in 1 .. consumed : front[Len(payload) + i] = copied[i]
  BY <1>25, <1>26
<1>28. /\ front \o crc \in Seq(Item) /\ Len(front \o crc) = Len(front) + count
       /\ \A i \in 1 .. Len(front) : (front \o crc)[i] = front[i]
       /\ \A i \in 1 .. count : (front \o crc)[Len(front) + i] = crc[i]
  <2>1. front \o crc \in Seq(Item) /\ Len(front \o crc) = Len(front) + Len(crc)
    BY <1>22, <1>27, JoinProperties
  <2>2. \A i \in 1 .. Len(front) : (front \o crc)[i] = front[i]
    BY <1>22, <1>27, JoinProperties
  <2>3. \A i \in 1 .. Len(crc) : (front \o crc)[Len(front) + i] = crc[i]
    BY <1>22, <1>27, JoinProperties
  <2> QED BY <1>22, <2>1, <2>2, <2>3
<1>29. payload' = front \o crc
  BY <1>24, <1>26
<1>30. payload' \in Seq(Item) /\ Len(payload') = Len(payload) + published
  <2>1. Len(payload) + consumed + count = Len(payload) + published
    BY <1>1, <1>16, <1>20
  <2> QED BY <1>27, <1>28, <1>29, <2>1
<1>31. ASSUME NEW i \in 1 .. Len(payload)
       PROVE  payload'[i] = payload[i]
  <2>1. i \in 1 .. Len(front)
    BY <1>1, <1>16, <1>27
  <2> QED BY <1>27, <1>28, <1>29, <2>1
<1>32. ASSUME NEW i \in 1 .. published
       PROVE  payload'[Len(payload) + i] = PayloadItem(p, cp + i)
  <2>1. CASE i <= consumed
    <3>1. i \in 1 .. consumed /\ Len(payload) + i \in 1 .. Len(front)
      BY <1>1, <1>16, <1>27, <2>1
    <3> QED BY <1>19, <1>27, <1>28, <1>29, <3>1
  <2>2. CASE ~(i <= consumed)
    <3>1. PICK j : j = i - consumed
      OBVIOUS
    <3>2. j \in 1 .. count /\ consumed + j = i /\ Len(front) + j = Len(payload) + i
      BY <1>1, <1>16, <1>20, <1>27, <2>2, <3>1
    <3>3. (front \o crc)[Len(front) + j] = PayloadItem(p, cp + (consumed + j))
      BY <1>23, <1>28, <3>2
    <3> QED BY <1>29, <3>2, <3>3
  <2> QED BY <2>1, <2>2
<1>33. Len(payload') <= PayloadCapacity
  BY <1>1, <1>2, <1>15, <1>16, <1>30
<1>34. CrcMoves(c, consumed, published)
  <2>1. consumed \in 0 .. Len(data)
    BY <1>1, <1>16
  <2>2. payload_tag' = IF published > 0 THEN 0 ELSE IF cp = 0 THEN Size(p) ELSE 0
    BY <1>4, <1>17
  <2> QED BY <1>4, <1>6, <1>7, <1>14, <1>15, <1>16, <1>30, <1>31, <1>32, <1>33, <2>1, <2>2
          DEF CrcMoves
<1> QED BY <1>5, <1>34

(* The packets before one are away from its items. *)
LEMMA PayloadOrder ==
  ASSUME TypeOK, NEW c, NEW payload_at, NEW data_at, PayloadAt(c, payload_at, data_at),
         NEW k \in 1 .. c, k < c
  PROVE  /\ k \in 1 .. N
         /\ payload_at[k] + Size(accepted[k]) <= payload_at[c]
<1>1. /\ N \in Nat /\ c \in Nat /\ c >= 1 /\ c <= N + 1
      /\ \A l \in 1 .. N + 1 : payload_at[l] \in Int
  BY LinkLengths, PlacesOfPackets
<1>2. /\ k \in 1 .. N /\ k + 1 \in 1 .. c /\ c \in 1 .. c /\ k \in 1 .. c - 1 /\ k + 1 <= c
      /\ k \in 1 .. N + 1 /\ k + 1 \in 1 .. N + 1 /\ c \in 1 .. N + 1
  BY <1>1
<1>3. payload_at[k + 1] = payload_at[k] + Size(accepted[k])
  BY <1>2 DEF PayloadAt, PayloadPlaces
<1>4. payload_at[c] - payload_at[k + 1] >= (c - (k + 1)) * (CrcSize + 1)
  BY <1>2 DEF PayloadAt, PayloadSpaced
<1>5. c - (k + 1) \in Nat /\ CrcSize + 1 \in Nat
  BY <1>1, <1>2, Sizes
<1>6. \A x, y \in Nat : x * y \in Nat
  OBVIOUS
<1>7. (c - (k + 1)) * (CrcSize + 1) \in Nat
  BY <1>5, <1>6
<1>8. PICK gap : gap = (c - (k + 1)) * (CrcSize + 1)
  OBVIOUS
<1>9. gap \in Nat /\ payload_at[c] - payload_at[k + 1] >= gap
  BY <1>4, <1>7, <1>8
<1>10. payload_at[c] \in Int /\ payload_at[k + 1] \in Int
  BY <1>1, <1>2
<1>11. payload_at[k + 1] <= payload_at[c]
  BY <1>9, <1>10
<1> QED BY <1>2, <1>3, <1>11

(* CrcAppend keeps the order of the packets, and its own place in it. *)
LEMMA PayloadGrows ==
  ASSUME TypeOK, NEW c, NEW payload_at, NEW data_at, PayloadAt(c, payload_at, data_at),
         c \in 1 .. N, NEW consumed, NEW published, CrcMoves(c, consumed, published),
         UNCHANGED <<in_vars, mux_vars, accepted>>
  PROVE  PayloadWay'
<1>1. PICK p : p = accepted[c]
  OBVIOUS
<1>2. PICK cp : cp = Copied(c)
  OBVIOUS
<1>3. PICK left : left = crc_data_remaining'
  OBVIOUS
<1>4. /\ N \in Nat /\ c \in Nat /\ c >= 1 /\ c <= N
      /\ \A k \in 1 .. N + 1 : payload_at[k] \in Int /\ data_at[k] \in Int
      /\ Len(payload) \in Nat /\ Len(data) \in Nat /\ data \in Seq(Item)
      /\ p \in Packets /\ p.len \in Nat /\ p.len > 0
      /\ Size(p) \in Nat /\ Size(p) = p.len + CrcSize
      /\ CrcSize \in Nat /\ CrcSize > 0 /\ cp \in Nat
  <2>1. N \in Nat /\ Len(payload) \in Nat /\ Len(data) \in Nat /\ data \in Seq(Item)
    BY LinkLengths
  <2>2. p \in Packets
    BY <1>1, LinkLengths
  <2>3. c \in Nat /\ c >= 1 /\ c <= N
    BY <2>1
  <2>4. cp \in Nat /\ \A k \in 1 .. N + 1 : payload_at[k] \in Int /\ data_at[k] \in Int
    BY <1>2, PlacesOfPackets
  <2> QED BY <2>1, <2>2, <2>3, <2>4, PacketSizes, Sizes
<1>5. /\ consumed \in 0 .. Len(data) /\ consumed \in Nat /\ published \in Nat
      /\ left \in Nat /\ left = (p.len - cp) - consumed
      /\ published = consumed + (IF left = 0 THEN CrcSize ELSE 0)
      /\ data' = From(data, consumed)
      /\ Len(payload') = Len(payload) + published
      /\ \A i \in 1 .. Len(payload) : payload'[i] = payload[i]
      /\ \A i \in 1 .. published : payload'[Len(payload) + i] = PayloadItem(p, cp + i)
      /\ payload_tag' = IF published > 0 THEN 0 ELSE IF cp = 0 THEN Size(p) ELSE 0
  BY <1>1, <1>2, <1>3 DEF CrcMoves
<1>6. /\ payload_at[1] = 0 - PayloadSent
      /\ \A k \in 1 .. c - 1 : payload_at[k + 1] = payload_at[k] + Size(accepted[k])
      /\ Len(payload) = payload_at[c] + cp
      /\ payload_at[c] \in Int
  BY <1>2, <1>4 DEF PayloadAt, PayloadPlaces
<1>7. /\ data_at[c] = 0 - cp
      /\ \A k \in c .. N : data_at[k + 1] = data_at[k] + accepted[k].len
      /\ Len(data) = data_at[N + 1] - Coming
      /\ data_at[c] \in Int
  BY <1>2, <1>4 DEF PayloadAt, DataPlaces
<1>8. /\ UNCHANGED <<accepted, in_valid, in_remaining,
                     mux_packet_lens, mux_current_input, mux_remaining>>
      /\ N' = N /\ PayloadSent' = PayloadSent /\ Coming' = Coming
      /\ \A k : Size(accepted[k])' = Size(accepted[k])
  BY DEF in_vars, mux_vars, N, PayloadSent, Coming, Size
<1>9. PICK ends : ends = (left = 0)
  OBVIOUS
<1>10. ends \in BOOLEAN /\ (ends <=> left = 0)
  <2>1. (left = 0) \in BOOLEAN
    OBVIOUS
  <2> QED BY <1>9, <2>1
<1>11. PICK next_c : next_c = IF left = 0 THEN c + 1 ELSE c
  OBVIOUS
<1>12. PICK next_payload :
         next_payload = IF left = 0 THEN [payload_at EXCEPT ![c + 1] = payload_at[c] + Size(p)]
                                    ELSE payload_at
  OBVIOUS
<1>13. PICK next_data : next_data = [k \in 1 .. N + 1 |-> data_at[k] - consumed]
  OBVIOUS
<1>29. PICK len : len = p.len
  OBVIOUS
<1>30. /\ len \in Nat /\ len > 0 /\ cp \in Nat /\ consumed \in Nat /\ left \in Nat
       /\ left = (len - cp) - consumed
  BY <1>4, <1>5, <1>29
<1>31. left = 0 => cp + consumed = len
  <2>1. \A x, y, z \in Nat : (x - y) - z = 0 => y + z = x
    OBVIOUS
  <2> QED BY <1>30, <2>1
<1>14. /\ next_payload \in [1 .. N + 1 -> Int]
       /\ \A k \in 1 .. c : next_payload[k] = payload_at[k]
       /\ left = 0 => next_payload[c + 1] = payload_at[c] + Size(p)
  <2>1. payload_at \in [1 .. N + 1 -> Int]
    BY DEF PayloadAt, PayloadPlaces
  <2>2. payload_at[c] + Size(p) \in Int
    BY <1>4, <1>6
  <2>3. \A k \in 1 .. c : k \in 1 .. N + 1 /\ k # c + 1
    BY <1>4
  <2>4. c + 1 \in 1 .. N + 1
    BY <1>4
  <2> QED BY <1>12, <2>1, <2>2, <2>3, <2>4
<1>15. /\ next_data \in [1 .. N + 1 -> Int]
       /\ \A k \in 1 .. N + 1 : next_data[k] = data_at[k] - consumed
  <2>1. \A k \in 1 .. N + 1 : data_at[k] - consumed \in Int
    <3>1. \A k \in 1 .. N + 1 : data_at[k] \in Int
      BY <1>4
    <3> QED BY <1>30, <3>1
  <2> QED BY <1>13, <2>1
<1>16. /\ next_c \in Nat /\ next_c \in 1 .. N + 1 /\ next_c >= c
       /\ Copied(next_c)' = IF left = 0 THEN 0 ELSE cp + consumed
  <2>1. next_c \in Nat /\ next_c \in 1 .. N + 1 /\ next_c >= c
    BY <1>4, <1>11
  <2>2. CASE left = 0
    BY <1>3, <2>1, <2>2 DEF Copied
  <2>3. CASE left # 0
    <3>1. next_c = c
      BY <1>11, <2>3
    <3>2. Copied(c)' = p.len - left
      BY <1>1, <1>3, <1>8, <2>3 DEF Copied
    <3>3. \A x, y, z \in Nat : x - ((x - y) - z) = y + z
      OBVIOUS
    <3>4. len - left = cp + consumed
      BY <1>30, <3>3
    <3> QED BY <1>29, <2>1, <2>3, <3>1, <3>2, <3>4
  <2> QED BY <2>2, <2>3
<1>17. CrcInPacket(next_c)'
  <2>1. left > 0 => next_c <= N /\ left <= accepted[next_c].len
    <3>1. SUFFICES ASSUME left > 0
                   PROVE  next_c <= N /\ left <= accepted[next_c].len
      OBVIOUS
    <3>2. next_c = c /\ left <= p.len
      BY <1>4, <1>5, <1>11, <3>1
    <3> QED BY <1>1, <1>4, <3>2
  <2>2. payload_tag' = IF left > 0 /\ Copied(next_c)' = 0 THEN Size(accepted[next_c]) ELSE 0
    <3>1. CASE left = 0
      <4>1. published > 0
        BY <1>4, <1>5, <3>1
      <4> QED BY <1>5, <3>1, <4>1
    <3>2. CASE left # 0
      <4>1. /\ left > 0 /\ next_c = c /\ published = consumed
            /\ Copied(next_c)' = cp + consumed
        BY <1>5, <1>11, <1>16, <3>2
      <4>2. cp + consumed = 0 <=> cp = 0 /\ consumed = 0
        BY <1>4, <1>5
      <4>3. ~(consumed > 0) <=> consumed = 0
        BY <1>5
      <4> QED BY <1>1, <1>5, <4>1, <4>2, <4>3
    <3> QED BY <3>1, <3>2
  <2> QED BY <1>3, <1>8, <1>16, <2>1, <2>2 DEF CrcInPacket
<1>18. Len(payload') = next_payload[next_c] + Copied(next_c)'
  <2>1. CASE left = 0
    <3>1. /\ next_c = c + 1 /\ Copied(next_c)' = 0
          /\ next_payload[next_c] = payload_at[c] + Size(p)
          /\ published = consumed + CrcSize
      BY <1>5, <1>11, <1>14, <1>16, <2>1
    <3>2. cp + consumed = len /\ Size(p) = len + CrcSize /\ CrcSize \in Nat
      BY <1>4, <1>29, <1>31, <2>1
    <3>3. payload_at[c] \in Int /\ Len(payload) = payload_at[c] + cp
          /\ Len(payload') = Len(payload) + published
      BY <1>5, <1>6
    <3>4. Len(payload') = payload_at[c] + Size(p)
      BY <1>30, <3>1, <3>2, <3>3
    <3>5. payload_at[c] + Size(p) \in Int
      BY <1>4, <3>3
    <3> QED BY <3>1, <3>4, <3>5
  <2>2. CASE left # 0
    <3>1. /\ next_c = c /\ Copied(next_c)' = cp + consumed
          /\ next_payload[next_c] = payload_at[c] /\ published = consumed
      <4>1. c \in 1 .. c
        BY <1>4
      <4> QED BY <1>5, <1>11, <1>14, <1>16, <2>2, <4>1
    <3> QED BY <1>4, <1>5, <1>6, <3>1
  <2> QED BY <2>1, <2>2
<1>19. PayloadPlaces(next_c, next_payload)'
  <2>1. next_payload[1] = 0 - PayloadSent
    <3>1. 1 \in 1 .. c
      BY <1>4
    <3> QED BY <1>6, <1>14, <3>1
  <2>2. ASSUME NEW k \in 1 .. next_c - 1
        PROVE  next_payload[k + 1] = next_payload[k] + Size(accepted[k])
    <3>1. CASE k = c
      <4>1. left = 0 /\ c \in 1 .. c
        BY <1>4, <1>11, <3>1
      <4> QED BY <1>1, <1>14, <3>1, <4>1
    <3>2. CASE k # c
      <4>1. k \in 1 .. c - 1 /\ k \in 1 .. c /\ k + 1 \in 1 .. c
        BY <1>4, <1>11, <3>2
      <4> QED BY <1>6, <1>14, <4>1
    <3> QED BY <3>1, <3>2
  <2> QED BY <1>8, <1>14, <1>18, <2>1, <2>2 DEF PayloadPlaces
<1>20. ASSUME NEW k \in 1 .. next_c, k <= N, NEW j \in 1 .. Size(accepted[k]),
              next_payload[k] + j \in 1 .. Len(payload')
       PROVE  payload'[next_payload[k] + j] = PayloadItem(accepted[k], j)
  <2>1. k \in 1 .. N /\ k \in 1 .. N + 1 /\ Size(accepted[k]) \in Nat /\ j \in Nat /\ j >= 1
        /\ j <= Size(accepted[k])
    <3>1. k \in 1 .. N /\ k \in 1 .. N + 1
      BY <1>4, <1>16, <1>20
    <3> QED BY <3>1, LinkLengths
  <2>2. CASE k < c
    <3>1. k \in 1 .. c /\ next_payload[k] = payload_at[k] /\ payload_at[k] \in Int
      BY <1>4, <1>14, <2>1, <2>2
    <3>2. payload_at[k] + Size(accepted[k]) <= payload_at[c]
      BY <2>2, <3>1, PayloadOrder
    <3>3. payload_at[k] + j \in 1 .. Len(payload)
      <4>1. payload_at[k] + j \in Int /\ payload_at[k] + j >= 1
        BY <1>20, <2>1, <3>1
      <4>2. payload_at[k] + j <= Len(payload)
        BY <1>4, <1>6, <2>1, <3>1, <3>2
      <4> QED BY <1>4, <4>1, <4>2
    <3>4. payload[payload_at[k] + j] = PayloadItem(accepted[k], j)
      BY <2>1, <3>1, <3>3 DEF PayloadAt, PayloadThere
    <3> QED BY <1>5, <3>1, <3>3, <3>4
  <2>3. CASE k = c
    <3>1. c \in 1 .. c /\ next_payload[k] = payload_at[c]
      BY <1>4, <1>14, <2>3
    <3>2. CASE payload_at[c] + j <= Len(payload)
      <4>1. payload_at[c] + j \in 1 .. Len(payload)
        BY <1>4, <1>6, <1>20, <2>1, <3>1, <3>2
      <4>2. payload[payload_at[c] + j] = PayloadItem(accepted[c], j)
        BY <1>20, <2>1, <2>3, <3>1, <4>1 DEF PayloadAt, PayloadThere
      <4> QED BY <1>5, <2>3, <3>1, <4>1, <4>2
    <3>3. CASE ~(payload_at[c] + j <= Len(payload))
      <4>1. PICK i : i = j - cp
        OBVIOUS
      <4>2. i \in Int /\ payload_at[c] + j = Len(payload) + i /\ cp + i = j
        BY <1>4, <1>6, <2>1, <4>1
      <4>3. i > 0
        BY <1>4, <3>3, <4>2
      <4>4. Len(payload) + i <= Len(payload) + published
        BY <1>4, <1>5, <1>20, <3>1, <4>2
      <4>5. i \in 1 .. published
        BY <1>4, <1>5, <4>2, <4>3, <4>4
      <4> QED BY <1>1, <1>5, <2>3, <3>1, <4>2, <4>5
    <3> QED BY <3>2, <3>3
  <2>4. CASE k > c
    <3>1. left = 0 /\ k = c + 1 /\ k = next_c
      BY <1>4, <1>11, <2>1, <2>4
    <3>2. Copied(next_c)' = 0 /\ Len(payload') \in Nat
      BY <1>4, <1>5, <1>16, <3>1
    <3>3. next_payload[k] = Len(payload')
      <4>1. next_payload[next_c] \in Int
        BY <1>14, <1>16
      <4> QED BY <1>18, <3>1, <3>2, <4>1
    <3> QED BY <1>20, <2>1, <3>2, <3>3
  <2> QED BY <1>4, <2>1, <2>2, <2>3, <2>4
<1>21. PayloadThere(next_c, next_payload)'
  BY <1>8, <1>20 DEF PayloadThere, PayloadItem, Size
<1>22. ASSUME NEW k \in 1 .. next_c, NEW l \in 1 .. next_c, k <= l
       PROVE  next_payload[l] - next_payload[k] >= (l - k) * (CrcSize + 1)
  <2>1. CASE l <= c
    <3>1. k \in 1 .. c /\ l \in 1 .. c
      BY <1>4, <1>16, <1>22, <2>1
    <3>2. payload_at[l] - payload_at[k] >= (l - k) * (CrcSize + 1)
      BY <1>22, <3>1 DEF PayloadAt, PayloadSpaced
    <3> QED BY <1>14, <3>1, <3>2
  <2>2. CASE ~(l <= c)
    <3>1. left = 0 /\ l = c + 1 /\ next_payload[l] = payload_at[c] + Size(p)
      BY <1>4, <1>11, <1>14, <1>16, <2>2
    <3>2. CASE k = l
      <4>1. l - k = 0 /\ next_payload[l] - next_payload[k] = 0
        BY <1>4, <1>6, <3>1, <3>2
      <4>2. \A x \in Nat : 0 * x = 0
        OBVIOUS
      <4>3. (l - k) * (CrcSize + 1) = 0
        BY <1>4, <4>1, <4>2
      <4> QED BY <4>1, <4>3
    <3>3. CASE k # l
      <4>1. k \in 1 .. c /\ c \in 1 .. c /\ k <= c /\ k \in 1 .. N + 1
        BY <1>4, <1>16, <1>22, <3>1, <3>3
      <4>2. payload_at[c] - payload_at[k] >= (c - k) * (CrcSize + 1)
        BY <4>1 DEF PayloadAt, PayloadSpaced
      <4>3. next_payload[k] = payload_at[k] /\ payload_at[k] \in Int
        BY <1>4, <1>14, <4>1
      <4>4. (l - k) * (CrcSize + 1) = (c - k) * (CrcSize + 1) + (CrcSize + 1)
        <5>1. \A x, y \in Nat : (x + 1) * y = x * y + y
          OBVIOUS
        <5>2. c - k \in Nat /\ CrcSize + 1 \in Nat /\ l - k = (c - k) + 1
          BY <1>4, <3>1, <4>1
        <5> QED BY <5>1, <5>2
      <4>5. PICK gap : gap = (c - k) * (CrcSize + 1)
        OBVIOUS
      <4>6. gap \in Int
        <5>1. \A x, y \in Int : x * y \in Int
          OBVIOUS
        <5>2. c - k \in Int /\ CrcSize + 1 \in Int
          BY <1>4, <4>1
        <5> QED BY <4>5, <5>1, <5>2
      <4>7. (payload_at[c] + Size(p)) - payload_at[k] >= gap + (CrcSize + 1)
        <5>1. payload_at[c] - payload_at[k] >= gap
          BY <4>2, <4>5
        <5>2. /\ payload_at[c] \in Int /\ payload_at[k] \in Int /\ Size(p) = len + CrcSize
              /\ CrcSize \in Nat
          BY <1>4, <1>6, <1>29, <4>3
        <5> QED BY <1>30, <4>6, <5>1, <5>2
      <4> QED BY <3>1, <4>3, <4>4, <4>5, <4>7
    <3> QED BY <3>2, <3>3
  <2> QED BY <2>1, <2>2
<1>23. PayloadSpaced(next_c, next_payload)'
  BY <1>22 DEF PayloadSpaced
<1>24. /\ Len(data') = Len(data) - consumed
       /\ \A i \in 1 .. Len(data) - consumed : data'[i] = data[i + consumed]
  BY <1>4, <1>5, FromProperties
<1>25. DataPlaces(next_c, next_data)'
  <2>1. next_data[next_c] = 0 - Copied(next_c)'
    <3>1. CASE left = 0
      <4>1. next_c = c + 1 /\ Copied(next_c)' = 0 /\ c \in c .. N
        BY <1>4, <1>11, <1>16, <3>1
      <4>2. data_at[c + 1] = (0 - cp) + p.len
        BY <1>1, <1>7, <4>1
      <4>3. next_data[next_c] = ((0 - cp) + p.len) - consumed
        BY <1>15, <1>16, <4>1, <4>2
      <4>4. \A x, y, z \in Nat : (x - y) - z = 0 => ((0 - y) + x) - z = 0
        OBVIOUS
      <4>5. ((0 - cp) + p.len) - consumed = 0
        BY <1>4, <1>5, <3>1, <4>4
      <4> QED BY <4>1, <4>3, <4>5
    <3>2. CASE left # 0
      <4>1. next_c = c /\ Copied(next_c)' = cp + consumed /\ c \in 1 .. N + 1
        BY <1>4, <1>11, <1>16, <3>2
      <4>2. next_data[c] = data_at[c] - consumed /\ data_at[c] = 0 - cp
        BY <1>4, <1>7, <1>15, <4>1
      <4>3. \A x, y \in Nat : (0 - x) - y = 0 - (x + y)
        OBVIOUS
      <4> QED BY <1>4, <1>5, <4>1, <4>2, <4>3
    <3> QED BY <3>1, <3>2
  <2>2. ASSUME NEW k \in next_c .. N
        PROVE  next_data[k + 1] = next_data[k] + accepted[k].len
    <3>1. k \in c .. N /\ k \in 1 .. N /\ k \in 1 .. N + 1 /\ k + 1 \in 1 .. N + 1
      BY <1>4, <1>16
    <3>2. data_at[k + 1] = data_at[k] + accepted[k].len
      BY <1>7, <3>1
    <3>3. data_at[k] \in Int /\ accepted[k].len \in Nat
      BY <1>4, <3>1, LinkLengths
    <3>4. next_data[k] = data_at[k] - consumed /\ next_data[k + 1] = data_at[k + 1] - consumed
      BY <1>15, <3>1
    <3>5. PICK size \in Nat : size = accepted[k].len
      BY <3>3
    <3>6. PICK d \in Int : d = data_at[k]
      BY <3>3
    <3>7. next_data[k] = d - consumed /\ next_data[k + 1] = (d + size) - consumed
      BY <3>2, <3>4, <3>5, <3>6
    <3>8. (d + size) - consumed = (d - consumed) + size
      BY <1>5
    <3> QED BY <3>5, <3>7, <3>8
  <2>3. Len(data') = next_data[N + 1] - Coming
    <3>1. N + 1 \in 1 .. N + 1 /\ Coming \in Nat
      BY <1>4, PlacesOfPackets
    <3>2. next_data[N + 1] = data_at[N + 1] - consumed /\ data_at[N + 1] \in Int
      BY <1>4, <1>15, <3>1
    <3> QED BY <1>5, <1>7, <1>24, <3>1, <3>2
  <2> QED BY <1>8, <1>15, <2>1, <2>2, <2>3 DEF DataPlaces
<1>26. ASSUME NEW k \in next_c .. N, NEW j \in 1 .. accepted[k].len,
              next_data[k] + j \in 1 .. Len(data')
       PROVE  data'[next_data[k] + j] = DataItem(accepted[k], j)
  <2>1. /\ k \in c .. N /\ k \in 1 .. N /\ k \in 1 .. N + 1
    BY <1>4, <1>16
  <2>2. /\ accepted[k].len \in Nat /\ data_at[k] \in Int /\ next_data[k] = data_at[k] - consumed
    BY <1>4, <1>15, <2>1, LinkLengths
  <2>3. j \in Nat
    BY <2>2
  <2>4. next_data[k] + j + consumed = data_at[k] + j
    BY <1>5, <2>2, <2>3
  <2>5. next_data[k] + j \in 1 .. Len(data) - consumed
    BY <1>24, <1>26
  <2>6. \A x \in 1 .. Len(data) - consumed : x + consumed \in 1 .. Len(data)
    BY <1>4, <1>5
  <2>7. data_at[k] + j \in 1 .. Len(data)
    BY <2>4, <2>5, <2>6
  <2>8. data[data_at[k] + j] = DataItem(accepted[k], j)
    BY <2>1, <2>7 DEF PayloadAt, DataThere
  <2> QED BY <1>24, <2>4, <2>5, <2>8
<1>27. DataThere(next_c, next_data)'
  BY <1>8, <1>26 DEF DataThere, DataItem
<1>28. DataSpaced(next_c, next_data)'
  <2>1. ASSUME NEW k \in next_c .. N + 1, NEW l \in next_c .. N + 1, k <= l
        PROVE  next_data[l] - next_data[k] >= l - k
    <3>1. k \in c .. N + 1 /\ l \in c .. N + 1 /\ k \in 1 .. N + 1 /\ l \in 1 .. N + 1
      BY <1>4, <1>16
    <3>2. data_at[l] - data_at[k] >= l - k
      BY <2>1, <3>1 DEF PayloadAt, DataSpaced
    <3>3. /\ data_at[l] \in Int /\ data_at[k] \in Int
          /\ next_data[l] = data_at[l] - consumed /\ next_data[k] = data_at[k] - consumed
      BY <1>4, <1>15, <3>1
    <3>4. next_data[l] - next_data[k] = data_at[l] - data_at[k]
      BY <1>5, <3>3
    <3> QED BY <3>2, <3>4
  <2> QED BY <1>8, <2>1 DEF DataSpaced
<1> QED BY <1>17, <1>19, <1>21, <1>23, <1>25, <1>27, <1>28 DEF PayloadWay, PayloadAt

(* A call of CrcAppend keeps the invariant, when it has items and space. *)
LEMMA CrcInv ==
  ASSUME Inv, ~EmptySpans, NEW n \in 0 .. DataCapacity, NEW space \in 0 .. PayloadCapacity,
         Crc(n, space)
  PROVE  Inv'
<1>1. /\ NoBlockFails /\ TypeOK /\ MuxInPacket /\ ComesLast /\ HeaderWay /\ PayloadWay
  BY DEF Inv, NoBlockFails
<1>2. UNCHANGED <<in_vars, header_vars, mux_vars, out, accepted>>
  BY DEF Crc
<1>3. HeaderWay' /\ MuxInPacket' /\ ComesLast'
  BY <1>1, <1>2, HeadersStay, MuxStays, IngressStays
<1>4. PICK c, payload_at, data_at : PayloadAt(c, payload_at, data_at)
  BY <1>1 DEF PayloadWay
<1>5. UNCHANGED <<in_remaining, in_valid, in_failed, packet, metadata, plain, headers, out,
                  accepted, mux_packet_lens, mux_current_input, mux_remaining, mux_failed>>
  BY <1>2 DEF in_vars, header_vars, mux_vars
<1>6. n \in Nat
  BY Sizes
<1>7. CASE n > 0
  <2>1. c \in 1 .. N /\ \E consumed, published : CrcMoves(c, consumed, published)
    BY <1>1, <1>4, <1>7, CrcEffect
  <2>2. PICK consumed, published : CrcMoves(c, consumed, published)
    BY <2>1
  <2>3. PayloadWay'
    BY <1>1, <1>2, <1>4, <2>1, <2>2, PayloadGrows
  <2>4. data' \in Seq(Item) /\ Len(data') <= DataCapacity
    <3>1. /\ data \in Seq(Item) /\ Len(data) \in Nat /\ Len(data) <= DataCapacity
          /\ consumed \in 0 .. Len(data) /\ data' = From(data, consumed) /\ DataCapacity \in Nat
      BY <1>1, <2>2, LinkLengths, Sizes DEF CrcMoves, TypeOK
    <3>2. data' \in Seq(Item) /\ Len(data') = Len(data) - consumed
      BY <3>1, FromProperties
    <3> QED BY <3>1, <3>2
  <2>5. payload_tag' \in Nat
    <3>1. Size(accepted[c]) \in Nat
      BY <1>1, <2>1, LinkLengths
    <3> QED BY <2>2, <3>1 DEF CrcMoves
  <2>6. /\ crc_data_remaining' \in Nat /\ crc_failed' = crc_failed
        /\ payload' \in Seq(Item) /\ Len(payload') <= PayloadCapacity
    BY <2>2 DEF CrcMoves
  <2>7. TypeOK'
    BY <1>1, <1>5, <2>4, <2>5, <2>6 DEF TypeOK
  <2> QED BY <1>1, <1>3, <1>5, <2>3, <2>6, <2>7 DEF Inv, NoBlockFails
<1>8. CASE ~(n > 0)
  <2>1. n = 0 /\ crc_data_remaining = 0
    BY <1>6, <1>8 DEF Crc, CRC!AtStart
  <2>2. PICK consumed \in 0 .. 0, published \in 0 .. 0 + CrcSize :
          /\ CRC!ProcessBulk(TagAt(data), 0, space, consumed, published)
          /\ payload' = payload
               \o [i \in 1 .. consumed |-> [data[i] EXCEPT !.bits = IF i = 1 THEN payload_tag ELSE 0]]
               \o Items(data[1].of, "crc", 1, published - consumed, 0)
          /\ payload_tag' = IF published > 0 THEN 0 ELSE payload_tag
          /\ data' = From(data, consumed)
    BY <2>1 DEF Crc
  <2>3. consumed = 0 /\ published = 0 /\ crc_data_remaining' = crc_data_remaining
        /\ crc_failed' = crc_failed
    BY <2>1, <2>2 DEF CRC!ProcessBulk, CRC!Idle, CRC!Fail, CRC!Copy, CRC!AtStart, CRC!vars
  <2>4. data' = data /\ payload_tag' = payload_tag
    <3>1. data \in Seq(Item) /\ Len(data) \in Nat
      BY <1>1, LinkLengths
    <3>2. From(data, 0) = data
      BY <3>1, SubSeqFull DEF From
    <3> QED BY <2>2, <2>3, <3>2
  <2>5. payload' = payload
    <3>1. PICK nothing :
            nothing = [i \in 1 .. 0 |->
                        [data[i] EXCEPT !.bits = IF i = 1 THEN payload_tag ELSE 0]]
      OBVIOUS
    <3>2. nothing = <<>>
      <4>1. nothing \in [1 .. 0 -> {}]
        BY <3>1
      <4>2. nothing \in Seq({}) /\ Len(nothing) = 0
        BY <4>1, FunctionIsSeq
      <4> QED BY <4>2, EmptySeq
    <3>3. 0 - 0 = 0
      OBVIOUS
    <3>4. Items(data[1].of, "crc", 1, 0, 0) = <<>>
      BY NoItems
    <3>5. payload' = payload \o <<>> \o <<>>
      BY <2>2, <2>3, <3>1, <3>2, <3>3, <3>4
    <3>6. payload \in Seq(Item)
      BY <1>1, LinkLengths
    <3>7. payload \o <<>> = payload
      BY <3>6
    <3> QED BY <3>5, <3>7
  <2>6. PayloadWay'
    <3>1. Coming' = Coming
      BY <1>1, <1>2, IngressStays
    <3> QED BY <1>1, <1>2, <2>3, <2>4, <2>5, <3>1, PayloadStays DEF crc_vars
  <2>7. TypeOK'
    BY <1>1, <1>5, <2>3, <2>4, <2>5 DEF TypeOK
  <2> QED BY <1>1, <1>3, <1>5, <2>3, <2>6, <2>7 DEF Inv, NoBlockFails
<1> QED BY <1>7, <1>8

-----------------------------------------------------------------------------
(* As many packets fit into data as it has places, and of those that are   *)
(* in payload one for each CRC and item.                                   *)
LEMMA Divides ==
  ASSUME NEW x \in Nat, NEW y \in Nat, y > 0, NEW z \in Nat, x * y <= z
  PROVE  z \div y \in Nat /\ x <= z \div y
<1>1. z \div y \in Nat /\ z < (z \div y + 1) * y
  OBVIOUS
<1>2. PICK q : q = z \div y
  OBVIOUS
<1>3. q \in Nat /\ x * y < (q + 1) * y
  <2>1. q \in Nat /\ z < (q + 1) * y
    BY <1>1, <1>2
  <2>2. \A v, w \in Nat : v * w \in Nat
    OBVIOUS
  <2>3. x * y \in Nat /\ (q + 1) * y \in Nat
    BY <2>1, <2>2
  <2> QED BY <2>1, <2>3
<1>4. x <= q
  <2>1. SUFFICES ASSUME x >= q + 1
                 PROVE  FALSE
    BY <1>3
  <2>2. \A u, v, w \in Nat : u >= v => u * w >= v * w
    OBVIOUS
  <2>3. x * y >= (q + 1) * y
    BY <1>3, <2>1, <2>2
  <2>4. \A v, w \in Nat : v * w \in Nat
    OBVIOUS
  <2>5. x * y \in Nat /\ (q + 1) * y \in Nat
    BY <1>3, <2>4
  <2> QED BY <1>3, <2>3, <2>5
<1> QED BY <1>1, <1>2, <1>4

(* The places of the packets in data. *)
LEMMA DataOrder ==
  ASSUME TypeOK, NEW c, NEW payload_at, NEW data_at, PayloadAt(c, payload_at, data_at),
         NEW k \in c .. N, NEW l \in c .. N + 1, k < l
  PROVE  data_at[k] + accepted[k].len + (l - (k + 1)) <= data_at[l]
<1>1. /\ N \in Nat /\ c \in Nat /\ c >= 1 /\ c <= N + 1
      /\ \A m \in 1 .. N + 1 : data_at[m] \in Int
  BY LinkLengths, PlacesOfPackets
<1>2. /\ k \in 1 .. N /\ k \in 1 .. N + 1 /\ k + 1 \in 1 .. N + 1 /\ l \in 1 .. N + 1
      /\ k + 1 \in c .. N + 1 /\ k + 1 <= l
  BY <1>1
<1>3. data_at[k + 1] = data_at[k] + accepted[k].len
  BY DEF PayloadAt, DataPlaces
<1>4. data_at[l] - data_at[k + 1] >= l - (k + 1)
  BY <1>2 DEF PayloadAt, DataSpaced
<1>5. data_at[k + 1] \in Int /\ data_at[l] \in Int /\ data_at[k] \in Int
  BY <1>1, <1>2
<1>6. accepted[k].len \in Nat
  BY <1>2, LinkLengths
<1>7. l - (k + 1) \in Int
  BY <1>1
<1> QED BY <1>3, <1>4, <1>5, <1>6, <1>7

(* The first item of the last packet is in data, unless CrcAppend is in    *)
(* that packet.                                                            *)
LEMMA DataHolds ==
  ASSUME TypeOK, ComesLast, NEW c, NEW payload_at, NEW data_at,
         PayloadAt(c, payload_at, data_at)
  PROVE  N - c + 1 <= DataCapacity
<1>1. /\ N \in Nat /\ c \in Nat /\ c >= 1 /\ c <= N + 1
      /\ \A m \in 1 .. N + 1 : data_at[m] \in Int
      /\ Copied(c) \in Nat /\ crc_data_remaining \in Nat /\ Coming \in Nat
      /\ DataCapacity \in Nat /\ DataCapacity > 0
      /\ Len(data) \in Nat /\ Len(data) <= DataCapacity
  BY LinkLengths, PlacesOfPackets, Sizes DEF TypeOK
<1>2. CASE N <= c
  BY <1>1, <1>2
<1>3. CASE ~(N <= c)
  <2>1. /\ c \in 1 .. N /\ c \in c .. N /\ N \in 1 .. N /\ N \in c .. N /\ N \in c .. N + 1
        /\ c < N /\ N \in 1 .. N + 1 /\ N + 1 \in 1 .. N + 1
    BY <1>1, <1>3
  <2>2. Copied(c) < accepted[c].len /\ accepted[c].len \in Nat
    <3>1. accepted[c].len \in Nat /\ accepted[c].len > 0
      BY <2>1, LinkLengths
    <3>2. CASE crc_data_remaining = 0
      BY <3>1, <3>2 DEF Copied
    <3>3. CASE crc_data_remaining # 0
      <4>1. crc_data_remaining > 0
        BY <1>1, <3>3
      <4>2. Copied(c) = accepted[c].len - crc_data_remaining
        BY <4>1, PlacesOfPackets
      <4> QED BY <1>1, <3>1, <4>1, <4>2
    <3> QED BY <3>2, <3>3
  <2>3. data_at[c] = 0 - Copied(c)
    BY DEF PayloadAt, DataPlaces
  <2>4. data_at[c] + accepted[c].len + (N - (c + 1)) <= data_at[N]
    BY <2>1, DataOrder
  <2>5. N - c <= data_at[N] /\ data_at[N] \in Int
    <3>1. data_at[N] \in Int
      BY <1>1, <2>1
    <3>2. PICK len : len = accepted[c].len
      OBVIOUS
    <3>3. len \in Nat /\ Copied(c) < len /\ (0 - Copied(c)) + len + (N - (c + 1)) <= data_at[N]
      BY <2>2, <2>3, <2>4, <3>2
    <3> QED BY <1>1, <3>1, <3>3
  <2>6. /\ data_at[N + 1] = data_at[N] + accepted[N].len /\ Len(data) = data_at[N + 1] - Coming
    BY <2>1 DEF PayloadAt, DataPlaces
  <2>7. Coming < accepted[N].len /\ accepted[N].len \in Nat
    <3>1. accepted[N].len \in Nat /\ accepted[N].len > 0
      BY <2>1, LinkLengths
    <3> QED BY <1>1, <3>1 DEF ComesLast
  <2>8. data_at[N] < Len(data)
    <3>1. PICK len : len = accepted[N].len
      OBVIOUS
    <3>2. len \in Nat /\ Coming < len /\ Len(data) = (data_at[N] + len) - Coming
      BY <2>6, <2>7, <3>1
    <3> QED BY <1>1, <2>5, <3>2
  <2> QED BY <1>1, <2>5, <2>8
<1> QED BY <1>2, <1>3

(* PacketIngress has room for a message: payloads back up before messages. *)
LEMMA RoomForMessage ==
  ASSUME Inv
  PROVE  Len(metadata) < MetadataCapacity
<1>1. /\ TypeOK /\ MuxInPacket /\ ComesLast /\ HeaderWay /\ PayloadWay
  BY DEF Inv, NoBlockFails
<1>2. PICK coded, header_at : HeadersAt(coded, header_at)
  BY <1>1 DEF HeaderWay
<1>3. PICK c, payload_at, data_at : PayloadAt(c, payload_at, data_at)
  BY <1>1 DEF PayloadWay
<1>4. /\ N \in Nat /\ c \in Nat /\ c >= 1 /\ c <= N + 1 /\ Copied(c) \in Nat
      /\ \A k \in 1 .. N + 1 : payload_at[k] \in Int
      /\ Len(payload) \in Nat /\ Len(payload) <= PayloadCapacity /\ PayloadCapacity \in Nat
      /\ Len(metadata) \in Nat /\ Len(plain) \in Nat /\ coded \in Nat
      /\ PayloadSent \in Nat /\ HeaderSent \in Nat
  BY <1>1, <1>2, <1>3, LinkLengths, PlacesOfPackets, PlacesOfHeaders, SentSizes, Sizes DEF TypeOK
<1>5. N - c + 1 <= DataCapacity /\ DataCapacity \in Nat
  BY <1>1, <1>3, DataHolds, Sizes
<1>6. Len(metadata) <= N - coded
  <2>1. coded + Len(plain) + Len(metadata) = N
    BY <1>2 DEF HeadersAt, MessagesThere
  <2> QED BY <1>4, <2>1
<1>7. PICK most : most = PayloadCapacity \div (CrcSize + 1)
  OBVIOUS
<1>8. /\ DataCapacity + most < MetadataCapacity /\ MetadataCapacity \in Nat
      /\ CrcSize + 1 \in Nat /\ CrcSize + 1 > 0
  BY <1>7, AssemblyAssumption
<1>9. most \in Nat
  <2>1. \A y \in Nat : 0 * y <= PayloadCapacity
    BY <1>4
  <2> QED BY <1>4, <1>7, <1>8, <2>1, Divides
<1>10. /\ payload_at[1] = 0 - PayloadSent
       /\ \A k \in 1 .. c - 1 : payload_at[k + 1] = payload_at[k] + Size(accepted[k])
       /\ Len(payload) = payload_at[c] + Copied(c)
       /\ \A k, l \in 1 .. c : k <= l => payload_at[l] - payload_at[k] >= (l - k) * (CrcSize + 1)
  BY <1>3 DEF PayloadAt, PayloadPlaces, PayloadSpaced
<1>11. ASSUME NEW k \in 1 .. c, payload_at[k] >= 0
       PROVE  c - k <= most
  <2>1. k \in 1 .. N + 1 /\ c \in 1 .. N + 1 /\ c \in 1 .. c /\ c - k \in Nat
    BY <1>4
  <2>2. payload_at[c] - payload_at[k] >= (c - k) * (CrcSize + 1)
    BY <1>10, <2>1
  <2>3. PICK gap : gap = (c - k) * (CrcSize + 1)
    OBVIOUS
  <2>4. gap \in Nat
    <3>1. \A x, y \in Nat : x * y \in Nat
      OBVIOUS
    <3> QED BY <1>8, <2>1, <2>3, <3>1
  <2>5. payload_at[c] \in Int /\ payload_at[k] \in Int
    BY <1>4, <2>1
  <2>6. gap <= payload_at[c]
    BY <1>11, <2>2, <2>3, <2>4, <2>5
  <2>7. payload_at[c] <= PayloadCapacity
    <3>1. PICK copied \in Nat : copied = Copied(c)
      BY <1>4
    <3>2. Len(payload) = payload_at[c] + copied
      BY <1>10, <3>1
    <3>3. Len(payload) \in Nat /\ Len(payload) <= PayloadCapacity /\ PayloadCapacity \in Nat
      BY <1>4
    <3> QED BY <2>5, <3>1, <3>2, <3>3
  <2>8. (c - k) * (CrcSize + 1) <= PayloadCapacity
    BY <1>4, <2>3, <2>4, <2>5, <2>6, <2>7
  <2> QED BY <1>4, <1>7, <1>8, <2>1, <2>8, Divides
<1>12. CASE PayloadSent = 0
  <2>1. 1 \in 1 .. c /\ payload_at[1] >= 0
    BY <1>4, <1>10, <1>12
  <2>2. c - 1 <= most
    BY <1>11, <2>1
  <2> QED BY <1>4, <1>5, <1>6, <1>8, <1>9, <2>2
<1>13. CASE PayloadSent # 0
  <2>1. /\ HeaderSent = HeaderSize /\ HeaderSize > 0 /\ HeaderSize \in Nat /\ N > 0
        /\ PayloadSent < Size(accepted[1])
    BY <1>1, <1>4, <1>13, SentSizes, Sizes
  <2>2. coded # 0
    <3>1. SUFFICES ASSUME coded = 0
                   PROVE  FALSE
      OBVIOUS
    <3>2. Len(headers) = header_at[coded + 1] /\ header_at[1] = 0 - HeaderSent
      BY <1>2 DEF HeadersAt, HeaderPlaces
    <3>3. Len(headers) = 0 - HeaderSize /\ Len(headers) \in Nat
      BY <1>1, <2>1, <3>1, <3>2, LinkLengths
    <3> QED BY <2>1, <3>3
  <2>3. Len(metadata) <= N - 1
    BY <1>4, <1>6, <2>2
  <2>4. CASE c = 1
    BY <1>4, <1>5, <1>8, <1>9, <2>3, <2>4
  <2>5. CASE c # 1
    <3>1. 1 \in 1 .. c - 1 /\ 2 \in 1 .. c /\ 1 \in 1 .. N
      BY <1>4, <2>1, <2>5
    <3>2. payload_at[1 + 1] = payload_at[1] + Size(accepted[1])
      BY <1>10, <3>1
    <3>3. Size(accepted[1]) \in Nat
      BY <1>1, <3>1, LinkLengths
    <3>4. payload_at[2] >= 0
      <4>1. PICK size : size = Size(accepted[1])
        OBVIOUS
      <4>2. /\ size \in Nat /\ PayloadSent \in Nat /\ PayloadSent < size
            /\ payload_at[2] = (0 - PayloadSent) + size
        BY <1>4, <1>10, <2>1, <3>2, <3>3, <4>1
      <4> QED BY <4>2
    <3>5. c - 2 <= most
      BY <1>11, <3>1, <3>4
    <3> QED BY <1>4, <1>5, <1>8, <1>9, <2>3, <3>5
  <2> QED BY <2>4, <2>5
<1> QED BY <1>12, <1>13

(* What a call of PacketIngress does: it opens a packet, goes on in one,   *)
(* or drops items of a packet that is too long.                            *)
IngressOpens(length, n) ==
  /\ in_remaining = 0 /\ n <= length /\ length <= MaxLength
  /\ in_remaining' = length - n /\ in_valid' = TRUE
  /\ packet' = [id |-> NextId, len |-> length]
  /\ data' = data \o Items(packet', "payload", 1, n, length)
  /\ metadata' = Append(metadata, packet') /\ accepted' = Append(accepted, packet')

IngressGoesOn(n) ==
  /\ in_remaining > 0 /\ n <= in_remaining /\ in_valid = TRUE
  /\ in_remaining' = in_remaining - n /\ in_valid' = TRUE
  /\ data' = data \o Items(packet, "payload", packet.len - in_remaining + 1, n, 0)
  /\ UNCHANGED <<packet, metadata, accepted>>

IngressDrops ==
  /\ in_remaining = 0 \/ in_valid = FALSE
  /\ in_remaining' \in Nat /\ in_valid' = FALSE /\ packet' \in Packets
  /\ UNCHANGED <<data, metadata, accepted>>

(* There is nothing else that a call of PacketIngress does: it finds room  *)
(* for the message.                                                        *)
LEMMA IngressEffect ==
  ASSUME Inv, NEW length \in Lengths, NEW n \in 1 .. DataCapacity, Ingress(length, n)
  PROVE  /\ in_failed' = in_failed
         /\ Len(data) + n <= DataCapacity
         /\ UNCHANGED <<crc_vars, plain, headers, payload, payload_tag, mux_vars, out>>
         /\ IngressOpens(length, n) \/ IngressGoesOn(n) \/ IngressDrops
<1>1. /\ TypeOK /\ in_remaining \in Nat /\ in_valid \in BOOLEAN /\ packet \in Packets
      /\ length \in Nat /\ length > 0 /\ n \in Nat /\ n > 0
      /\ Len(metadata) < MetadataCapacity
  BY RoomForMessage, Sizes DEF Inv, NoBlockFails, TypeOK
<1>2. /\ n <= ING!Left(length) /\ Len(data) + n <= DataCapacity
      /\ UNCHANGED <<crc_vars, plain, headers, payload, payload_tag, mux_vars, out>>
  BY DEF Ingress
<1>3. PICK consumed \in 0 .. n :
       /\ ING!ProcessBulk(length, n, Len(metadata) < MetadataCapacity, consumed)
       /\ LET opens == ING!AtStart /\ consumed > 0
              start == packet.len - in_remaining + 1
          IN /\ packet' = CASE opens /\ ING!Fits(length)  -> [id |-> NextId, len |-> length]
                            [] opens /\ ~ING!Fits(length) -> [packet EXCEPT !.len = length]
                            [] ~opens                     -> packet
             /\ data' = IF consumed > 0 /\ ING!Passes(length)
                          THEN data \o (IF opens
                                          THEN Items(packet', "payload", 1, consumed, length)
                                          ELSE Items(packet, "payload", start, consumed, 0))
                          ELSE data
             /\ metadata' = IF opens /\ ING!Sends(length)
                              THEN Append(metadata, packet') ELSE metadata
             /\ accepted' = IF opens /\ ING!Fits(length)
                              THEN Append(accepted, packet') ELSE accepted
  BY DEF Ingress
<1>4. /\ consumed = ING!Lesser(ING!Left(length), n)
      /\ in_remaining' = ING!Left(length) - consumed
      /\ in_valid' = ING!Passes(length) /\ in_failed' = in_failed
  BY <1>1, <1>3 DEF ING!ProcessBulk, ING!NoRoom, ING!Pass
<1>5. consumed = n
  <2>1. ING!Left(length) \in Nat
    BY <1>1 DEF ING!Left
  <2> QED BY <1>1, <1>2, <1>4, <2>1 DEF ING!Lesser
<1>6. CASE in_remaining = 0 /\ length <= MaxLength
  <2>1. /\ ING!AtStart /\ consumed > 0 /\ ING!Fits(length) /\ ING!Passes(length)
        /\ ING!Sends(length) /\ ING!Left(length) = length
    BY <1>1, <1>5, <1>6 DEF ING!AtStart, ING!Fits, ING!Passes, ING!Sends, ING!Left
  <2>2. packet' = [id |-> NextId, len |-> length]
    BY <1>3, <2>1
  <2>3. data' = data \o Items(packet', "payload", 1, n, length)
    BY <1>3, <1>5, <2>1
  <2>4. metadata' = Append(metadata, packet') /\ accepted' = Append(accepted, packet')
    BY <1>3, <2>1
  <2>5. in_valid' = TRUE
    <3>1. ING!Passes(length) = TRUE
      BY <1>6 DEF ING!Passes, ING!AtStart, ING!Fits
    <3> QED BY <1>4, <3>1
  <2> QED BY <1>2, <1>4, <1>5, <1>6, <2>1, <2>2, <2>3, <2>4, <2>5 DEF IngressOpens
<1>7. CASE in_remaining = 0 /\ ~(length <= MaxLength)
  <2>1. /\ ING!AtStart /\ consumed > 0 /\ ~ING!Fits(length) /\ ~ING!Passes(length)
        /\ ~ING!Sends(length) /\ ING!Left(length) = length
    BY <1>1, <1>5, <1>7 DEF ING!AtStart, ING!Fits, ING!Passes, ING!Sends, ING!Left
  <2>2. packet' = [packet EXCEPT !.len = length]
    BY <1>3, <2>1
  <2>3. packet' \in Packets
    BY <1>1, <2>2 DEF Packets
  <2>4. UNCHANGED <<data, metadata, accepted>>
    BY <1>3, <2>1
  <2>5. in_valid' = FALSE
    <3>1. ING!Passes(length) = FALSE
      BY <1>7 DEF ING!Passes, ING!AtStart, ING!Fits
    <3> QED BY <1>4, <3>1
  <2>6. in_remaining' \in Nat
    BY <1>1, <1>2, <1>4, <1>5, <2>1
  <2> QED BY <1>2, <1>4, <1>7, <2>3, <2>4, <2>5, <2>6 DEF IngressDrops
<1>8. CASE in_remaining # 0
  <2>1. /\ ~ING!AtStart /\ ~ING!Sends(length) /\ ING!Left(length) = in_remaining
        /\ ING!Passes(length) = in_valid
    BY <1>8 DEF ING!AtStart, ING!Passes, ING!Sends, ING!Left
  <2>2. UNCHANGED <<packet, metadata, accepted>>
    BY <1>3, <2>1
  <2>3. in_remaining' = in_remaining - n /\ n <= in_remaining /\ in_valid' = in_valid
    BY <1>2, <1>4, <1>5, <2>1
  <2>4. in_remaining > 0 /\ in_remaining' \in Nat
    BY <1>1, <1>8, <2>3
  <2>5. CASE in_valid = TRUE
    <3>1. data' = data \o Items(packet, "payload", packet.len - in_remaining + 1, n, 0)
      BY <1>1, <1>3, <1>5, <2>1, <2>5
    <3> QED BY <1>2, <1>4, <2>2, <2>3, <2>4, <2>5, <3>1 DEF IngressGoesOn
  <2>6. CASE in_valid = FALSE
    <3>1. data' = data
      BY <1>3, <2>1, <2>6
    <3> QED BY <1>1, <1>2, <1>4, <2>2, <2>3, <2>4, <2>6, <3>1 DEF IngressDrops
  <2> QED BY <1>1, <2>5, <2>6
<1> QED BY <1>6, <1>7, <1>8

(* The message of a new packet is the last one. *)
LEMMA HeadersOpen ==
  ASSUME TypeOK, HeaderWay, NEW p \in Packets,
         metadata' = Append(metadata, p), accepted' = Append(accepted, p),
         UNCHANGED <<plain, headers, mux_vars>>
  PROVE  HeaderWay'
<1>1. PICK coded, header_at : HeadersAt(coded, header_at)
  BY DEF HeaderWay
<1>2. /\ metadata \in Seq(Packets) /\ accepted \in Seq(Packets)
      /\ N \in Nat /\ Len(metadata) \in Nat /\ Len(plain) \in Nat
  BY LinkLengths
<1>3. /\ Len(metadata') = Len(metadata) + 1
      /\ \A i \in 1 .. Len(metadata) : metadata'[i] = metadata[i]
      /\ metadata'[Len(metadata) + 1] = p
  BY <1>2, AppendProperties
<1>4. /\ N' = N + 1
      /\ \A k \in 1 .. N : accepted'[k] = accepted[k]
      /\ accepted'[N + 1] = p
  BY <1>2, AppendProperties DEF N
<1>5. HeaderSent' = HeaderSent
  BY DEF HeaderSent, mux_vars
<1>6. /\ coded \in 0 .. N /\ header_at \in [1 .. N + 1 -> Int] /\ header_at[1] = 0 - HeaderSent
      /\ \A k \in 1 .. coded : /\ header_at[k + 1] = header_at[k] + HeaderSize
                               /\ header_at[k + 1] <= Len(headers)
      /\ Len(headers) = header_at[coded + 1]
  BY <1>1 DEF HeadersAt, HeaderPlaces
<1>7. PICK next_at : next_at = [k \in 1 .. N + 2 |-> IF k \in 1 .. N + 1 THEN header_at[k] ELSE 0]
  OBVIOUS
<1>8. /\ next_at \in [1 .. N + 2 -> Int]
      /\ \A k \in 1 .. N + 1 : next_at[k] = header_at[k]
  <2>1. \A k \in 1 .. N + 1 : k \in 1 .. N + 2 /\ header_at[k] \in Int
    BY <1>2, <1>6
  <2>2. \A k \in 1 .. N + 2 : (IF k \in 1 .. N + 1 THEN header_at[k] ELSE 0) \in Int
    BY <2>1
  <2>3. \A k \in 1 .. N + 1 : next_at[k] = header_at[k]
    BY <1>7, <2>1
  <2> QED BY <1>7, <2>2, <2>3
<1>9. /\ coded \in Nat /\ coded <= N /\ coded + 1 \in 1 .. N + 1 /\ 1 \in 1 .. N + 1
      /\ \A k \in 1 .. coded : k \in 1 .. N /\ k \in 1 .. N + 1 /\ k + 1 \in 1 .. N + 1
  BY <1>2, <1>6
<1>10. HeaderPlaces(coded, next_at)'
  <2>1. next_at \in [1 .. N' + 1 -> Int]
    <3>1. N' + 1 = N + 2
      BY <1>2, <1>4
    <3> QED BY <1>8, <3>1
  <2>2. coded \in 0 .. N'
    BY <1>2, <1>4, <1>9
  <2>3. \A k \in 1 .. coded : /\ next_at[k + 1] = next_at[k] + HeaderSize
                              /\ next_at[k + 1] <= Len(headers)
    BY <1>6, <1>8, <1>9
  <2>4. next_at[1] = 0 - HeaderSent /\ Len(headers) = next_at[coded + 1]
    BY <1>6, <1>8, <1>9
  <2> QED BY <1>5, <2>1, <2>2, <2>3, <2>4 DEF HeaderPlaces
<1>11. HeadersThere(coded, next_at)'
  <2>1. ASSUME NEW k \in 1 .. coded, NEW j \in 1 .. HeaderSize,
               next_at[k] + j \in 1 .. Len(headers)
        PROVE  headers[next_at[k] + j] = HeaderItem(accepted'[k], j)
    <3>1. next_at[k] = header_at[k] /\ accepted'[k] = accepted[k]
      BY <1>4, <1>8, <1>9
    <3> QED BY <1>1, <2>1, <3>1 DEF HeadersAt, HeadersThere
  <2> QED BY <2>1 DEF HeadersThere, HeaderItem
<1>12. MessagesThere(coded)'
  <2>1. /\ coded + Len(plain) + Len(metadata) = N
        /\ \A i \in 1 .. Len(plain) : plain[i] = accepted[coded + i]
        /\ \A i \in 1 .. Len(metadata) : metadata[i] = accepted[coded + Len(plain) + i]
    BY <1>1 DEF HeadersAt, MessagesThere
  <2>2. coded + Len(plain) + Len(metadata') = N'
    BY <1>2, <1>3, <1>4, <1>9, <2>1
  <2>3. ASSUME NEW i \in 1 .. Len(plain)
        PROVE  plain[i] = accepted'[coded + i]
    <3>1. coded + i \in 1 .. N
      BY <1>2, <1>9, <2>1
    <3> QED BY <1>4, <2>1, <3>1
  <2>4. ASSUME NEW i \in 1 .. Len(metadata')
        PROVE  metadata'[i] = accepted'[coded + Len(plain) + i]
    <3>1. CASE i <= Len(metadata)
      <4>1. i \in 1 .. Len(metadata) /\ coded + Len(plain) + i \in 1 .. N
        BY <1>2, <1>3, <1>9, <2>1, <3>1
      <4> QED BY <1>3, <1>4, <2>1, <4>1
    <3>2. CASE ~(i <= Len(metadata))
      <4>1. i = Len(metadata) + 1
        BY <1>2, <1>3, <3>2
      <4>2. coded + Len(plain) + (Len(metadata) + 1) = (coded + Len(plain) + Len(metadata)) + 1
        BY <1>2, <1>9
      <4>3. coded + Len(plain) + i = N + 1
        BY <2>1, <4>1, <4>2
      <4> QED BY <1>3, <1>4, <4>1, <4>3
    <3> QED BY <3>1, <3>2
  <2> QED BY <2>2, <2>3, <2>4 DEF MessagesThere
<1> QED BY <1>10, <1>11, <1>12 DEF HeaderWay, HeadersAt

(* A new packet begins behind the others. *)
LEMMA PayloadOpens ==
  ASSUME TypeOK, PayloadWay, in_remaining = 0,
         NEW p \in Packets, NEW n \in Nat, n > 0, n <= p.len,
         in_remaining' = p.len - n, in_valid' = TRUE,
         data' = data \o Items(p, "payload", 1, n, p.len),
         accepted' = Append(accepted, p),
         UNCHANGED <<crc_vars, payload, payload_tag, mux_vars>>
  PROVE  PayloadWay'
<1>1. PICK c, payload_at, data_at : PayloadAt(c, payload_at, data_at)
  BY DEF PayloadWay
<1>2. /\ accepted \in Seq(Packets) /\ data \in Seq(Item) /\ Len(data) \in Nat
      /\ N \in Nat /\ c \in Nat /\ c >= 1 /\ c <= N + 1
      /\ \A k \in 1 .. N + 1 : payload_at[k] \in Int /\ data_at[k] \in Int
      /\ Len(payload) \in Nat
  BY <1>1, LinkLengths, PlacesOfPackets
<1>3. /\ N' = N + 1
      /\ \A k \in 1 .. N : accepted'[k] = accepted[k]
      /\ accepted'[N + 1] = p
  BY <1>2, AppendProperties DEF N
<1>4. PICK len : len = p.len
  OBVIOUS
<1>5. len \in Nat /\ len > 0 /\ n <= len /\ Size(p) \in Nat
  BY <1>4, PacketSizes
<1>6. PICK items : items = Items(p, "payload", 1, n, len)
  OBVIOUS
<1>7. items \in Seq(Item) /\ Len(items) = n
  <2>1. Items(p, "payload", 1, n, len) \in Seq(Item)
    BY <1>5, ItemsProperties
  <2>2. Len(Items(p, "payload", 1, n, len)) = n
    BY <1>5, ItemsProperties
  <2> QED BY <1>6, <2>1, <2>2
<1>8. ASSUME NEW j \in 1 .. n
      PROVE  items[j] = DataItem(p, j)
  <2>1. items[j] = [of |-> p, part |-> "payload", place |-> 1 + j - 1,
                    bits |-> IF j = 1 THEN len ELSE 0]
    BY <1>6 DEF Items
  <2>2. 1 + j - 1 = j
    OBVIOUS
  <2> QED BY <1>4, <2>1, <2>2 DEF DataItem
<1>9. /\ Len(data') = Len(data) + n
      /\ \A i \in 1 .. Len(data) : data'[i] = data[i]
      /\ \A i \in 1 .. n : data'[Len(data) + i] = items[i]
  <2>1. data' = data \o items
    BY <1>4, <1>6
  <2>2. Len(data \o items) = Len(data) + Len(items)
    BY <1>2, <1>7, JoinProperties
  <2>3. \A i \in 1 .. Len(data) : (data \o items)[i] = data[i]
    BY <1>2, <1>7, JoinProperties
  <2>4. \A i \in 1 .. Len(items) : (data \o items)[Len(data) + i] = items[i]
    BY <1>2, <1>7, JoinProperties
  <2> QED BY <1>7, <2>1, <2>2, <2>3, <2>4
<1>10. Coming = 0 /\ Coming' = len - n
  BY <1>4 DEF Coming
<1>11. /\ UNCHANGED <<crc_data_remaining, payload, payload_tag>> /\ PayloadSent' = PayloadSent
  BY DEF crc_vars, mux_vars, PayloadSent
<1>12. /\ crc_data_remaining \in Nat /\ (crc_data_remaining > 0 => c \in 1 .. N)
  BY <1>1, PlacesOfPackets
<1>13. Copied(c)' = Copied(c)
  <2>1. CASE crc_data_remaining = 0
    BY <1>11, <2>1 DEF Copied
  <2>2. CASE crc_data_remaining # 0
    <3>1. c \in 1 .. N
      BY <1>12, <2>2
    <3> QED BY <1>3, <1>11, <3>1 DEF Copied
  <2> QED BY <2>1, <2>2
<1>14. PICK next_payload :
         next_payload = [k \in 1 .. N + 2 |-> IF k \in 1 .. N + 1 THEN payload_at[k] ELSE 0]
  OBVIOUS
<1>15. PICK next_data :
         next_data = [k \in 1 .. N + 2 |-> IF k \in 1 .. N + 1 THEN data_at[k]
                                           ELSE data_at[N + 1] + len]
  OBVIOUS
<1>16. /\ next_payload \in [1 .. N + 2 -> Int] /\ next_data \in [1 .. N + 2 -> Int]
       /\ \A k \in 1 .. N + 1 : next_payload[k] = payload_at[k] /\ next_data[k] = data_at[k]
       /\ next_data[N + 2] = data_at[N + 1] + len
       /\ data_at[N + 1] \in Int
  <2>1. N + 1 \in 1 .. N + 1 /\ N + 2 \in 1 .. N + 2 /\ ~(N + 2 \in 1 .. N + 1)
    BY <1>2
  <2>2. \A k \in 1 .. N + 1 : k \in 1 .. N + 2
    BY <1>2
  <2>3. data_at[N + 1] \in Int /\ data_at[N + 1] + len \in Int
    BY <1>2, <1>5, <2>1
  <2>4. next_payload \in [1 .. N + 2 -> Int]
    BY <1>2, <1>14
  <2>5. next_data \in [1 .. N + 2 -> Int]
    BY <1>2, <1>15, <2>3
  <2>6. \A k \in 1 .. N + 1 : next_payload[k] = payload_at[k]
    BY <1>14, <2>2
  <2>7. \A k \in 1 .. N + 1 : next_data[k] = data_at[k]
    BY <1>15, <2>2
  <2> QED BY <1>15, <2>1, <2>3, <2>4, <2>5, <2>6, <2>7
<1>17. CrcInPacket(c)'
  <2>1. c \in 1 .. N' + 1
    BY <1>2, <1>3
  <2>2. crc_data_remaining > 0 => c <= N' /\ crc_data_remaining <= accepted'[c].len
    <3>1. crc_data_remaining > 0 => crc_data_remaining <= accepted[c].len
      BY <1>1 DEF PayloadAt, CrcInPacket
    <3> QED BY <1>2, <1>3, <1>12, <3>1
  <2>3. payload_tag = IF crc_data_remaining > 0 /\ Copied(c) = 0
                        THEN Size(accepted'[c]) ELSE 0
    <3>1. payload_tag = IF crc_data_remaining > 0 /\ Copied(c) = 0
                          THEN Size(accepted[c]) ELSE 0
      BY <1>1 DEF PayloadAt, CrcInPacket
    <3> QED BY <1>3, <1>12, <3>1
  <2> QED BY <1>11, <1>13, <2>1, <2>2, <2>3 DEF CrcInPacket, Size
<1>18. PayloadPlaces(c, next_payload)'
  <2>1. next_payload \in [1 .. N' + 1 -> Int]
    <3>1. N' + 1 = N + 2
      <4>1. N' = N + 1 /\ N \in Nat
        BY <1>2, <1>3
      <4>2. \A x \in Nat : (x + 1) + 1 = x + 2
        OBVIOUS
      <4> QED BY <4>1, <4>2
    <3> QED BY <1>16, <3>1
  <2>2. next_payload[1] = 0 - PayloadSent
    <3>1. 1 \in 1 .. N + 1
      BY <1>2
    <3> QED BY <1>1, <1>16, <3>1 DEF PayloadAt, PayloadPlaces
  <2>3. ASSUME NEW k \in 1 .. c - 1
        PROVE  next_payload[k + 1] = next_payload[k] + Size(accepted'[k])
    <3>1. k \in 1 .. N /\ k \in 1 .. N + 1 /\ k + 1 \in 1 .. N + 1
      <4>1. N \in Nat /\ c \in Nat /\ c <= N + 1
        BY <1>2
      <4> QED BY <4>1
    <3>2. payload_at[k + 1] = payload_at[k] + Size(accepted[k])
      BY <1>1 DEF PayloadAt, PayloadPlaces
    <3> QED BY <1>3, <1>16, <3>1, <3>2
  <2>4. Len(payload) = next_payload[c] + Copied(c)
    <3>1. c \in 1 .. N + 1
      BY <1>2
    <3> QED BY <1>1, <1>16, <3>1 DEF PayloadAt, PayloadPlaces
  <2> QED BY <1>11, <1>13, <2>1, <2>2, <2>3, <2>4 DEF PayloadPlaces, Size
<1>19. PayloadThere(c, next_payload)'
  <2>1. ASSUME NEW k \in 1 .. c, k <= N', NEW j \in 1 .. Size(accepted'[k]),
               next_payload[k] + j \in 1 .. Len(payload)
        PROVE  payload[next_payload[k] + j] = PayloadItem(accepted'[k], j)
    <3>1. k \in 1 .. N + 1 /\ next_payload[k] = payload_at[k]
      <4>1. N \in Nat /\ c \in Nat /\ c <= N + 1
        BY <1>2
      <4>2. k \in 1 .. N + 1
        BY <4>1
      <4> QED BY <1>16, <4>2
    <3>2. CASE k <= N
      <4>1. k \in 1 .. N /\ accepted'[k] = accepted[k]
        <5>1. k \in 1 .. N
          BY <1>2, <3>1, <3>2
        <5> QED BY <1>3, <5>1
      <4> QED BY <1>1, <2>1, <3>1, <3>2, <4>1 DEF PayloadAt, PayloadThere
    <3>3. CASE ~(k <= N)
      <4>1. k = N + 1 /\ c = N + 1 /\ accepted'[k] = p
        <5>1. k = N + 1 /\ c = N + 1
          BY <1>2, <3>1, <3>3
        <5> QED BY <1>3, <5>1
      <4>2. crc_data_remaining = 0
        BY <1>2, <1>12, <4>1
      <4>3. Copied(c) = 0
        BY <4>2 DEF Copied
      <4>4. Len(payload) = payload_at[c] + 0
        BY <1>1, <4>3 DEF PayloadAt, PayloadPlaces
      <4>5. payload_at[c] \in Int
        BY <1>2, <3>1, <4>1
      <4>6. j \in Nat /\ j > 0
        BY <1>5, <4>1
      <4>7. ~(next_payload[k] + j \in 1 .. Len(payload))
        BY <1>2, <3>1, <4>1, <4>4, <4>5, <4>6
      <4> QED BY <2>1, <4>7
    <3> QED BY <3>2, <3>3
  <2>2. ASSUME NEW k \in 1 .. c, k <= N', NEW j \in 1 .. Size(accepted'[k]),
               next_payload[k] + j \in 1 .. Len(payload')
        PROVE  payload'[next_payload[k] + j] = PayloadItem(accepted'[k], j)
    BY <1>11, <2>1, <2>2
  <2> QED BY <2>2 DEF PayloadThere, PayloadItem, Size
<1>20. PayloadSpaced(c, next_payload)'
  <2>1. \A k \in 1 .. c : next_payload[k] = payload_at[k]
    BY <1>2, <1>16
  <2> QED BY <1>1, <2>1 DEF PayloadAt, PayloadSpaced
<1>21. /\ data_at[c] = 0 - Copied(c)
       /\ \A k \in c .. N : data_at[k + 1] = data_at[k] + accepted[k].len
       /\ Len(data) = data_at[N + 1]
  <2>1. Len(data) = data_at[N + 1] - 0
    BY <1>1, <1>10 DEF PayloadAt, DataPlaces
  <2> QED BY <1>1, <1>16, <2>1 DEF PayloadAt, DataPlaces
<1>22. DataPlaces(c, next_data)'
  <2>1. next_data \in [1 .. N' + 1 -> Int]
    <3>1. N' + 1 = N + 2
      BY <1>2, <1>3
    <3> QED BY <1>16, <3>1
  <2>2. next_data[c] = 0 - Copied(c)
    <3>1. c \in 1 .. N + 1
      BY <1>2
    <3> QED BY <1>16, <1>21, <3>1
  <2>3. ASSUME NEW k \in c .. N'
        PROVE  next_data[k + 1] = next_data[k] + accepted'[k].len
    <3>1. CASE k <= N
      <4>1. k \in c .. N /\ k \in 1 .. N /\ k \in 1 .. N + 1 /\ k + 1 \in 1 .. N + 1
        BY <1>2, <1>3, <3>1
      <4> QED BY <1>3, <1>16, <1>21, <4>1
    <3>2. CASE ~(k <= N)
      <4>1. k = N + 1 /\ k \in 1 .. N + 1 /\ k + 1 = N + 2
        <5>1. k \in c .. N + 1
          BY <1>3
        <5>2. k \in Int /\ k >= c /\ k <= N + 1 /\ ~(k <= N)
          BY <1>2, <3>2, <5>1
        <5>3. k = N + 1
          BY <1>2, <5>2
        <5> QED BY <1>2, <5>3
      <4> QED BY <1>3, <1>4, <1>16, <4>1
    <3> QED BY <3>1, <3>2
  <2>4. Len(data') = next_data[N' + 1] - Coming'
    <3>1. N' + 1 = N + 2
      BY <1>2, <1>3
    <3>2. Len(data') = Len(data) + n /\ next_data[N + 2] = Len(data) + len
      BY <1>9, <1>16, <1>21
    <3>3. \A x, y, z \in Nat : (x + y) - (y - z) = x + z
      OBVIOUS
    <3> QED BY <1>2, <1>5, <1>10, <3>1, <3>2, <3>3
  <2> QED BY <1>13, <2>1, <2>2, <2>3, <2>4 DEF DataPlaces
<1>23. DataThere(c, next_data)'
  <2>1. ASSUME NEW k \in c .. N', NEW j \in 1 .. accepted'[k].len,
               next_data[k] + j \in 1 .. Len(data')
        PROVE  data'[next_data[k] + j] = DataItem(accepted'[k], j)
    <3>1. CASE k <= N
      <4>1. /\ k \in c .. N /\ k \in 1 .. N /\ k \in 1 .. N + 1 /\ N + 1 \in c .. N + 1 /\ k < N + 1
            /\ N + 1 \in 1 .. N + 1
        BY <1>2, <1>3, <3>1
      <4>2. /\ accepted'[k] = accepted[k] /\ next_data[k] = data_at[k] /\ data_at[k] \in Int
            /\ accepted[k].len \in Nat
        BY <1>2, <1>3, <1>16, <4>1, LinkLengths
      <4>3. data_at[k] + accepted[k].len + ((N + 1) - (k + 1)) <= data_at[N + 1]
        BY <1>1, <4>1, DataOrder
      <4>4. j \in Nat /\ j >= 1 /\ j <= accepted[k].len
        BY <4>2
      <4>5. data_at[k] + j <= Len(data)
        <5>1. PICK size : size = accepted[k].len
          OBVIOUS
        <5>2. /\ size \in Nat /\ j <= size /\ (N + 1) - (k + 1) \in Nat
              /\ data_at[k] + size + ((N + 1) - (k + 1)) <= Len(data)
          BY <1>2, <1>21, <4>1, <4>2, <4>3, <4>4, <5>1
        <5> QED BY <1>2, <4>2, <4>4, <5>2
      <4>6. data_at[k] + j \in 1 .. Len(data)
        BY <1>2, <2>1, <4>2, <4>4, <4>5
      <4>7. data[data_at[k] + j] = DataItem(accepted[k], j)
        BY <1>1, <4>1, <4>4, <4>6 DEF PayloadAt, DataThere
      <4> QED BY <1>9, <4>2, <4>6, <4>7
    <3>2. CASE ~(k <= N)
      <4>1. k = N + 1 /\ k \in 1 .. N + 1 /\ accepted'[k] = p
        <5>1. k \in c .. N + 1
          BY <1>3
        <5>2. k = N + 1
          BY <1>2, <3>2, <5>1
        <5>3. N + 1 \in 1 .. N + 1
          BY <1>2
        <5>4. accepted'[N + 1] = p
          BY <1>3
        <5> QED BY <5>2, <5>3, <5>4
      <4>2. next_data[k] = Len(data) /\ j \in Nat /\ j >= 1
        BY <1>4, <1>5, <1>16, <1>21, <4>1
      <4>3. j \in 1 .. n
        BY <1>2, <1>9, <2>1, <4>2
      <4> QED BY <1>8, <1>9, <4>1, <4>2, <4>3
    <3> QED BY <3>1, <3>2
  <2> QED BY <2>1 DEF DataThere, DataItem
<1>24. DataSpaced(c, next_data)'
  <2>1. ASSUME NEW k \in c .. N' + 1, NEW l \in c .. N' + 1, k <= l
        PROVE  next_data[l] - next_data[k] >= l - k
    <3>1. CASE l <= N + 1
      <4>1. /\ k \in c .. N + 1 /\ l \in c .. N + 1
            /\ k \in 1 .. N + 1 /\ l \in 1 .. N + 1
        BY <1>2, <1>3, <2>1, <3>1
      <4>2. data_at[l] - data_at[k] >= l - k
        BY <1>1, <2>1, <4>1 DEF PayloadAt, DataSpaced
      <4> QED BY <1>16, <4>1, <4>2
    <3>2. CASE ~(l <= N + 1)
      <4>1. l = N + 2
        BY <1>2, <1>3, <3>2
      <4>2. CASE k = l
        <5>1. next_data[l] \in Int
          BY <1>5, <1>16, <4>1
        <5> QED BY <1>2, <4>1, <4>2, <5>1
      <4>3. CASE k # l
        <5>1. k \in c .. N + 1 /\ N + 1 \in c .. N + 1 /\ k <= N + 1 /\ k \in 1 .. N + 1
          BY <1>2, <1>3, <2>1, <4>1, <4>3
        <5>2. data_at[N + 1] - data_at[k] >= (N + 1) - k
          BY <1>1, <5>1 DEF PayloadAt, DataSpaced
        <5>3. next_data[k] = data_at[k] /\ data_at[k] \in Int
          BY <1>2, <1>16, <5>1
        <5>4. PICK last : last = data_at[N + 1]
          OBVIOUS
        <5>5. /\ last \in Int /\ last - data_at[k] >= (N + 1) - k /\ next_data[l] = last + len
          BY <1>16, <4>1, <5>2, <5>4
        <5>6. k \in Int
          BY <1>2, <5>1
        <5>7. PICK d \in Int : d = data_at[k]
          BY <5>3
        <5>8. /\ last \in Int /\ last - d >= (N + 1) - k /\ next_data[l] = last + len
              /\ next_data[k] = d
          BY <5>3, <5>5, <5>7
        <5>9. len \in Nat /\ len >= 1 /\ N \in Nat /\ l = N + 2
          BY <1>2, <1>5, <4>1
        <5>10. (last + len) - d >= (N + 2) - k
          BY <5>6, <5>7, <5>8, <5>9
        <5> QED BY <5>8, <5>9, <5>10
      <4> QED BY <4>2, <4>3
    <3> QED BY <3>1, <3>2
  <2> QED BY <2>1 DEF DataSpaced
<1> QED BY <1>17, <1>18, <1>19, <1>20, <1>22, <1>23, <1>24 DEF PayloadWay, PayloadAt

(* The items that come of the last packet are behind those that came. *)
LEMMA PayloadGoesOn ==
  ASSUME TypeOK, ComesLast, PayloadWay, NEW n \in Nat, n > 0, IngressGoesOn(n),
         UNCHANGED <<crc_vars, payload, payload_tag, mux_vars>>
  PROVE  PayloadWay'
<1>1. PICK c, payload_at, data_at : PayloadAt(c, payload_at, data_at)
  BY DEF PayloadWay
<1>2. /\ data \in Seq(Item) /\ Len(data) \in Nat
      /\ N \in Nat /\ c \in Nat /\ c >= 1 /\ c <= N + 1
      /\ \A k \in 1 .. N + 1 : data_at[k] \in Int
      /\ in_remaining \in Nat
  BY <1>1, LinkLengths, PlacesOfPackets DEF TypeOK
<1>3. /\ in_remaining > 0 /\ n <= in_remaining /\ Coming = in_remaining
      /\ Coming' = in_remaining - n
      /\ data' = data \o Items(packet, "payload", packet.len - in_remaining + 1, n, 0)
      /\ UNCHANGED <<packet, metadata, accepted>>
  BY DEF IngressGoesOn, Coming
<1>4. /\ N > 0 /\ packet = accepted[N] /\ in_remaining < packet.len /\ N \in 1 .. N
  BY <1>2, <1>3 DEF ComesLast
<1>5. PICK p : p = packet
  OBVIOUS
<1>6. PICK len : len = p.len
  OBVIOUS
<1>7. PICK came : came = len - in_remaining
  OBVIOUS
<1>8. /\ p \in Packets /\ len \in Nat /\ came \in Nat /\ came > 0 /\ came + in_remaining = len
      /\ p = accepted[N]
  <2>1. p \in Packets /\ len \in Nat
    BY <1>2, <1>4, <1>5, <1>6, LinkLengths
  <2>2. in_remaining < len /\ p = accepted[N]
    BY <1>4, <1>5, <1>6
  <2>3. \A x, y \in Nat : y < x => x - y \in Nat /\ x - y > 0 /\ (x - y) + y = x
    OBVIOUS
  <2> QED BY <1>2, <1>7, <2>1, <2>2, <2>3
<1>9. PICK start : start = came + 1
  OBVIOUS
<1>10. PICK none : none = 0
  OBVIOUS
<1>11. PICK items : items = Items(p, "payload", start, n, none)
  OBVIOUS
<1>12. items \in Seq(Item) /\ Len(items) = n
  <2>1. start \in Nat /\ start > 0 /\ none \in Nat /\ p \in Packets
    BY <1>8, <1>9, <1>10
  <2>2. Items(p, "payload", start, n, none) \in Seq(Item)
    BY <2>1, ItemsProperties
  <2>3. Len(Items(p, "payload", start, n, none)) = n
    BY <2>1, ItemsProperties
  <2> QED BY <1>11, <2>2, <2>3
<1>13. ASSUME NEW i \in 1 .. n
       PROVE  items[i] = DataItem(p, came + i)
  <2>1. items[i] = [of |-> p, part |-> "payload", place |-> start + i - 1,
                    bits |-> IF i = 1 THEN none ELSE 0]
    BY <1>11 DEF Items
  <2>2. start + i - 1 = came + i /\ came + i # 1
    BY <1>8, <1>9
  <2> QED BY <1>10, <2>1, <2>2 DEF DataItem
<1>14. /\ Len(data') = Len(data) + n
       /\ \A i \in 1 .. Len(data) : data'[i] = data[i]
       /\ \A i \in 1 .. n : data'[Len(data) + i] = items[i]
  <2>1. data' = data \o items
    BY <1>3, <1>5, <1>6, <1>7, <1>9, <1>10, <1>11
  <2>2. Len(data \o items) = Len(data) + Len(items)
    BY <1>2, <1>12, JoinProperties
  <2>3. \A i \in 1 .. Len(data) : (data \o items)[i] = data[i]
    BY <1>2, <1>12, JoinProperties
  <2>4. \A i \in 1 .. Len(items) : (data \o items)[Len(data) + i] = items[i]
    BY <1>2, <1>12, JoinProperties
  <2> QED BY <1>12, <2>1, <2>2, <2>3, <2>4
<1>15. /\ UNCHANGED <<crc_data_remaining, payload, payload_tag, accepted>>
       /\ PayloadSent' = PayloadSent /\ N' = N /\ Copied(c)' = Copied(c)
       /\ \A k : Size(accepted[k])' = Size(accepted[k])
  BY <1>3 DEF crc_vars, mux_vars, PayloadSent, N, Copied, Size
<1>16. CrcInPacket(c)'
  BY <1>1, <1>15 DEF PayloadAt, CrcInPacket
<1>17. PayloadPlaces(c, payload_at)'
  BY <1>1, <1>15 DEF PayloadAt, PayloadPlaces
<1>18. PayloadThere(c, payload_at)'
  BY <1>1, <1>15 DEF PayloadAt, PayloadThere, PayloadItem, Size
<1>19. PayloadSpaced(c, payload_at)'
  BY <1>1 DEF PayloadAt, PayloadSpaced
<1>20. /\ data_at \in [1 .. N + 1 -> Int] /\ data_at[c] = 0 - Copied(c)
       /\ \A k \in c .. N : data_at[k + 1] = data_at[k] + accepted[k].len
       /\ Len(data) = data_at[N + 1] - in_remaining
       /\ data_at[N + 1] \in Int
  <2>1. N + 1 \in 1 .. N + 1
    BY <1>2
  <2> QED BY <1>1, <1>2, <1>3, <2>1 DEF PayloadAt, DataPlaces
<1>21. DataPlaces(c, data_at)'
  <2>1. Len(data') = data_at[N + 1] - Coming'
    <3>1. PICK end \in Int : end = data_at[N + 1]
      BY <1>20
    <3>2. Len(data) = end - in_remaining /\ Len(data') = Len(data) + n
      BY <1>14, <1>20, <3>1
    <3>3. \A x \in Int : \A y, z \in Nat : (x - y) + z = x - (y - z)
      OBVIOUS
    <3>4. Len(data') = end - (in_remaining - n)
      BY <1>2, <3>1, <3>2, <3>3
    <3> QED BY <1>3, <3>1, <3>4
  <2> QED BY <1>15, <1>20, <2>1 DEF DataPlaces
<1>22. DataThere(c, data_at)'
  <2>1. ASSUME NEW k \in c .. N, NEW j \in 1 .. accepted[k].len,
               data_at[k] + j \in 1 .. Len(data')
        PROVE  data'[data_at[k] + j] = DataItem(accepted[k], j)
    <3>1. /\ k \in 1 .. N /\ k \in 1 .. N + 1 /\ accepted[k].len \in Nat /\ data_at[k] \in Int
          /\ j \in Nat /\ j >= 1 /\ j <= accepted[k].len
      <4>1. k \in 1 .. N /\ k \in 1 .. N + 1
        BY <1>2
      <4>2. accepted[k].len \in Nat
        BY <4>1, LinkLengths
      <4> QED BY <1>2, <4>1, <4>2
    <3>2. CASE data_at[k] + j <= Len(data)
      <4>1. data_at[k] + j \in 1 .. Len(data)
        BY <1>2, <2>1, <3>1, <3>2
      <4>2. data[data_at[k] + j] = DataItem(accepted[k], j)
        BY <1>1, <4>1 DEF PayloadAt, DataThere
      <4> QED BY <1>14, <4>1, <4>2
    <3>3. CASE ~(data_at[k] + j <= Len(data))
      <4>1. k = N
        <5>1. SUFFICES ASSUME k < N
                       PROVE  FALSE
          BY <1>2, <3>1
        <5>2. /\ N \in c .. N + 1 /\ N \in c .. N /\ N \in 1 .. N + 1 /\ N - (k + 1) \in Nat
          BY <1>2, <1>4, <3>1, <5>1
        <5>3. data_at[k] + accepted[k].len + (N - (k + 1)) <= data_at[N]
          BY <1>1, <5>1, <5>2, DataOrder
        <5>4. data_at[N + 1] = data_at[N] + len /\ data_at[N] \in Int
          BY <1>2, <1>6, <1>8, <1>20, <5>2
        <5>5. PICK size : size = accepted[k].len
          OBVIOUS
        <5>6. /\ size \in Nat /\ j <= size
              /\ data_at[k] + size + (N - (k + 1)) <= data_at[N]
          BY <3>1, <5>3, <5>5
        <5>7. data_at[N] < Len(data)
          BY <1>2, <1>8, <1>20, <5>4
        <5>8. PICK d \in Int : d = data_at[k]
          BY <3>1
        <5>9. PICK rest \in Nat : rest = N - (k + 1)
          BY <5>2
        <5>10. d + size + rest < Len(data) /\ ~(d + j <= Len(data))
          <6>1. PICK last \in Int : last = data_at[N]
            BY <5>4
          <6>2. d + size + rest <= last /\ last < Len(data)
            BY <5>6, <5>7, <5>8, <5>9, <6>1
          <6>3. ~(d + j <= Len(data))
            BY <3>3, <5>8
          <6>4. \A x, y, z \in Int : x <= y /\ y < z => x < z
            OBVIOUS
          <6>5. d + size + rest \in Int /\ Len(data) \in Int
            BY <1>2, <5>6, <5>8, <5>9
          <6> QED BY <6>1, <6>2, <6>3, <6>4, <6>5
        <5> QED BY <1>2, <3>1, <5>6, <5>8, <5>9, <5>10
      <4>2. data_at[N + 1] = data_at[N] + len
        <5>1. N \in c .. N
          BY <4>1
        <5> QED BY <1>6, <1>8, <1>20, <5>1
      <4>3. Len(data) = data_at[N] + came
        <5>1. /\ data_at[N] \in Int /\ Len(data) = (data_at[N] + len) - in_remaining
          BY <1>20, <3>1, <4>1, <4>2
        <5>2. PICK d : d = data_at[N]
          OBVIOUS
        <5>3. d \in Int /\ Len(data) = (d + len) - in_remaining
          BY <5>1, <5>2
        <5>4. /\ came \in Nat /\ in_remaining \in Nat /\ len \in Nat
              /\ came + in_remaining = len
          BY <1>2, <1>8
        <5>5. Len(data) = d + came
          BY <5>3, <5>4
        <5> QED BY <5>2, <5>5
      <4>4. PICK i : i = j - came
        OBVIOUS
      <4>5. i \in 1 .. n /\ came + i = j /\ data_at[k] + j = Len(data) + i
        <5>1. PICK d \in Int : d = data_at[k]
          BY <3>1
        <5>2. Len(data) = d + came /\ Len(data') = Len(data) + n /\ Len(data) \in Nat
          BY <1>2, <1>14, <4>1, <4>3, <5>1
        <5>3. j \in Nat /\ came \in Nat /\ n \in Nat
          BY <1>8, <3>1
        <5>4. d + j \in 1 .. Len(data') /\ ~(d + j <= Len(data))
          BY <2>1, <3>3, <5>1
        <5>5. j <= came + n /\ j > came
          BY <5>2, <5>3, <5>4
        <5>6. i \in 1 .. n /\ came + i = j /\ d + j = Len(data) + i
          BY <4>4, <5>2, <5>3, <5>5
        <5> QED BY <5>1, <5>6
      <4> QED BY <1>8, <1>13, <1>14, <4>1, <4>5
    <3> QED BY <3>2, <3>3
  <2> QED BY <1>15, <2>1 DEF DataThere, DataItem
<1>23. DataSpaced(c, data_at)'
  BY <1>1, <1>15 DEF PayloadAt, DataSpaced
<1> QED BY <1>16, <1>17, <1>18, <1>19, <1>21, <1>22, <1>23 DEF PayloadWay, PayloadAt

(* A call of PacketIngress finds room for its message, and keeps the       *)
(* invariant.                                                              *)
LEMMA IngressInv ==
  ASSUME Inv, NEW length \in Lengths, NEW n \in 1 .. DataCapacity, Ingress(length, n)
  PROVE  Inv'
<1>1. /\ NoBlockFails /\ TypeOK /\ MuxInPacket /\ ComesLast /\ HeaderWay /\ PayloadWay
  BY DEF Inv, NoBlockFails
<1>2. /\ in_failed' = in_failed /\ Len(data) + n <= DataCapacity
      /\ UNCHANGED <<crc_vars, plain, headers, payload, payload_tag, mux_vars, out>>
      /\ IngressOpens(length, n) \/ IngressGoesOn(n) \/ IngressDrops
  BY IngressEffect
<1>3. /\ UNCHANGED <<plain, headers, payload, payload_tag, out, in_failed,
                     crc_data_remaining, crc_failed,
                     mux_packet_lens, mux_current_input, mux_remaining, mux_failed>>
  BY <1>2 DEF crc_vars, mux_vars
<1>4. /\ length \in Nat /\ length > 0 /\ n \in Nat /\ n > 0 /\ N \in Nat
      /\ in_remaining \in Nat /\ in_valid \in BOOLEAN /\ packet \in Packets
      /\ data \in Seq(Item) /\ Len(data) \in Nat
      /\ metadata \in Seq(Packets) /\ Len(metadata) \in Nat /\ accepted \in Seq(Packets)
      /\ Len(metadata) <= MetadataCapacity /\ Len(data) <= DataCapacity
      /\ MetadataCapacity \in Nat /\ DataCapacity \in Nat
  BY <1>1, LinkLengths, Sizes DEF TypeOK
<1>5. CASE IngressOpens(length, n)
  <2>1. PICK p : p = [id |-> NextId, len |-> length]
    OBVIOUS
  <2>2. /\ in_remaining = 0 /\ n <= length /\ in_remaining' = length - n /\ in_valid' = TRUE
        /\ packet' = p /\ data' = data \o Items(p, "payload", 1, n, length)
        /\ metadata' = Append(metadata, p) /\ accepted' = Append(accepted, p)
    BY <1>5, <2>1 DEF IngressOpens
  <2>3. NextId \in Ids
    <3>1. packet.id \in 1 .. NumIds /\ NumIds \in Nat /\ NumIds > 0
      BY <1>4, Sizes DEF Packets, Ids
    <3>2. \A x, y \in Nat : y > 0 => (x % y) + 1 \in 1 .. y
      OBVIOUS
    <3> QED BY <3>1, <3>2 DEF NextId, Ids
  <2>4. p \in Packets /\ p.len = length
    BY <2>1, <2>3 DEF Packets
  <2>5. HeaderWay'
    BY <1>1, <1>2, <2>2, <2>4, HeadersOpen
  <2>6. PayloadWay'
    BY <1>1, <1>2, <1>4, <2>2, <2>4, PayloadOpens
  <2>7. /\ N' = N + 1 /\ accepted' \in Seq(Packets)
        /\ \A k \in 1 .. N : accepted'[k] = accepted[k]
        /\ accepted'[N + 1] = p
    BY <1>4, <2>2, <2>4, AppendProperties DEF N
  <2>8. MuxInPacket'
    <3>1. CASE mux_packet_lens = <<>>
      BY <1>3, <3>1 DEF MuxInPacket
    <3>2. CASE mux_packet_lens # <<>>
      <4>1. /\ N > 0 /\ mux_packet_lens = <<HeaderSize, Size(accepted[1])>>
            /\ mux_current_input \in {1, 2}
            /\ mux_remaining \in 1 .. mux_packet_lens[mux_current_input]
            /\ HeaderSent > 0
        BY <1>1, <3>2 DEF MuxInPacket
      <4>2. 1 \in 1 .. N /\ N' > 0
        BY <1>4, <2>7, <4>1
      <4>3. accepted'[1] = accepted[1]
        BY <2>7, <4>2
      <4>4. HeaderSent' = HeaderSent
        BY <1>3 DEF HeaderSent
      <4> QED BY <1>3, <4>1, <4>2, <4>3, <4>4 DEF MuxInPacket, Size
    <3> QED BY <3>1, <3>2
  <2>9. ComesLast'
    <3>1. Coming' = length - n
      BY <2>2 DEF Coming
    <3>2. N' > 0 /\ packet' = accepted'[N'] /\ Coming' < packet'.len
      BY <1>4, <2>2, <2>4, <2>7, <3>1
    <3> QED BY <3>2 DEF ComesLast
  <2>10. data' \in Seq(Item) /\ Len(data') <= DataCapacity
    <3>0. /\ p \in Packets /\ n \in Nat /\ length \in Nat /\ 1 \in Nat /\ 1 > 0
          /\ "payload" \in {"header", "payload", "crc"}
      BY <1>4, <2>4
    <3>1. Items(p, "payload", 1, n, length) \in Seq(Item)
      BY <3>0, ItemsProperties
    <3>2. Len(Items(p, "payload", 1, n, length)) = n
      BY <3>0, ItemsProperties
    <3>3. PICK items : items = Items(p, "payload", 1, n, length)
      OBVIOUS
    <3>4. data \o items \in Seq(Item) /\ Len(data \o items) = Len(data) + Len(items)
      BY <1>4, <3>1, <3>3, JoinProperties
    <3> QED BY <1>2, <2>2, <3>2, <3>3, <3>4
  <2>11. metadata' \in Seq(Packets) /\ Len(metadata') <= MetadataCapacity
    <3>1. Len(metadata) < MetadataCapacity
      BY RoomForMessage
    <3>2. metadata' \in Seq(Packets) /\ Len(metadata') = Len(metadata) + 1
      BY <1>4, <2>2, <2>4, AppendProperties
    <3> QED BY <1>4, <3>1, <3>2
  <2>12. in_remaining' \in Nat
    BY <1>4, <2>2
  <2>13. TypeOK'
    BY <1>1, <1>3, <2>2, <2>4, <2>7, <2>10, <2>11, <2>12 DEF TypeOK
  <2> QED BY <1>1, <1>3, <2>5, <2>6, <2>8, <2>9, <2>13 DEF Inv, NoBlockFails
<1>6. CASE IngressGoesOn(n)
  <2>1. /\ in_remaining > 0 /\ n <= in_remaining /\ in_valid = TRUE
        /\ in_remaining' = in_remaining - n /\ in_valid' = TRUE
        /\ data' = data \o Items(packet, "payload", packet.len - in_remaining + 1, n, 0)
        /\ UNCHANGED <<packet, metadata, accepted>>
    BY <1>6 DEF IngressGoesOn
  <2>2. HeaderWay'
    BY <1>1, <1>2, <2>1, HeadersStay DEF header_vars
  <2>3. PayloadWay'
    BY <1>1, <1>2, <1>4, <1>6, PayloadGoesOn
  <2>4. MuxInPacket'
    BY <1>1, <1>2, <2>1, MuxStays
  <2>5. Coming = in_remaining /\ Coming' = in_remaining - n /\ N' = N
    BY <2>1 DEF Coming, N
  <2>6. N > 0 /\ packet = accepted[N] /\ in_remaining < packet.len
    BY <1>1, <2>1, <2>5 DEF ComesLast
  <2>7. packet.len \in Nat
    BY <1>4, PacketSizes
  <2>8. ComesLast'
    <3>1. Coming' < packet.len
      <4>1. PICK len \in Nat : len = packet.len
        BY <2>7
      <4>2. in_remaining < len /\ n <= in_remaining
        BY <2>1, <2>6, <4>1
      <4> QED BY <1>4, <2>5, <4>1, <4>2
    <3> QED BY <2>1, <2>5, <2>6, <3>1 DEF ComesLast
  <2>9. data' \in Seq(Item) /\ Len(data') <= DataCapacity
    <3>1. PICK start : start = packet.len - in_remaining + 1
      OBVIOUS
    <3>2. PICK none : none = 0
      OBVIOUS
    <3>3. start \in Nat /\ start > 0 /\ none \in Nat
      <4>1. PICK len \in Nat : len = packet.len
        BY <2>7
      <4>2. \A x, y \in Nat : y < x => x - y + 1 \in Nat /\ x - y + 1 > 0
        OBVIOUS
      <4>3. in_remaining < len /\ start = len - in_remaining + 1
        BY <2>6, <3>1, <4>1
      <4> QED BY <1>4, <3>2, <4>1, <4>2, <4>3
    <3>4. Items(packet, "payload", start, n, none) \in Seq(Item)
      BY <1>4, <3>3, ItemsProperties
    <3>5. Len(Items(packet, "payload", start, n, none)) = n
      BY <1>4, <3>3, ItemsProperties
    <3>6. PICK items : items = Items(packet, "payload", start, n, none)
      OBVIOUS
    <3>7. data \o items \in Seq(Item) /\ Len(data \o items) = Len(data) + Len(items)
      BY <1>4, <3>4, <3>6, JoinProperties
    <3> QED BY <1>2, <2>1, <3>1, <3>2, <3>5, <3>6, <3>7
  <2>10. in_remaining' \in Nat
    BY <1>4, <2>1
  <2>11. TypeOK'
    BY <1>1, <1>3, <2>1, <2>9, <2>10 DEF TypeOK
  <2> QED BY <1>1, <1>3, <2>2, <2>3, <2>4, <2>8, <2>11 DEF Inv, NoBlockFails
<1>7. CASE IngressDrops
  <2>1. /\ in_remaining = 0 \/ in_valid = FALSE
        /\ in_remaining' \in Nat /\ in_valid' = FALSE /\ packet' \in Packets
        /\ UNCHANGED <<data, metadata, accepted>>
    BY <1>7 DEF IngressDrops
  <2>2. Coming = 0 /\ Coming' = 0
    BY <2>1 DEF Coming
  <2>3. HeaderWay'
    BY <1>1, <1>2, <2>1, HeadersStay DEF header_vars
  <2>4. PayloadWay'
    BY <1>1, <1>2, <2>1, <2>2, PayloadStays
  <2>5. MuxInPacket'
    BY <1>1, <1>2, <2>1, MuxStays
  <2>6. ComesLast'
    BY <2>2 DEF ComesLast
  <2>7. TypeOK'
    BY <1>1, <1>3, <2>1 DEF TypeOK
  <2> QED BY <1>1, <1>3, <2>3, <2>4, <2>5, <2>6, <2>7 DEF Inv, NoBlockFails
<1> QED BY <1>2, <1>5, <1>6, <1>7

-----------------------------------------------------------------------------
(* The invariant holds when all links are empty.                           *)
LEMMA InitInv == Init => Inv
<1>1. SUFFICES ASSUME Init
               PROVE  Inv
  OBVIOUS
<1>2. /\ in_remaining = 0 /\ in_valid \in BOOLEAN /\ in_failed = FALSE
      /\ crc_data_remaining = 0 /\ crc_failed = FALSE
      /\ mux_packet_lens = <<>> /\ mux_remaining = 0 /\ mux_failed = FALSE
      /\ metadata = <<>> /\ data = <<>> /\ headers = <<>> /\ payload = <<>>
      /\ plain = <<>> /\ payload_tag = 0 /\ out = <<>> /\ accepted = <<>>
  BY <1>1 DEF Init, ING!Init, CRC!Init, MUX!Init
<1>3. mux_current_input \in 1 .. 3
  BY <1>1 DEF Init, MUX!Init
<1>4. packet \in Packets
  <2>1. (CHOOSE len \in Lengths : TRUE) \in Lengths
    BY AssemblyAssumption
  <2>2. NumIds \in Ids
    BY Sizes DEF Ids
  <2> QED BY <1>1, <2>1, <2>2 DEF Init, Packets
<1>5. /\ Len(metadata) = 0 /\ Len(data) = 0 /\ Len(headers) = 0 /\ Len(payload) = 0
      /\ Len(plain) = 0 /\ N = 0
  BY <1>2 DEF N
<1>6. TypeOK
  <2>1. in_remaining \in Nat /\ crc_data_remaining \in Nat /\ mux_remaining \in Nat
        /\ payload_tag \in Nat /\ {in_valid, in_failed, crc_failed, mux_failed} \subseteq BOOLEAN
    BY <1>2
  <2>2. /\ metadata \in Seq(Packets) /\ plain \in Seq(Packets) /\ accepted \in Seq(Packets)
        /\ data \in Seq(Item) /\ headers \in Seq(Item) /\ payload \in Seq(Item)
        /\ out \in Seq(Item)
    <3>1. \A S : <<>> \in Seq(S)
      OBVIOUS
    <3> QED BY <1>2, <3>1
  <2> QED BY <1>2, <1>3, <1>4, <1>5, <2>1, <2>2, Sizes DEF TypeOK
<1>7. MuxInPacket /\ ComesLast /\ HeaderSent = 0 /\ PayloadSent = 0 /\ Coming = 0
  BY <1>2 DEF MuxInPacket, ComesLast, HeaderSent, PayloadSent, Coming
<1>8. PICK at : at = [k \in 1 .. 1 |-> 0]
  OBVIOUS
<1>9. at \in [1 .. N + 1 -> Int] /\ at[1] = 0
  BY <1>5, <1>8
<1>10. HeaderWay
  <2>1. HeaderPlaces(0, at)
    BY <1>5, <1>7, <1>9 DEF HeaderPlaces
  <2>2. HeadersThere(0, at)
    BY DEF HeadersThere
  <2>3. MessagesThere(0)
    BY <1>5 DEF MessagesThere
  <2> QED BY <2>1, <2>2, <2>3 DEF HeaderWay, HeadersAt
<1>11. PayloadWay
  <2>1. Copied(1) = 0 /\ CrcInPacket(1)
    BY <1>2, <1>5 DEF Copied, CrcInPacket
  <2>2. PayloadPlaces(1, at)
    BY <1>5, <1>7, <1>9, <2>1 DEF PayloadPlaces
  <2>3. PayloadThere(1, at)
    BY <1>5 DEF PayloadThere
  <2>4. PayloadSpaced(1, at)
    <3>1. ASSUME NEW k \in 1 .. 1, NEW l \in 1 .. 1
          PROVE  at[l] - at[k] >= (l - k) * (CrcSize + 1)
      <4>1. k = 1 /\ l = 1 /\ 1 - 1 = 0
        OBVIOUS
      <4>2. \A x \in Nat : 0 * x = 0
        OBVIOUS
      <4>3. CrcSize + 1 \in Nat
        BY Sizes
      <4> QED BY <1>9, <4>1, <4>2, <4>3
    <3> QED BY <3>1 DEF PayloadSpaced
  <2>5. DataPlaces(1, at)
    BY <1>5, <1>7, <1>9, <2>1 DEF DataPlaces
  <2>6. DataThere(1, at)
    BY <1>5 DEF DataThere
  <2>7. DataSpaced(1, at)
    BY <1>5, <1>9 DEF DataSpaced
  <2> QED BY <2>1, <2>2, <2>3, <2>4, <2>5, <2>6, <2>7 DEF PayloadWay, PayloadAt
<1> QED BY <1>2, <1>6, <1>7, <1>10, <1>11 DEF Inv, NoBlockFails

(* Every call keeps the invariant, and so does a stutter.                  *)
LEMMA NextInv ==
  ASSUME ~EmptySpans, Inv, [Next]_vars
  PROVE  Inv'
<1>1. CASE IngressStep
  BY <1>1, IngressInv DEF IngressStep
<1>2. CASE FormatStep
  BY <1>2, FormatInv DEF FormatStep
<1>3. CASE Encode
  BY <1>3, EncodeInv
<1>4. CASE CrcStep
  BY <1>4, CrcInv DEF CrcStep
<1>5. CASE MuxStep
  BY <1>5, MuxInv DEF MuxStep
<1>6. CASE UNCHANGED vars
  <2>1. UNCHANGED <<in_vars, header_vars, data, crc_vars, payload, payload_tag, mux_vars,
                    out, accepted>>
    BY <1>6 DEF vars
  <2>2. UNCHANGED <<in_remaining, in_valid, in_failed, packet, metadata, plain, headers, data,
                    crc_data_remaining, crc_failed, payload, payload_tag, out, accepted,
                    mux_packet_lens, mux_current_input, mux_remaining, mux_failed>>
    BY <2>1 DEF in_vars, header_vars, crc_vars, mux_vars
  <2>3. TypeOK /\ MuxInPacket /\ ComesLast /\ HeaderWay /\ PayloadWay
    BY DEF Inv, NoBlockFails
  <2>4. TypeOK'
    BY <2>2, <2>3 DEF TypeOK
  <2>5. MuxInPacket' /\ ComesLast' /\ Coming' = Coming
    BY <2>1, <2>3, MuxStays, IngressStays
  <2>6. HeaderWay' /\ PayloadWay'
    BY <2>1, <2>3, <2>5, HeadersStay, PayloadStays
  <2> QED BY <2>2, <2>4, <2>5, <2>6 DEF Inv, NoBlockFails
<1> QED BY <1>1, <1>2, <1>3, <1>4, <1>5, <1>6 DEF Next

(* Whatever the sizes, the lengths and the calls, the items of the         *)
(* accepted packets are where Inv says, when CrcAppend gets items and      *)
(* space in its calls.                                                     *)
THEOREM AssemblyInv == ASSUME ~EmptySpans PROVE Spec => []Inv
<1>1. Init => Inv
  BY InitInv
<1>2. Inv /\ [Next]_vars => Inv'
  BY NextInv
<1> QED BY <1>1, <1>2, PTL DEF Spec

(* No block fails: the multiplexer finds lengths that are of one packet,   *)
(* CrcAppend a length and room, and PacketIngress room for its message.    *)
THEOREM NoBlockFailsHolds == ASSUME ~EmptySpans PROVE Spec => []NoBlockFails
<1>1. Inv => NoBlockFails
  BY DEF Inv
<1> QED BY <1>1, AssemblyInv, PTL


-----------------------------------------------------------------------------
(* What leaves is what PacketFraming says: a call of Mux sends the next    *)
(* items of the frame of the first packet.                                 *)

(* Item i of the frame of a packet. *)
FrameItem(p, i) ==
  [of |-> p,
   part |-> IF i <= HeaderSize THEN "header"
            ELSE IF i - HeaderSize <= p.len THEN "payload" ELSE "crc",
   place |-> IF i <= HeaderSize THEN i
             ELSE IF i - HeaderSize <= p.len THEN i - HeaderSize ELSE i - HeaderSize - p.len,
   bits |-> IF i = 1 THEN FrameSize(p) ELSE 0]

(* The items of a part of a frame. *)
LEMMA PartProperties ==
  ASSUME NEW p \in Packets, NEW part \in {"header", "payload", "crc"}, NEW size \in Nat
  PROVE  /\ Framing!Part(p, part, size) \in Seq(Item)
         /\ Len(Framing!Part(p, part, size)) = size
         /\ \A i \in 1 .. size :
              Framing!Part(p, part, size)[i] = [of |-> p, part |-> part, place |-> i, bits |-> 0]
<1>1. \A i \in 1 .. size : [of |-> p, part |-> part, place |-> i, bits |-> 0] \in Item
  BY DEF Item
<1>2. Framing!Part(p, part, size) \in [1 .. size -> Item]
  BY <1>1 DEF Framing!Part
<1>3. \A i \in 1 .. size :
        Framing!Part(p, part, size)[i] = [of |-> p, part |-> part, place |-> i, bits |-> 0]
  BY DEF Framing!Part
<1> QED BY <1>2, <1>3, FunctionIsSeq

(* The items of a frame. *)
LEMMA FrameProperties ==
  ASSUME NEW p \in Packets
  PROVE  /\ Framing!Frame(p) \in Seq(Item) /\ Len(Framing!Frame(p)) = FrameSize(p)
         /\ \A i \in 1 .. FrameSize(p) : Framing!Frame(p)[i] = FrameItem(p, i)
<1>1. PICK h : h = Framing!Part(p, "header", HeaderSize)
  OBVIOUS
<1>2. PICK f : f = Framing!Part(p, "payload", p.len)
  OBVIOUS
<1>3. PICK c : c = Framing!Part(p, "crc", CrcSize)
  OBVIOUS
<1>4. PICK len \in Nat : len = p.len
  BY PacketSizes
<1>5. /\ HeaderSize \in Nat /\ HeaderSize > 0 /\ CrcSize \in Nat /\ CrcSize > 0
  BY Sizes
<1>6. /\ h \in Seq(Item) /\ Len(h) = HeaderSize
      /\ \A i \in 1 .. HeaderSize : h[i] = [of |-> p, part |-> "header", place |-> i, bits |-> 0]
  BY <1>1, <1>5, PartProperties
<1>7. /\ f \in Seq(Item) /\ Len(f) = len
      /\ \A i \in 1 .. len : f[i] = [of |-> p, part |-> "payload", place |-> i, bits |-> 0]
  BY <1>2, <1>4, PartProperties
<1>8. /\ c \in Seq(Item) /\ Len(c) = CrcSize
      /\ \A i \in 1 .. CrcSize : c[i] = [of |-> p, part |-> "crc", place |-> i, bits |-> 0]
  BY <1>3, <1>5, PartProperties
<1>9. PICK m : m = h \o f
  OBVIOUS
<1>10. /\ m \in Seq(Item) /\ Len(m) = HeaderSize + len
       /\ \A i \in 1 .. HeaderSize : m[i] = h[i]
       /\ \A i \in 1 .. len : m[HeaderSize + i] = f[i]
  <2>1. h \in Seq(Item) /\ f \in Seq(Item) /\ Len(h) = HeaderSize /\ Len(f) = len
    BY <1>6, <1>7
  <2>2. m \in Seq(Item) /\ Len(m) = HeaderSize + len
    BY <1>9, <2>1, JoinProperties
  <2>3. \A i \in 1 .. HeaderSize : m[i] = h[i]
    BY <1>9, <2>1, JoinProperties
  <2>4. \A i \in 1 .. len : m[HeaderSize + i] = f[i]
    BY <1>9, <2>1, JoinProperties
  <2> QED BY <2>2, <2>3, <2>4
<1>11. PICK all : all = m \o c
  OBVIOUS
<1>12. /\ all \in Seq(Item) /\ Len(all) = HeaderSize + len + CrcSize
       /\ \A i \in 1 .. HeaderSize + len : all[i] = m[i]
       /\ \A i \in 1 .. CrcSize : all[HeaderSize + len + i] = c[i]
  <2>1. m \in Seq(Item) /\ c \in Seq(Item) /\ Len(m) = HeaderSize + len /\ Len(c) = CrcSize
    BY <1>8, <1>10
  <2>2. all \in Seq(Item) /\ Len(all) = HeaderSize + len + CrcSize
    BY <1>11, <2>1, JoinProperties
  <2>3. \A i \in 1 .. HeaderSize + len : all[i] = m[i]
    BY <1>11, <2>1, JoinProperties
  <2>4. \A i \in 1 .. CrcSize : all[HeaderSize + len + i] = c[i]
    BY <1>11, <2>1, JoinProperties
  <2> QED BY <2>2, <2>3, <2>4
<1>13. FrameSize(p) = HeaderSize + len + CrcSize /\ FrameSize(p) \in Nat
  BY <1>4, <1>5 DEF FrameSize, Size
<1>14. Framing!Frame(p) = [all EXCEPT ![1].bits = FrameSize(p)]
  BY <1>1, <1>2, <1>3, <1>9, <1>11, <1>12, <1>13 DEF Framing!Frame
<1>15. DOMAIN all = 1 .. FrameSize(p)
  BY <1>12, <1>13, LenProperties
<1>16. \A i \in 1 .. FrameSize(p) : Framing!Frame(p)[i] = FrameItem(p, i)
  <2>1. SUFFICES ASSUME NEW i \in 1 .. FrameSize(p)
                 PROVE  Framing!Frame(p)[i] = FrameItem(p, i)
    OBVIOUS
  <2>2. i \in Nat /\ i > 0
    BY <1>13
  <2>3. Framing!Frame(p)[i]
          = IF i = 1 THEN [all[1] EXCEPT !.bits = FrameSize(p)] ELSE all[i]
    BY <1>14, <1>15
  <2>4. CASE i <= HeaderSize
    <3>1. i \in 1 .. HeaderSize /\ i \in 1 .. HeaderSize + len
      BY <1>4, <1>5, <2>2, <2>4
    <3>2. all[i] = h[i]
      BY <1>10, <1>12, <3>1
    <3>3. all[i] = [of |-> p, part |-> "header", place |-> i, bits |-> 0]
      BY <1>6, <3>1, <3>2
    <3> QED BY <2>3, <2>4, <3>3 DEF FrameItem
  <2>5. CASE i > HeaderSize /\ i - HeaderSize <= len
    <3>1. i - HeaderSize \in 1 .. len /\ HeaderSize + (i - HeaderSize) = i
          /\ i \in 1 .. HeaderSize + len /\ i # 1
      BY <1>5, <2>2, <2>5
    <3>2. all[i] = f[i - HeaderSize]
      BY <1>10, <1>12, <3>1
    <3>3. all[i] = [of |-> p, part |-> "payload", place |-> i - HeaderSize, bits |-> 0]
      BY <1>7, <3>1, <3>2
    <3> QED BY <1>4, <1>5, <2>2, <2>3, <2>5, <3>1, <3>3 DEF FrameItem
  <2>6. CASE i - HeaderSize > len
    <3>1. /\ i - HeaderSize - len \in 1 .. CrcSize /\ i # 1 /\ ~(i <= HeaderSize)
          /\ HeaderSize + len + (i - HeaderSize - len) = i
      BY <1>4, <1>5, <1>13, <2>2, <2>6
    <3>2. all[i] = c[i - HeaderSize - len]
      BY <1>12, <3>1
    <3>3. all[i] = [of |-> p, part |-> "crc", place |-> i - HeaderSize - len, bits |-> 0]
      BY <1>8, <3>1, <3>2
    <3>4. ~(i - HeaderSize <= len)
      BY <1>4, <1>5, <2>2, <2>6
    <3> QED BY <1>4, <2>3, <3>1, <3>3, <3>4 DEF FrameItem
  <2> QED BY <1>4, <1>5, <2>2, <2>4, <2>5, <2>6
<1>17. Framing!Frame(p) \in [1 .. FrameSize(p) -> Item]
  <2>1. \A i \in 1 .. FrameSize(p) : all[i] \in Item
    BY <1>12, <1>13, <1>15, ElementOfSeq
  <2>2. 1 \in 1 .. FrameSize(p)
    BY <1>4, <1>5, <1>13
  <2>3. [all[1] EXCEPT !.bits = FrameSize(p)] \in Item
    BY <1>13, <2>1, <2>2 DEF Item
  <2> QED BY <1>14, <1>15, <2>1, <2>3
<1> QED BY <1>13, <1>16, <1>17, FunctionIsSeq

(* The items that a call of Mux copies are the next of the frame.          *)
LEMMA MuxSends ==
  ASSUME Inv, NEW a \in Nat, NEW b \in Nat, a + b > 0, MuxMoves(a, b)
  PROVE  /\ N > 0 /\ accepted[1] \in Packets
         /\ Sent \in Nat /\ Sent + (a + b) <= FrameSize(accepted[1])
         /\ out' = SubSeq(Framing!Frame(accepted[1]), Sent + 1, Sent + (a + b))
<1>1. TypeOK /\ MuxInPacket /\ HeaderWay /\ PayloadWay
  BY DEF Inv, NoBlockFails
<1>2. PICK p \in Packets : N > 0 /\ p = accepted[1]
  BY <1>1, SentSizes DEF MuxMoves
<1>3. /\ a \in 0 .. Len(headers) /\ b \in 0 .. Len(payload)
      /\ a <= HeaderSize - HeaderSent /\ b <= Size(p) - PayloadSent
      /\ b > 0 => a = HeaderSize - HeaderSent
  BY <1>2 DEF MuxMoves
<1>4. /\ HeaderSent \in Nat /\ HeaderSent <= HeaderSize
      /\ PayloadSent \in Nat
      /\ Sent = HeaderSent + PayloadSent
      /\ PayloadSent > 0 => HeaderSent = HeaderSize
      /\ mux_packet_lens = <<>> => HeaderSent = 0 /\ PayloadSent = 0
  BY <1>1, SentSizes
<1>5. mux_packet_lens # <<>> => HeaderSent > 0
  BY <1>1 DEF MuxInPacket
<1>6. /\ HeaderSize \in Nat /\ HeaderSize > 0
      /\ Size(p) \in Nat /\ FrameSize(p) \in Nat /\ FrameSize(p) = HeaderSize + Size(p)
  BY Sizes, PacketSizes
<1>7. Sent \in Nat /\ Sent + (a + b) <= FrameSize(p)
  BY <1>3, <1>4, <1>6
<1>8. PICK items : items = SubSeq(headers, 1, a) \o SubSeq(payload, 1, b)
  OBVIOUS
<1>9. /\ items \in Seq(Item) /\ Len(items) = a + b
      /\ \A i \in 1 .. a : items[i] = headers[i]
      /\ \A i \in 1 .. b : items[a + i] = payload[i]
  <2>1. /\ SubSeq(headers, 1, a) \in Seq(Item) /\ Len(SubSeq(headers, 1, a)) = a
        /\ \A i \in 1 .. a : SubSeq(headers, 1, a)[i] = headers[i]
    BY <1>1, <1>3, LinkLengths, FrontProperties
  <2>2. /\ SubSeq(payload, 1, b) \in Seq(Item) /\ Len(SubSeq(payload, 1, b)) = b
        /\ \A i \in 1 .. b : SubSeq(payload, 1, b)[i] = payload[i]
    BY <1>1, <1>3, LinkLengths, FrontProperties
  <2>3. PICK h, f : h = SubSeq(headers, 1, a) /\ f = SubSeq(payload, 1, b)
    OBVIOUS
  <2>4. h \in Seq(Item) /\ f \in Seq(Item) /\ Len(h) = a /\ Len(f) = b /\ items = h \o f
    BY <1>8, <2>1, <2>2, <2>3
  <2>5. items \in Seq(Item) /\ Len(items) = a + b
    BY <2>4, JoinProperties
  <2>6. \A i \in 1 .. a : items[i] = h[i]
    BY <2>4, JoinProperties
  <2>7. \A i \in 1 .. b : items[a + i] = f[i]
    BY <2>4, JoinProperties
  <2> QED BY <2>1, <2>2, <2>3, <2>5, <2>6, <2>7
<1>10. out' = [i \in 1 .. a + b |->
                [items[i] EXCEPT !.bits =
                   IF i = 1 /\ mux_packet_lens = <<>> THEN FrameSize(p) ELSE 0]]
  <2>1. items # <<>> /\ DOMAIN items = 1 .. a + b
    BY <1>9, LenProperties, EmptyLength
  <2> QED BY <1>2, <1>8, <2>1 DEF MuxMoves
<1>11. \A i \in 1 .. a + b : out'[i] = FrameItem(p, Sent + i)
  <2>1. SUFFICES ASSUME NEW i \in 1 .. a + b
                 PROVE  out'[i] = FrameItem(p, Sent + i)
    OBVIOUS
  <2>2. i \in Nat /\ i > 0
    OBVIOUS
  <2>3. out'[i] = [items[i] EXCEPT !.bits =
                     IF i = 1 /\ mux_packet_lens = <<>> THEN FrameSize(p) ELSE 0]
    BY <1>10
  <2>4. Sent + i = 1 <=> i = 1 /\ mux_packet_lens = <<>>
    BY <1>4, <1>5, <2>2
  <2>5. CASE i <= a
    <3>1. PayloadSent = 0 /\ Sent = HeaderSent
      BY <1>3, <1>4, <1>6, <2>2, <2>5
    <3>2. items[i] = HeaderItem(p, HeaderSent + i)
      <4>1. i <= Len(headers) /\ i <= HeaderSize - HeaderSent /\ i \in 1 .. a
        BY <1>3, <1>1, <1>4, <1>6, <2>2, <2>5, LinkLengths
      <4> QED BY <1>1, <1>2, <1>9, <2>2, <4>1, FrontOfLinks
    <3>3. HeaderSent + i <= HeaderSize
      BY <1>3, <1>4, <1>6, <2>2, <2>5
    <3>4. out'[i] = [of |-> p, part |-> "header", place |-> HeaderSent + i,
                     bits |-> IF Sent + i = 1 THEN FrameSize(p) ELSE 0]
      BY <2>3, <2>4, <3>2 DEF HeaderItem
    <3> QED BY <3>1, <3>3, <3>4 DEF FrameItem
  <2>6. CASE i > a
    <3>1. PICK j \in Nat : j = i - a
      BY <2>2, <2>6
    <3>2. j > 0 /\ j <= b /\ j \in 1 .. b /\ i = a + j
      BY <2>2, <2>6, <3>1
    <3>3. Sent + i = HeaderSize + (PayloadSent + j) /\ a = HeaderSize - HeaderSent
      BY <1>3, <1>4, <1>6, <3>1, <3>2
    <3>4. items[i] = PayloadItem(p, PayloadSent + j)
      <4>1. Len(payload) \in Nat
        BY <1>1, LinkLengths
      <4>2. b \in Nat /\ b <= Len(payload) /\ b <= Size(p) - PayloadSent
        BY <1>3, <4>1
      <4>3. \A x, y, z \in Int : x <= y /\ y <= z => x <= z
        OBVIOUS
      <4>4. Size(p) - PayloadSent \in Int
        BY <1>4, <1>6
      <4>5. j <= Len(payload) /\ j <= Size(p) - PayloadSent
        BY <3>1, <3>2, <4>1, <4>2, <4>3, <4>4
      <4> QED BY <1>1, <1>2, <1>9, <3>1, <3>2, <4>5, FrontOfLinks
    <3>5. Sent + i # 1 /\ ~(Sent + i <= HeaderSize) /\ (Sent + i) - HeaderSize = PayloadSent + j
      BY <1>4, <1>6, <3>1, <3>2, <3>3
    <3>6. PICK q : q = PayloadSent + j
      OBVIOUS
    <3>7. /\ items[i] = PayloadItem(p, q)
          /\ ~(Sent + i <= HeaderSize) /\ (Sent + i) - HeaderSize = q /\ Sent + i # 1
      BY <3>4, <3>5, <3>6
    <3>8. out'[i] = [items[i] EXCEPT !.bits = 0]
      BY <2>3, <2>4, <3>7
    <3>9. out'[i] = [of |-> p,
                     part |-> IF q <= p.len THEN "payload" ELSE "crc",
                     place |-> IF q <= p.len THEN q ELSE q - p.len,
                     bits |-> 0]
      BY <3>7, <3>8 DEF PayloadItem
    <3>10. FrameItem(p, Sent + i)
             = [of |-> p,
                part |-> IF q <= p.len THEN "payload" ELSE "crc",
                place |-> IF q <= p.len THEN q ELSE q - p.len,
                bits |-> 0]
      BY <3>7 DEF FrameItem
    <3> QED BY <3>9, <3>10
  <2> QED BY <2>2, <2>5, <2>6
<1>12. SubSeq(Framing!Frame(p), Sent + 1, Sent + (a + b))
         = [i \in 1 .. a + b |-> FrameItem(p, Sent + i)]
  <2>1. PICK frame : frame = Framing!Frame(p)
    OBVIOUS
  <2>2. /\ frame \in Seq(Item) /\ Len(frame) = FrameSize(p)
        /\ \A i \in 1 .. FrameSize(p) : frame[i] = FrameItem(p, i)
    BY <2>1, FrameProperties
  <2>3. PICK first \in Nat, last \in Nat : first = Sent + 1 /\ last = Sent + (a + b)
    BY <1>7
  <2>4. PICK part : part = SubSeq(frame, first, last)
    OBVIOUS
  <2>5. first <= last /\ (last - first) + 1 = a + b /\ first > 0 /\ last <= FrameSize(p)
    BY <1>7, <2>3
  <2>6. \A i \in first .. last : frame[i] \in Item
    <3>1. \A i \in 1 .. Len(frame) : frame[i] \in Item
      BY <2>2, ElementOfSeq
    <3>2. PICK size \in Nat : size = FrameSize(p) /\ size = Len(frame)
      BY <1>6, <2>2
    <3>3. \A i \in first .. last : i \in 1 .. size
      BY <2>3, <2>5, <3>2
    <3> QED BY <3>1, <3>2, <3>3
  <2>7. /\ part \in Seq(Item)
        /\ Len(part) = IF first <= last THEN (last - first) + 1 ELSE 0
        /\ \A i \in 1 .. (last - first) + 1 : part[i] = frame[first + i - 1]
    <3>1. first \in Int /\ last \in Int
      BY <2>3
    <3>2. SubSeq(frame, first, last) \in Seq(Item)
      BY <2>6, <3>1, SubSeqProperties
    <3>3. Len(SubSeq(frame, first, last)) = IF first <= last THEN (last - first) + 1 ELSE 0
      BY <2>6, <3>1, SubSeqProperties
    <3>4. \A i \in 1 .. (last - first) + 1 : SubSeq(frame, first, last)[i] = frame[first + i - 1]
      BY <2>6, <3>1, SubSeqProperties
    <3> QED BY <2>4, <3>2, <3>3, <3>4
  <2>8. Len(part) = a + b /\ \A i \in 1 .. a + b : part[i] = frame[first + i - 1]
    BY <2>5, <2>7
  <2>9. part \in [1 .. a + b -> Item]
    BY <2>7, <2>8, LenProperties
  <2>10. ASSUME NEW i \in 1 .. a + b
         PROVE  part[i] = FrameItem(p, Sent + i)
    <3>1. first + i - 1 = Sent + i /\ Sent + i \in 1 .. FrameSize(p)
      BY <1>6, <1>7, <2>3
    <3> QED BY <2>2, <2>8, <3>1
  <2>11. part = [i \in 1 .. a + b |-> FrameItem(p, Sent + i)]
    BY <2>9, <2>10
  <2> QED BY <2>1, <2>3, <2>4, <2>11
<1>13. out' = [i \in 1 .. a + b |-> FrameItem(p, Sent + i)]
  BY <1>10, <1>11
<1> QED BY <1>2, <1>7, <1>12, <1>13

(* The same sums after a step that leaves Mux within a packet.             *)
LEMMA SentAfter ==
  ASSUME NEW p \in Packets,
         mux_packet_lens' = <<HeaderSize, Size(p)>>,
         mux_current_input' \in {1, 2},
         mux_remaining' \in 1 .. mux_packet_lens'[mux_current_input']
  PROVE  /\ Sent' = HeaderSent' + PayloadSent'
         /\ HeaderSent' + PayloadSent' < HeaderSize + Size(p)
<1>1. HeaderSize \in Nat /\ Size(p) \in Nat
  BY Sizes, PacketSizes
<1>2. /\ mux_packet_lens' # <<>>
      /\ mux_packet_lens'[1] = HeaderSize /\ mux_packet_lens'[2] = Size(p)
  OBVIOUS
<1>3. CASE mux_current_input' = 1
  <2>1. HeaderSent' = HeaderSize - mux_remaining' /\ PayloadSent' = 0
        /\ Sent' = HeaderSize - mux_remaining'
    BY <1>2, <1>3 DEF HeaderSent, PayloadSent, Sent
  <2>2. PICK rem \in 1 .. HeaderSize : rem = mux_remaining'
    BY <1>2, <1>3
  <2> QED BY <1>1, <2>1, <2>2
<1>4. CASE mux_current_input' = 2
  <2>1. HeaderSent' = HeaderSize /\ PayloadSent' = Size(p) - mux_remaining'
        /\ Sent' = HeaderSize + Size(p) - mux_remaining'
    BY <1>2, <1>4 DEF HeaderSent, PayloadSent, Sent
  <2>2. PICK rem \in 1 .. Size(p) : rem = mux_remaining'
    BY <1>2, <1>4
  <2> QED BY <1>1, <2>1, <2>2
<1> QED BY <1>3, <1>4

(* A call of Mux sends items of the frame, or nothing changes that          *)
(* PacketFraming has.                                                      *)
LEMMA MuxFrames ==
  ASSUME Inv, NEW space \in 1 .. MaxSpace, Mux(space)
  PROVE  [Framing!Next]_(Framing!vars)
<1>1. NoBlockFails /\ TypeOK /\ MuxInPacket /\ HeaderWay /\ PayloadWay
  BY DEF Inv, NoBlockFails
<1>2. \E a, b \in Nat : MuxMoves(a, b) /\ (MuxEnds(a, b) \/ MuxGoesOn(a, b))
  BY <1>1, TagsAreThere, MuxEffect
<1>3. PICK a \in Nat, b \in Nat : MuxMoves(a, b) /\ (MuxEnds(a, b) \/ MuxGoesOn(a, b))
  BY <1>2
<1>4. CASE a + b = 0
  <2>1. a = 0 /\ b = 0
    BY <1>4
  <2>2. SubSeq(headers, 1, a) = <<>> /\ SubSeq(payload, 1, b) = <<>>
    <3>1. /\ SubSeq(headers, 1, a) \in Seq(Item) /\ Len(SubSeq(headers, 1, a)) = a
          /\ SubSeq(payload, 1, b) \in Seq(Item) /\ Len(SubSeq(payload, 1, b)) = b
      BY <1>1, <1>3, LinkLengths, FrontProperties DEF MuxMoves
    <3> QED BY <2>1, <3>1, EmptyLength
  <2>3. out' = out
    <3>1. SubSeq(headers, 1, a) \o SubSeq(payload, 1, b) = <<>>
      BY <2>2
    <3> QED BY <1>3, <3>1 DEF MuxMoves
  <2>4. UNCHANGED accepted /\ Sent' = Sent
    <3>1. MuxGoesOn(a, b)
      BY <1>3, <2>1 DEF MuxEnds
    <3>2. CASE UNCHANGED mux_vars
      BY <3>1, <3>2 DEF MuxGoesOn, mux_vars, Sent
    <3>3. CASE /\ N > 0
               /\ mux_packet_lens' = <<HeaderSize, Size(accepted[1])>>
               /\ mux_current_input' \in {1, 2}
               /\ mux_remaining' \in 1 .. mux_packet_lens'[mux_current_input']
               /\ HeaderSent' = HeaderSent + a /\ PayloadSent' = PayloadSent + b
      <4>1. UNCHANGED accepted /\ HeaderSent' = HeaderSent /\ PayloadSent' = PayloadSent
        BY <1>1, <2>1, <3>1, <3>3, SentSizes DEF MuxGoesOn
      <4>2. Sent' = HeaderSent' + PayloadSent'
        <5>1. accepted[1] \in Packets
          BY <1>1, <3>3, SentSizes
        <5> QED BY <3>3, <5>1, SentAfter
      <4> QED BY <1>1, <4>1, <4>2, SentSizes
    <3> QED BY <3>1, <3>2, <3>3 DEF MuxGoesOn
  <2> QED BY <2>3, <2>4 DEF Framing!vars
<1>5. CASE a + b > 0
  <2>1. PICK count \in Nat : count = a + b /\ count > 0
    BY <1>5
  <2>2. PICK p \in Packets : p = accepted[1] /\ N > 0
    BY <1>3, <1>5, MuxSends
  <2>3. PICK frame : frame = Framing!Frame(p)
    OBVIOUS
  <2>4. /\ Sent \in Nat /\ Sent + count <= FrameSize(p)
        /\ out' = SubSeq(frame, Sent + 1, Sent + count)
    BY <1>3, <1>5, <2>1, <2>2, <2>3, MuxSends
  <2>5. Len(frame) = FrameSize(p) /\ FrameSize(p) \in Nat
        /\ FrameSize(p) = HeaderSize + Size(p) /\ Size(p) \in Nat
    BY <2>3, FrameProperties, PacketSizes
  <2>6. accepted # <<>> /\ Head(accepted) = p
    BY <1>1, <2>2, LinkLengths, EmptyLength DEF N
  <2>7. /\ HeaderSent \in Nat /\ PayloadSent \in Nat /\ Sent = HeaderSent + PayloadSent
        /\ HeaderSize \in Nat
    BY <1>1, SentSizes, Sizes
  <2>8. IF Sent + count = Len(frame)
          THEN accepted' = Tail(accepted) /\ Sent' = 0
          ELSE Sent' = Sent + count /\ UNCHANGED accepted
    <3>1. CASE MuxEnds(a, b)
      <4>1. Sent + count = FrameSize(p)
        <5>1. a = HeaderSize - HeaderSent /\ b = Size(p) - PayloadSent
          BY <2>2, <3>1 DEF MuxEnds
        <5>2. HeaderSent + a = HeaderSize
          BY <2>7, <5>1
        <5>3. PayloadSent + b = Size(p)
          BY <2>5, <2>7, <5>1
        <5>4. \A x, y \in Nat : (x + y) + (a + b) = (x + a) + (y + b)
          OBVIOUS
        <5> QED BY <2>1, <2>5, <2>7, <5>2, <5>3, <5>4
      <4>2. accepted' = Tail(accepted) /\ Sent' = 0
        BY <3>1 DEF MuxEnds, Sent
      <4> QED BY <2>5, <4>1, <4>2
    <3>2. CASE MuxGoesOn(a, b)
      <4>1. /\ UNCHANGED accepted
            /\ mux_packet_lens' = <<HeaderSize, Size(p)>>
            /\ mux_current_input' \in {1, 2}
            /\ mux_remaining' \in 1 .. mux_packet_lens'[mux_current_input']
            /\ HeaderSent' = HeaderSent + a /\ PayloadSent' = PayloadSent + b
        BY <1>5, <2>2, <3>2 DEF MuxGoesOn
      <4>2. /\ Sent' = HeaderSent' + PayloadSent'
            /\ HeaderSent' + PayloadSent' < HeaderSize + Size(p)
        BY <4>1, SentAfter
      <4>3. Sent' = Sent + count /\ Sent + count < FrameSize(p)
        BY <2>1, <2>5, <2>7, <4>1, <4>2
      <4> QED BY <2>1, <2>4, <2>5, <4>1, <4>3
    <3> QED BY <1>3, <3>1, <3>2
  <2>9. Framing!Send(count)
    BY <2>3, <2>4, <2>5, <2>6, <2>8 DEF Framing!Send
  <2>10. count \in 1 .. Len(Framing!Frame(Head(accepted)))
    BY <2>1, <2>3, <2>4, <2>5, <2>6
  <2> QED BY <2>6, <2>9, <2>10 DEF Framing!Next
<1> QED BY <1>4, <1>5

(* Every other call accepts a packet, or PacketFraming does not see it.    *)
LEMMA StepFrames ==
  ASSUME Inv, [Next]_vars
  PROVE  [Framing!Next]_(Framing!vars)
<1>1. ASSUME NEW length \in Lengths, NEW n \in 1 .. DataCapacity, Ingress(length, n)
      PROVE  [Framing!Next]_(Framing!vars)
  <2>1. /\ UNCHANGED <<mux_vars, out>>
        /\ IngressOpens(length, n) \/ IngressGoesOn(n) \/ IngressDrops
    BY <1>1, IngressEffect
  <2>2. Sent' = Sent
    BY <2>1 DEF Sent, mux_vars
  <2>3. CASE IngressOpens(length, n)
    <3>1. PICK p : p = [id |-> NextId, len |-> length]
      OBVIOUS
    <3>2. accepted' = Append(accepted, p)
      BY <2>3, <3>1 DEF IngressOpens
    <3>3. p \in Packets
      <4>1. TypeOK
        BY DEF Inv, NoBlockFails
      <4>2. packet.id \in 1 .. NumIds /\ NumIds \in Nat /\ NumIds > 0
        BY <4>1, Sizes DEF TypeOK, Packets, Ids
      <4>3. \A x, y \in Nat : y > 0 => (x % y) + 1 \in 1 .. y
        OBVIOUS
      <4> QED BY <3>1, <4>2, <4>3 DEF NextId, Ids, Packets
    <3> QED BY <2>1, <2>2, <3>2, <3>3 DEF Framing!Next, Framing!Accept
  <2>4. CASE IngressGoesOn(n) \/ IngressDrops
    BY <2>1, <2>2, <2>4 DEF IngressGoesOn, IngressDrops, Framing!vars
  <2> QED BY <2>1, <2>3, <2>4
<1>2. ASSUME UNCHANGED <<mux_vars, out, accepted>>
      PROVE  [Framing!Next]_(Framing!vars)
  <2>1. Sent' = Sent
    BY <1>2 DEF Sent, mux_vars
  <2> QED BY <1>2, <2>1 DEF Framing!vars
<1>3. CASE IngressStep
  BY <1>1, <1>3 DEF IngressStep
<1>4. CASE FormatStep
  BY <1>2, <1>4 DEF FormatStep, Format
<1>5. CASE Encode
  BY <1>2, <1>5 DEF Encode
<1>6. CASE CrcStep
  <2>1. UNCHANGED <<mux_vars, out, accepted>>
    BY <1>6 DEF CrcStep, Crc
  <2> QED BY <1>2, <2>1
<1>7. CASE MuxStep
  BY <1>7, MuxFrames DEF MuxStep
<1>8. CASE UNCHANGED vars
  BY <1>2, <1>8 DEF vars
<1> QED BY <1>3, <1>4, <1>5, <1>6, <1>7, <1>8 DEF Next

(* What leaves the multiplexer is a frame for every accepted packet, in    *)
(* order, each with its own header, payload and CRC and the right length.  *)
THEOREM FramesInOrderHolds == ASSUME ~EmptySpans PROVE Spec => FramesInOrder
<1>1. Init => Framing!Init
  BY DEF Init, MUX!Init, Framing!Init, Sent
<1>2. Inv /\ [Next]_vars => [Framing!Next]_(Framing!vars)
  BY StepFrames
<1> QED BY <1>1, <1>2, AssemblyInv, PTL DEF Spec, FramesInOrder, Framing!Spec
=============================================================================
