------------------------ MODULE PayloadBranch_proofs -------------------------
(***************************************************************************)
(* Proofs about PayloadBranch: for all sizes, lengths, links and calls, no *)
(* block fails, and what is written are the packets of users with a right  *)
(* CRC, whole and in order, as PacketDelivery says.                        *)
(*                                                                         *)
(* The invariant cuts the pending packets in four lists: ready, which are  *)
(* in pdus; collected, of which the filter has begun to pass items on;     *)
(* checked, behind CrcCheck; and arriving, before it.  A link holds the    *)
(* items of the packets of a list, of which number k begins behind item    *)
(* at[k]; that is negative for a packet of which items are gone.           *)
(***************************************************************************)
EXTENDS PayloadBranch, SequenceTheorems, FiniteSetTheorems, TLAPS

(* The items of a packet as bits, as bytes and without the CRC, with the   *)
(* length of the packet in the tag of the first.                           *)
Span(form, p) ==
  CASE form = "bits"    -> AllBits(p)
    [] form = "bytes"   -> p.len
    [] form = "payload" -> p.len - CrcSize

Piece(form, p, j) ==
  [of |-> p, place |-> j, bits |-> IF j = 1 THEN Span(form, p) ELSE 0]

(* The first g items of a packet, collected. *)
PartPdu(p, g) ==
  [data |-> [j \in 1 .. g |-> Piece("payload", p, j)],
   tags |-> <<[index |-> 0, of |-> p]>>]

WholePdu(p) == PartPdu(p, Span("payload", p))

(* The packets of list lie one behind the other. *)
Places(form, list, at) ==
  /\ at \in [1 .. Len(list) + 1 -> Int]
  /\ \A k \in 1 .. Len(list) : at[k + 1] = at[k] + Span(form, list[k])
  /\ \A k, l \in 1 .. Len(list) + 1 : k <= l => at[k] <= at[l]

(* The items of link are those of the packets. *)
Holds(form, link, list, at) ==
  \A k \in 1 .. Len(list) : \A j \in 1 .. Span(form, list[k]) :
    at[k] + j \in 1 .. Len(link) => link[at[k] + j] = Piece(form, list[k], j)

(* What is still to come of the packet that arrives. *)
Coming == AllBits(packet) - place

(* What the filter has still to pass on of a packet that passes, and what  *)
(* TaggedStreamToPdu has of the first of the collected packets.            *)
Passing == IF type_valid THEN type_remaining ELSE 0

Gathered(list) ==
  IF pdu_remaining = 0 THEN 0 ELSE Span("payload", list[1]) - pdu_remaining

-----------------------------------------------------------------------------
(* The inductive invariant.                                                *)

DifferentIds ==
  \A i, j \in 1 .. Len(pending) : i # j => pending[i].id # pending[j].id

(* The first packets of list are in bytes; the others, and the rest of the *)
(* one that is being packed, number d, are in bits.                        *)
ArrivingAt(list, at, bit_at, d) ==
  /\ Places("bytes", list, at) /\ at[1] = 0
  /\ Places("bits", list, bit_at)
  /\ \A k \in 1 .. Len(list) + 1 : bit_at[k] = (at[k] - Len(bytes)) * InputsPerOutput
  /\ d \in 1 .. Len(list) + 1
  /\ bit_at[d] <= 0 /\ (d <= Len(list) => bit_at[d + 1] > 0)
  /\ Holds("bytes", bytes, list, at)
  /\ Holds("bits", bits, list, bit_at)
  /\ Len(bits) = bit_at[Len(list) + 1] - Coming

(* CrcCheck remembers the length of the first packet, or none. *)
LengthKnown(list) ==
  /\ crc_packet_len # 0 => Len(list) > 0 /\ crc_packet_len = list[1].len
  /\ offered => crc_packet_len # 0

ComesLast(list) == Coming > 0 => Len(list) > 0 /\ packet = list[Len(list)]

Arriving(list) ==
  /\ LengthKnown(list) /\ ComesLast(list)
  /\ \E at, bit_at, d : ArrivingAt(list, at, bit_at, d)

(* The packets of list are in checked, behind the rest of the one that is  *)
(* being filtered.                                                         *)
CheckedAt(list, at) ==
  /\ Places("payload", list, at) /\ at[1] = type_remaining
  /\ Holds("payload", checked, list, at)
  /\ Len(checked) = at[Len(list) + 1]

Checked(list) ==
  /\ \A k \in 1 .. Len(list) : list[k].good
  /\ \E at : CheckedAt(list, at)

(* A packet that passes is the last of the collected ones. *)
PassesLast(list) ==
  Passing > 0 =>
    /\ Len(list) > 0 /\ Passing < Span("payload", list[Len(list)])
    /\ \A i \in 1 .. Passing :
         checked[i] = Piece("payload", list[Len(list)],
                            (Span("payload", list[Len(list)]) - Passing) + i)

(* The first of the collected packets is in the PDU as far as it came. *)
InPdu(list) ==
  /\ pdu_merged_tag = <<>>
  /\ pdu_remaining = 0 => pdu_pdu = PDU!EmptyPdu
  /\ pdu_remaining # 0 =>
       /\ Len(list) > 0 /\ pdu_remaining < Span("payload", list[1])
       /\ pdu_index = Gathered(list)
       /\ pdu_pdu = PartPdu(list[1], Gathered(list))

CollectedAt(list, at) ==
  /\ Places("payload", list, at) /\ at[1] = 0 - Gathered(list)
  /\ Holds("payload", user, list, at)
  /\ Len(user) = at[Len(list) + 1] - Passing

Collected(list) ==
  /\ \A k \in 1 .. Len(list) : Delivery!Wanted(list[k])
  /\ PassesLast(list) /\ InPdu(list)
  /\ \E at : CollectedAt(list, at)

Ready(list) ==
  /\ \A k \in 1 .. Len(list) : Delivery!Wanted(list[k])
  /\ pdus = [k \in 1 .. Len(list) |-> WholePdu(list[k])]

Lists(P, U, Q, R) ==
  /\ P \in Seq(Packets) /\ U \in Seq(Packets)
  /\ Q \in Seq(Packets) /\ R \in Seq(Packets)
  /\ pending = P \o (U \o (Q \o R))

Cut(P, U, Q, R) ==
  Lists(P, U, Q, R) /\ Ready(P) /\ Collected(U) /\ Checked(Q) /\ Arriving(R)

Inv == NoBlockFails /\ DifferentIds /\ \E P, U, Q, R : Cut(P, U, Q, R)

-----------------------------------------------------------------------------
(* Sizes, packets and sequences.                                           *)

Forms == {"bits", "bytes", "payload"}

(* The sizes are numbers, and packets are longer than their CRC.           *)
LEMMA Sizes ==
  /\ InputsPerOutput \in Nat /\ InputsPerOutput > 0
  /\ CrcSize \in Nat
  /\ BitsCapacity \in Nat /\ BytesCapacity \in Nat /\ CheckedCapacity \in Nat
  /\ UserCapacity \in Nat /\ PdusCapacity \in Nat
  /\ NumIds \in Nat /\ NumIds > 0
  /\ \A len \in Lengths : len \in Nat /\ len > CrcSize /\ len <= CheckedCapacity
BY BranchAssumption

(* The sizes of a packet. *)
LEMMA PacketSizes ==
  ASSUME NEW p \in Packets
  PROVE  /\ p.len \in Lengths /\ p.len \in Nat /\ p.len > 0 /\ p.len > CrcSize
         /\ p.len - CrcSize \in Nat /\ p.len - CrcSize > 0
         /\ AllBits(p) \in Nat /\ AllBits(p) > 0 /\ AllBits(p) = p.len * InputsPerOutput
         /\ p.id \in 1 .. NumIds /\ p.good \in BOOLEAN /\ p.user \in BOOLEAN
<1>1. /\ p.len \in Lengths /\ p.id \in 1 .. NumIds
      /\ p.good \in BOOLEAN /\ p.user \in BOOLEAN
  <2>1. PICK id \in 1 .. NumIds, len \in Lengths, kind \in Kinds :
          p = [id |-> id, len |-> len, good |-> kind # "corrupt", user |-> kind # "idle"]
    BY DEF Packets
  <2> QED BY <2>1
<1>2. p.len \in Nat /\ p.len > CrcSize /\ CrcSize \in Nat
  BY <1>1, Sizes
<1>3. PICK len : len = p.len
  OBVIOUS
<1>4. len > 0 /\ len - CrcSize \in Nat /\ len - CrcSize > 0
  BY <1>2, <1>3
<1>5. \A x, y \in Nat : x > 0 /\ y > 0 => x * y \in Nat /\ x * y > 0
  OBVIOUS
<1>6. len * InputsPerOutput \in Nat /\ len * InputsPerOutput > 0
  BY <1>2, <1>3, <1>4, <1>5, Sizes
<1> QED BY <1>1, <1>2, <1>3, <1>4, <1>6 DEF AllBits

(* A packet has items in every form. *)
LEMMA Spans ==
  ASSUME NEW p \in Packets, NEW form \in Forms
  PROVE  Span(form, p) \in Nat /\ Span(form, p) > 0
<1>1. /\ p.len \in Nat /\ p.len > 0 /\ AllBits(p) \in Nat /\ AllBits(p) > 0
      /\ p.len - CrcSize \in Nat /\ p.len - CrcSize > 0
  BY PacketSizes
<1>2. CASE form = "bits"
  BY <1>1, <1>2 DEF Span
<1>3. CASE form = "bytes"
  BY <1>1, <1>3 DEF Span
<1>4. CASE form = "payload"
  BY <1>1, <1>4 DEF Span
<1> QED BY <1>2, <1>3, <1>4 DEF Forms

(* The items of packets are items. *)
LEMMA Pieces ==
  ASSUME NEW p \in Packets, NEW form \in Forms, NEW j \in Nat
  PROVE  Piece(form, p, j) \in Item
<1>1. Span(form, p) \in Nat
  BY Spans
<1> QED BY <1>1 DEF Piece, Item

(* What is left of a link. *)
LEMMA FromProperties ==
  ASSUME NEW S, NEW seq \in Seq(S), NEW k \in 0 .. Len(seq)
  PROVE  /\ From(seq, k) \in Seq(S)
         /\ Len(From(seq, k)) = Len(seq) - k
         /\ \A i \in 1 .. Len(seq) - k : From(seq, k)[i] = seq[i + k]
<1>1. Len(seq) \in Nat /\ \A i \in 1 .. Len(seq) : seq[i] \in S
  BY LenProperties, ElementOfSeq
<1>2. \A i \in k + 1 .. Len(seq) : seq[i] \in S
  BY <1>1
<1>3. /\ From(seq, k) \in Seq(S)
      /\ Len(From(seq, k)) = IF k + 1 <= Len(seq) THEN Len(seq) - (k + 1) + 1 ELSE 0
      /\ \A i \in 1 .. Len(seq) - (k + 1) + 1 : From(seq, k)[i] = seq[k + 1 + i - 1]
  BY <1>1, <1>2, SubSeqProperties DEF From
<1> QED BY <1>1, <1>3

(* The first items of a link. *)
LEMMA FrontProperties ==
  ASSUME NEW S, NEW seq \in Seq(S), NEW k \in 0 .. Len(seq)
  PROVE  /\ SubSeq(seq, 1, k) \in Seq(S)
         /\ Len(SubSeq(seq, 1, k)) = k
         /\ \A i \in 1 .. k : SubSeq(seq, 1, k)[i] = seq[i]
<1>1. Len(seq) \in Nat /\ \A i \in 1 .. Len(seq) : seq[i] \in S
  BY LenProperties, ElementOfSeq
<1>2. \A i \in 1 .. k : seq[i] \in S
  BY <1>1
<1>3. /\ SubSeq(seq, 1, k) \in Seq(S)
      /\ Len(SubSeq(seq, 1, k)) = IF 1 <= k THEN k - 1 + 1 ELSE 0
      /\ \A i \in 1 .. k - 1 + 1 : SubSeq(seq, 1, k)[i] = seq[1 + i - 1]
  BY <1>1, <1>2, SubSeqProperties
<1> QED BY <1>1, <1>3

(* A function on the first numbers is a sequence. *)
LEMMA FunctionIsSeq ==
  ASSUME NEW S, NEW m \in Nat, NEW f \in [1 .. m -> S]
  PROVE  f \in Seq(S) /\ Len(f) = m
<1>1. f \in Seq(S)
  BY SeqDef
<1>2. Len(f) \in Nat /\ 1 .. Len(f) = 1 .. m
  BY <1>1, LenProperties
<1> QED BY <1>1, <1>2

(* Two sequences, one behind the other. *)
LEMMA JoinProperties ==
  ASSUME NEW S, NEW seq \in Seq(S), NEW f \in Seq(S)
  PROVE  /\ seq \o f \in Seq(S) /\ Len(seq \o f) = Len(seq) + Len(f)
         /\ \A i \in 1 .. Len(seq) : (seq \o f)[i] = seq[i]
         /\ \A i \in 1 .. Len(f) : (seq \o f)[Len(seq) + i] = f[i]
<1>1. Len(f) \in Nat /\ Len(seq) \in Nat
  BY LenProperties
<1>2. /\ seq \o f \in Seq(S) /\ Len(seq \o f) = Len(seq) + Len(f)
      /\ \A i \in 1 .. Len(seq) + Len(f) :
            (seq \o f)[i] = IF i <= Len(seq) THEN seq[i] ELSE f[i - Len(seq)]
  BY ConcatProperties
<1>3. ASSUME NEW i \in 1 .. Len(f)
      PROVE  (seq \o f)[Len(seq) + i] = f[i]
  <2>1. Len(seq) + i \in 1 .. Len(seq) + Len(f) /\ ~(Len(seq) + i <= Len(seq))
    BY <1>1
  <2>2. Len(seq) + i - Len(seq) = i
    BY <1>1
  <2> QED BY <1>2, <2>1, <2>2
<1>4. ASSUME NEW i \in 1 .. Len(seq)
      PROVE  (seq \o f)[i] = seq[i]
  BY <1>1, <1>2
<1> QED BY <1>2, <1>3, <1>4

(* A sequence is empty if its length is zero. *)
LEMMA EmptyLength ==
  ASSUME NEW S, NEW seq \in Seq(S)
  PROVE  Len(seq) \in Nat /\ (seq = <<>> <=> Len(seq) = 0)
BY EmptySeq, LenProperties

(* One more at the end. *)
LEMMA AppendOne ==
  ASSUME NEW S, NEW seq \in Seq(S), NEW e \in S
  PROVE  /\ Append(seq, e) \in Seq(S) /\ Len(Append(seq, e)) = Len(seq) + 1
         /\ \A i \in 1 .. Len(seq) : Append(seq, e)[i] = seq[i]
         /\ Append(seq, e)[Len(seq) + 1] = e
BY AppendProperties, LenProperties

(* The first element, and the others. *)
LEMMA HeadAndTail ==
  ASSUME NEW S, NEW seq \in Seq(S), Len(seq) > 0
  PROVE  /\ seq # <<>> /\ Head(seq) = seq[1] /\ seq[1] \in S
         /\ Tail(seq) \in Seq(S) /\ Len(Tail(seq)) = Len(seq) - 1
         /\ \A i \in 1 .. Len(seq) - 1 : Tail(seq)[i] = seq[i + 1]
<1>1. seq # <<>> /\ Len(seq) \in Nat
  BY EmptyLength
<1>2. Tail(seq) \in Seq(S) /\ Len(Tail(seq)) = Len(seq) - 1
  BY <1>1, HeadTailProperties
<1>3. \A i \in 1 .. Len(Tail(seq)) : Tail(seq)[i] = seq[i + 1]
  BY <1>1, HeadTailProperties
<1>4. 1 \in 1 .. Len(seq)
  BY <1>1
<1>5. Head(seq) = seq[1] /\ seq[1] \in S
  BY <1>1, <1>4, ElementOfSeq
<1> QED BY <1>1, <1>2, <1>3, <1>5

-----------------------------------------------------------------------------
(* The places of packets in a link.                                        *)

(* What a list of packets and its places are. *)
LEMMA PlaceTypes ==
  ASSUME NEW form \in Forms, NEW list \in Seq(Packets), NEW at, Places(form, list, at)
  PROVE  /\ Len(list) \in Nat
         /\ \A k \in 1 .. Len(list) + 1 : at[k] \in Int
         /\ \A k \in 1 .. Len(list) :
              /\ list[k] \in Packets
              /\ Span(form, list[k]) \in Nat /\ Span(form, list[k]) > 0
              /\ at[k] \in Int /\ at[k + 1] \in Int
              /\ at[k + 1] = at[k] + Span(form, list[k])
<1>1. Len(list) \in Nat
  BY LenProperties
<1>2. \A k \in 1 .. Len(list) + 1 : at[k] \in Int
  BY DEF Places
<1>3. ASSUME NEW k \in 1 .. Len(list)
      PROVE  /\ list[k] \in Packets
             /\ Span(form, list[k]) \in Nat /\ Span(form, list[k]) > 0
             /\ at[k] \in Int /\ at[k + 1] \in Int
             /\ at[k + 1] = at[k] + Span(form, list[k])
  <2>1. list[k] \in Packets
    BY ElementOfSeq
  <2>2. Span(form, list[k]) \in Nat /\ Span(form, list[k]) > 0
    BY <2>1, Spans
  <2>3. k \in 1 .. Len(list) + 1 /\ k + 1 \in 1 .. Len(list) + 1
    BY <1>1
  <2>4. at[k + 1] = at[k] + Span(form, list[k])
    BY DEF Places
  <2> QED BY <1>2, <2>1, <2>2, <2>3, <2>4
<1> QED BY <1>1, <1>2, <1>3

(* Items leave the front of a link. *)
LEMMA ItemsLeave ==
  ASSUME NEW form \in Forms, NEW list \in Seq(Packets), NEW at, Places(form, list, at),
         NEW c \in Nat, NEW next, next = [k \in 1 .. Len(list) + 1 |-> at[k] - c]
  PROVE  /\ Places(form, list, next)
         /\ \A link \in Seq(Item) :
              c <= Len(link) /\ Holds(form, link, list, at)
                => Holds(form, From(link, c), list, next)
<1>1. /\ Len(list) \in Nat
      /\ \A k \in 1 .. Len(list) + 1 : at[k] \in Int
  BY PlaceTypes
<1>2. \A k \in 1 .. Len(list) + 1 : next[k] = at[k] - c /\ next[k] \in Int
  BY <1>1
<1>3. Places(form, list, next)
  <2>1. next \in [1 .. Len(list) + 1 -> Int]
    BY <1>1
  <2>2. ASSUME NEW k \in 1 .. Len(list)
        PROVE  next[k + 1] = next[k] + Span(form, list[k])
    <3>1. /\ Span(form, list[k]) \in Nat /\ at[k] \in Int
          /\ at[k + 1] = at[k] + Span(form, list[k])
      BY PlaceTypes
    <3>2. k \in 1 .. Len(list) + 1 /\ k + 1 \in 1 .. Len(list) + 1
      BY <1>1
    <3>3. next[k] = at[k] - c /\ next[k + 1] = at[k + 1] - c
      BY <1>2, <3>2
    <3>4. \A x, y, z \in Int : (x + y) - z = (x - z) + y
      OBVIOUS
    <3> QED BY <3>1, <3>3, <3>4
  <2>3. ASSUME NEW k \in 1 .. Len(list) + 1, NEW l \in 1 .. Len(list) + 1, k <= l
        PROVE  next[k] <= next[l]
    <3>1. at[k] <= at[l]
      BY <2>3 DEF Places
    <3> QED BY <1>1, <1>2, <3>1
  <2> QED BY <2>1, <2>2, <2>3 DEF Places
<1>4. ASSUME NEW link \in Seq(Item), c <= Len(link), Holds(form, link, list, at)
      PROVE  Holds(form, From(link, c), list, next)
  <2>1. Len(link) \in Nat /\ c \in 0 .. Len(link)
    BY <1>4, LenProperties
  <2>2. /\ Len(From(link, c)) = Len(link) - c
        /\ \A i \in 1 .. Len(link) - c : From(link, c)[i] = link[i + c]
    BY <2>1, FromProperties
  <2>3. ASSUME NEW k \in 1 .. Len(list), NEW j \in 1 .. Span(form, list[k]),
               next[k] + j \in 1 .. Len(From(link, c))
        PROVE  From(link, c)[next[k] + j] = Piece(form, list[k], j)
    <3>1. at[k] \in Int /\ next[k] = at[k] - c /\ Span(form, list[k]) \in Nat
      <4>1. k \in 1 .. Len(list) + 1
        BY <1>1
      <4> QED BY <1>2, <4>1, PlaceTypes
    <3>2. PICK i : i = next[k] + j
      OBVIOUS
    <3>3. i \in 1 .. Len(link) - c /\ i + c = at[k] + j
      <4>1. i \in 1 .. Len(link) - c
        BY <2>2, <2>3, <3>2
      <4>2. PICK x \in Int : x = at[k]
        BY <3>1
      <4>3. i = (x - c) + j /\ j \in Int /\ c \in Int
        BY <3>1, <3>2, <4>2
      <4>4. i + c = x + j
        BY <4>3
      <4> QED BY <4>1, <4>2, <4>4
    <3>4. at[k] + j \in 1 .. Len(link)
      BY <2>1, <3>3
    <3>5. link[at[k] + j] = Piece(form, list[k], j)
      BY <1>4, <3>4 DEF Holds
    <3> QED BY <2>2, <3>2, <3>3, <3>5
  <2> QED BY <2>3 DEF Holds
<1> QED BY <1>3, <1>4

(* A packet comes behind the others, without items so far. *)
LEMMA PacketComes ==
  ASSUME NEW form \in Forms, NEW list \in Seq(Packets), NEW at, Places(form, list, at),
         NEW p \in Packets, NEW next,
         next = [k \in 1 .. Len(list) + 2 |->
                   IF k = Len(list) + 2 THEN at[Len(list) + 1] + Span(form, p) ELSE at[k]]
  PROVE  /\ Places(form, Append(list, p), next)
         /\ \A link \in Seq(Item) :
              Len(link) <= at[Len(list) + 1] /\ Holds(form, link, list, at)
                => Holds(form, link, Append(list, p), next)
<1>1. /\ Len(list) \in Nat
      /\ \A k \in 1 .. Len(list) + 1 : at[k] \in Int
  BY PlaceTypes
<1>2. /\ Append(list, p) \in Seq(Packets) /\ Len(Append(list, p)) = Len(list) + 1
      /\ \A i \in 1 .. Len(list) : Append(list, p)[i] = list[i]
      /\ Append(list, p)[Len(list) + 1] = p
  BY AppendOne
<1>3. Span(form, p) \in Nat /\ Span(form, p) > 0
  BY Spans
<1>4. PICK n \in Nat : n = Len(list)
  BY <1>1
<1>5. PICK all : all = Append(list, p)
  OBVIOUS
<1>6. /\ \A k \in 1 .. n + 1 : next[k] = at[k] /\ next[k] \in Int
      /\ next[n + 2] = at[n + 1] + Span(form, p) /\ next[n + 2] \in Int
      /\ at[n + 1] \in Int /\ next[n + 1] = at[n + 1]
  <2>1. n + 1 \in 1 .. n + 1 /\ n + 2 \in 1 .. n + 2 /\ n + 1 \in 1 .. n + 2
    OBVIOUS
  <2>2. \A k \in 1 .. n + 1 : k \in 1 .. n + 2 /\ k # n + 2
    OBVIOUS
  <2>3. \A k \in 1 .. n + 1 : next[k] = at[k]
    BY <1>4, <2>2
  <2>4. next[n + 2] = at[n + 1] + Span(form, p)
    BY <1>4, <2>1
  <2>5. at[n + 1] \in Int
    BY <1>1, <1>4, <2>1
  <2> QED BY <1>1, <1>3, <1>4, <2>1, <2>3, <2>4, <2>5
<1>7. \A k \in 1 .. n : all[k] = list[k]
  BY <1>2, <1>4, <1>5
<1>8. all[n + 1] = p /\ Len(all) = n + 1
  BY <1>2, <1>4, <1>5
<1>9. Places(form, all, next)
  <2>1. next \in [1 .. n + 2 -> Int]
    <3>1. \A k \in 1 .. n + 2 : k \in 1 .. n + 1 \/ k = n + 2
      OBVIOUS
    <3> QED BY <1>4, <1>6, <3>1
  <2>2. ASSUME NEW k \in 1 .. n + 1
        PROVE  next[k + 1] = next[k] + Span(form, all[k])
    <3>1. CASE k = n + 1
      BY <1>6, <1>8, <3>1
    <3>2. CASE k # n + 1
      <4>1. k \in 1 .. n /\ k + 1 \in 1 .. n + 1
        BY <3>2
      <4>2. at[k + 1] = at[k] + Span(form, list[k])
        BY <1>4, <4>1, PlaceTypes
      <4> QED BY <1>6, <1>7, <4>1, <4>2
    <3> QED BY <3>1, <3>2
  <2>3. ASSUME NEW k \in 1 .. n + 2, NEW l \in 1 .. n + 2, k <= l
        PROVE  next[k] <= next[l]
    <3>1. CASE l # n + 2
      <4>1. k \in 1 .. n + 1 /\ l \in 1 .. n + 1
        BY <2>3, <3>1
      <4>2. at[k] <= at[l]
        BY <1>4, <2>3, <4>1 DEF Places
      <4> QED BY <1>6, <4>1, <4>2
    <3>2. CASE l = n + 2 /\ k = n + 2
      BY <1>6, <3>2
    <3>3. CASE l = n + 2 /\ k # n + 2
      <4>1. k \in 1 .. n + 1 /\ n + 1 \in 1 .. n + 1 /\ k <= n + 1
        BY <3>3
      <4>2. at[k] <= at[n + 1]
        BY <1>4, <4>1 DEF Places
      <4>3. at[k] \in Int /\ next[k] = at[k]
        BY <1>1, <1>4, <1>6, <4>1
      <4>4. \A x, y, z \in Int : z > 0 /\ x <= y => x <= y + z
        OBVIOUS
      <4> QED BY <1>3, <1>6, <3>3, <4>2, <4>3, <4>4
    <3> QED BY <3>1, <3>2, <3>3
  <2>4. n + 1 + 1 = n + 2
    OBVIOUS
  <2> QED BY <1>8, <2>1, <2>2, <2>3, <2>4 DEF Places
<1>10. ASSUME NEW link \in Seq(Item), Len(link) <= at[n + 1], Holds(form, link, list, at)
       PROVE  Holds(form, link, all, next)
  <2>1. ASSUME NEW k \in 1 .. n + 1, NEW j \in 1 .. Span(form, all[k]),
               next[k] + j \in 1 .. Len(link)
        PROVE  link[next[k] + j] = Piece(form, all[k], j)
    <3>1. CASE k = n + 1
      <4>1. Len(link) \in Nat /\ Span(form, all[k]) \in Nat
        BY <1>3, <1>8, <3>1, LenProperties
      <4> QED BY <1>6, <1>10, <2>1, <3>1, <4>1
    <3>2. CASE k # n + 1
      <4>1. k \in 1 .. n /\ k \in 1 .. n + 1
        BY <3>2
      <4>2. next[k] = at[k] /\ all[k] = list[k]
        BY <1>6, <1>7, <4>1
      <4> QED BY <1>4, <1>10, <2>1, <4>1, <4>2 DEF Holds
    <3> QED BY <3>1, <3>2
  <2> QED BY <1>8, <2>1 DEF Holds
<1> QED BY <1>4, <1>5, <1>9, <1>10

(* The first packet leaves the list. *)
LEMMA PacketLeaves ==
  ASSUME NEW form \in Forms, NEW list \in Seq(Packets), NEW at, Places(form, list, at),
         Len(list) > 0, NEW next, next = [k \in 1 .. Len(list) |-> at[k + 1]]
  PROVE  /\ Places(form, Tail(list), next)
         /\ \A link : Holds(form, link, list, at) => Holds(form, link, Tail(list), next)
<1>1. /\ Len(list) \in Nat
      /\ \A k \in 1 .. Len(list) + 1 : at[k] \in Int
  BY PlaceTypes
<1>2. /\ Tail(list) \in Seq(Packets) /\ Len(Tail(list)) = Len(list) - 1
      /\ \A i \in 1 .. Len(list) - 1 : Tail(list)[i] = list[i + 1]
  BY HeadAndTail
<1>3. PICK n \in Nat : n = Len(list) - 1 /\ Len(list) = n + 1
  BY <1>1
<1>4. PICK rest : rest = Tail(list)
  OBVIOUS
<1>5. Len(rest) = n /\ \A k \in 1 .. n : rest[k] = list[k + 1]
  BY <1>2, <1>3, <1>4
<1>6. \A k \in 1 .. n + 1 : next[k] = at[k + 1] /\ k + 1 \in 1 .. Len(list) + 1
  BY <1>3
<1>7. Places(form, rest, next)
  <2>1. next \in [1 .. n + 1 -> Int]
    BY <1>1, <1>3, <1>6
  <2>2. ASSUME NEW k \in 1 .. n
        PROVE  next[k + 1] = next[k] + Span(form, rest[k])
    <3>1. k \in 1 .. n + 1 /\ k + 1 \in 1 .. n + 1 /\ k + 1 \in 1 .. Len(list)
      BY <1>3
    <3>2. at[(k + 1) + 1] = at[k + 1] + Span(form, list[k + 1])
      BY <3>1, PlaceTypes
    <3> QED BY <1>5, <1>6, <3>1, <3>2
  <2>3. ASSUME NEW k \in 1 .. n + 1, NEW l \in 1 .. n + 1, k <= l
        PROVE  next[k] <= next[l]
    <3>1. k + 1 \in 1 .. Len(list) + 1 /\ l + 1 \in 1 .. Len(list) + 1 /\ k + 1 <= l + 1
      BY <1>3, <2>3
    <3>2. at[k + 1] <= at[l + 1]
      BY <3>1 DEF Places
    <3> QED BY <1>6, <3>2
  <2> QED BY <1>5, <2>1, <2>2, <2>3 DEF Places
<1>8. ASSUME NEW link, Holds(form, link, list, at)
      PROVE  Holds(form, link, rest, next)
  <2>1. ASSUME NEW k \in 1 .. n, NEW j \in 1 .. Span(form, rest[k]),
               next[k] + j \in 1 .. Len(link)
        PROVE  link[next[k] + j] = Piece(form, rest[k], j)
    <3>1. k \in 1 .. n + 1 /\ k + 1 \in 1 .. Len(list)
      BY <1>3
    <3>2. next[k] = at[k + 1] /\ rest[k] = list[k + 1]
      BY <1>5, <1>6, <3>1
    <3> QED BY <1>8, <2>1, <3>1, <3>2 DEF Holds
  <2> QED BY <1>5, <2>1 DEF Holds
<1> QED BY <1>4, <1>7, <1>8

(* Items of packet k come to the end of a link. *)
LEMMA ItemsCome ==
  ASSUME NEW form \in Forms, NEW list \in Seq(Packets), NEW at, Places(form, list, at),
         NEW link \in Seq(Item), Holds(form, link, list, at),
         NEW more \in Seq(Item), NEW k \in 1 .. Len(list), NEW g \in Nat,
         at[k] + g = Len(link), g + Len(more) <= Span(form, list[k]),
         \A i \in 1 .. Len(more) : more[i] = Piece(form, list[k], g + i)
  PROVE  Holds(form, link \o more, list, at)
<1>1. /\ Len(list) \in Nat /\ Len(link) \in Nat /\ Len(more) \in Nat
      /\ at[k] \in Int /\ Span(form, list[k]) \in Nat
      /\ at[k + 1] \in Int /\ at[k + 1] = at[k] + Span(form, list[k])
  BY PlaceTypes, LenProperties
<1>2. /\ Len(link \o more) = Len(link) + Len(more)
      /\ \A i \in 1 .. Len(link) : (link \o more)[i] = link[i]
      /\ \A i \in 1 .. Len(more) : (link \o more)[Len(link) + i] = more[i]
  BY JoinProperties
<1>3. PICK ak, lk, mr, sk \in Int :
        ak = at[k] /\ lk = Len(link) /\ mr = Len(more) /\ sk = Span(form, list[k])
  BY <1>1
<1>4. ak + g = lk /\ g + mr <= sk /\ at[k + 1] = ak + sk /\ g >= 0 /\ mr >= 0 /\ g \in Int
  BY <1>1, <1>3
<1>5. ASSUME NEW l \in 1 .. Len(list), NEW j \in 1 .. Span(form, list[l]),
             at[l] + j \in 1 .. Len(link) + Len(more)
      PROVE  (link \o more)[at[l] + j] = Piece(form, list[l], j)
  <2>1. /\ at[l] \in Int /\ Span(form, list[l]) \in Nat /\ j \in Nat
        /\ at[l + 1] \in Int /\ at[l + 1] = at[l] + Span(form, list[l])
    BY PlaceTypes
  <2>2. PICK al, sl \in Int : al = at[l] /\ sl = Span(form, list[l])
    BY <2>1
  <2>3. j \in 1 .. sl /\ at[l + 1] = al + sl /\ al + j \in 1 .. lk + mr
    BY <1>3, <1>5, <2>1, <2>2
  <2>4. CASE al + j <= lk
    <3>1. at[l] + j \in 1 .. Len(link)
      BY <1>3, <2>2, <2>3, <2>4
    <3>2. link[at[l] + j] = Piece(form, list[l], j)
      BY <3>1 DEF Holds
    <3> QED BY <1>2, <3>1, <3>2
  <2>5. CASE ~(al + j <= lk)
    <3>1. ~(l < k)
      <4>1. SUFFICES ASSUME l < k PROVE FALSE
        OBVIOUS
      <4>2. l + 1 \in 1 .. Len(list) + 1 /\ k \in 1 .. Len(list) + 1 /\ l + 1 <= k
        BY <1>1, <4>1
      <4>3. al + sl <= ak
        BY <1>3, <2>3, <4>2 DEF Places
      <4> QED BY <1>4, <2>3, <2>5, <4>3
    <3>2. ~(k < l)
      <4>1. SUFFICES ASSUME k < l PROVE FALSE
        OBVIOUS
      <4>2. k + 1 \in 1 .. Len(list) + 1 /\ l \in 1 .. Len(list) + 1 /\ k + 1 <= l
        BY <1>1, <4>1
      <4>3. ak + sk <= al
        BY <1>4, <2>2, <4>2 DEF Places
      <4> QED BY <1>4, <2>3, <4>3
    <3>3. l = k
      BY <1>1, <3>1, <3>2
    <3>4. al = ak /\ sl = sk
      BY <1>3, <2>2, <3>3
    <3>5. PICK i : i = j - g
      OBVIOUS
    <3>6. i \in 1 .. mr /\ g + i = j /\ al + j = lk + i
      BY <1>4, <2>3, <2>5, <3>4, <3>5
    <3>7. (link \o more)[Len(link) + i] = more[i] /\ more[i] = Piece(form, list[k], g + i)
      BY <1>2, <1>3, <3>6
    <3> QED BY <1>3, <2>2, <3>3, <3>6, <3>7
  <2> QED BY <2>4, <2>5
<1> QED BY <1>2, <1>5 DEF Holds
-----------------------------------------------------------------------------
(* The pending packets.                                                    *)

(* A sequence is its first element and the others. *)
LEMMA HeadFirst ==
  ASSUME NEW S, NEW Y \in Seq(S), Len(Y) > 0
  PROVE  Y = <<Y[1]>> \o Tail(Y)
<1>1. Y # <<>> /\ 1 \in 1 .. Len(Y)
  BY EmptyLength, LenProperties
<1>2. Len(Y) \in Nat
  BY LenProperties
<1>3. Len(Y) \in 1 .. Len(Y)
  BY <1>2
<1>4. SubSeq(Y, 1, Len(Y)) = <<Y[1]>> \o SubSeq(Y, 2, Len(Y))
  BY <1>1, <1>3, SubSeqRecursiveFirst
<1>5. SubSeq(Y, 1, Len(Y)) = Y
  BY SubSeqFull
<1>6. Tail(Y) = SubSeq(Y, 2, Len(Y))
  BY <1>1, TailIsSubSeq
<1> QED BY <1>4, <1>5, <1>6

(* A packet goes over from the list behind to the one before it. *)
LEMMA GoesOver ==
  ASSUME NEW X \in Seq(Packets), NEW Y \in Seq(Packets), NEW Z \in Seq(Packets), Len(Y) > 0
  PROVE  X \o (Y \o Z) = Append(X, Y[1]) \o (Tail(Y) \o Z)
<1>1. Y # <<>> /\ Y[1] \in Packets /\ Tail(Y) \in Seq(Packets) /\ 1 \in 1 .. Len(Y)
  BY EmptyLength, HeadAndTail, LenProperties
<1>2. <<Y[1]>> \in Seq(Packets)
  BY <1>1
<1>3. Y = <<Y[1]>> \o Tail(Y)
  BY HeadFirst
<1>4. Append(X, Y[1]) = X \o <<Y[1]>>
  BY <1>1, AppendIsConcat
<1>5. Y \o Z = <<Y[1]>> \o (Tail(Y) \o Z)
  BY <1>1, <1>2, <1>3, ConcatAssociative
<1>6. Tail(Y) \o Z \in Seq(Packets)
  BY <1>1, ConcatProperties
<1>7. X \o (<<Y[1]>> \o (Tail(Y) \o Z)) = (X \o <<Y[1]>>) \o (Tail(Y) \o Z)
  <2>1. PICK e, W : e = <<Y[1]>> /\ W = Tail(Y) \o Z
    OBVIOUS
  <2>2. e \in Seq(Packets) /\ W \in Seq(Packets)
    BY <1>2, <1>6, <2>1
  <2>3. ASSUME NEW s \in Seq(Packets), NEW t \in Seq(Packets), NEW u \in Seq(Packets)
        PROVE  (s \o t) \o u = s \o (t \o u)
    BY ConcatAssociative, SMTT(30)
  <2>4. (X \o e) \o W = X \o (e \o W)
    BY <2>2, <2>3
  <2> QED BY <2>1, <2>4
<1> QED BY <1>4, <1>5, <1>7

(* One more behind all of them. *)
LEMMA AppendBehind ==
  ASSUME NEW X \in Seq(Packets), NEW Y \in Seq(Packets), NEW p \in Packets
  PROVE  Append(X \o Y, p) = X \o Append(Y, p)
<1>1. <<p>> \in Seq(Packets)
  OBVIOUS
<1>2. X \o Y \in Seq(Packets)
  BY ConcatProperties
<1>3. Append(X \o Y, p) = (X \o Y) \o <<p>> /\ Append(Y, p) = Y \o <<p>>
  BY <1>2, AppendIsConcat
<1>4. (X \o Y) \o <<p>> = X \o (Y \o <<p>>)
  BY <1>1, ConcatAssociative
<1> QED BY <1>3, <1>4

(* A packet comes behind those of the four lists. *)
LEMMA ListsGrow ==
  ASSUME NEW P, NEW U, NEW Q, NEW R, Lists(P, U, Q, R), NEW p \in Packets,
         pending' = Append(pending, p)
  PROVE  Lists(P, U, Q, Append(R, p))'
<1>1. ASSUME NEW X \in Seq(Packets), NEW Y \in Seq(Packets)
      PROVE  X \o Y \in Seq(Packets) /\ Append(X \o Y, p) = X \o Append(Y, p)
  <2>1. X \o Y \in Seq(Packets)
    BY ConcatProperties
  <2>2. Append(X \o Y, p) = X \o Append(Y, p)
    BY AppendBehind, Zenon
  <2> QED BY <2>1, <2>2
<1>2. PICK B, C : B = Q \o R /\ C = U \o B
  OBVIOUS
<1>3. /\ P \in Seq(Packets) /\ U \in Seq(Packets) /\ Q \in Seq(Packets) /\ R \in Seq(Packets)
      /\ pending = P \o C
  BY <1>2 DEF Lists
<1>4. B \in Seq(Packets) /\ Append(B, p) = Q \o Append(R, p)
  BY <1>1, <1>2, <1>3
<1>5. C \in Seq(Packets) /\ Append(C, p) = U \o Append(B, p)
  BY <1>1, <1>2, <1>3, <1>4
<1>6. Append(P \o C, p) = P \o Append(C, p)
  BY <1>1, <1>3, <1>5
<1>7. pending' = P \o (U \o (Q \o Append(R, p)))
  BY <1>3, <1>4, <1>5, <1>6
<1>8. Append(R, p) \in Seq(Packets)
  BY <1>3, AppendOne
<1> QED BY <1>3, <1>7, <1>8 DEF Lists

(* The first one of a list that is behind another leaves. *)
LEMMA LeavesBehind ==
  ASSUME NEW S, NEW X \in Seq(S), NEW Y \in Seq(S), Len(Y) > 0
  PROVE  /\ Len(X) + 1 \in 1 .. Len(X \o Y)
         /\ (X \o Y)[Len(X) + 1] = Y[1]
         /\ RemoveAt(X \o Y, Len(X) + 1) = X \o Tail(Y)
<1>1. Len(X) \in Nat /\ Len(Y) \in Nat /\ Y # <<>>
  BY LenProperties, EmptyLength
<1>2. /\ X \o Y \in Seq(S) /\ Len(X \o Y) = Len(X) + Len(Y)
      /\ \A i \in 1 .. Len(X) : (X \o Y)[i] = X[i]
      /\ \A i \in 1 .. Len(Y) : (X \o Y)[Len(X) + i] = Y[i]
  BY JoinProperties
<1>3. PICK x, y \in Nat : x = Len(X) /\ y = Len(Y) /\ y > 0
  BY <1>1
<1>4. PICK all : all = X \o Y
  OBVIOUS
<1>5. all \in Seq(S) /\ Len(all) = x + y
  BY <1>2, <1>3, <1>4
<1>6. \A i \in 1 .. x : all[i] = X[i]
  BY <1>2, <1>3, <1>4
<1>7. \A i \in 1 .. y : all[x + i] = Y[i]
  BY <1>2, <1>3, <1>4
<1>8. SubSeq(all, 1, x) = X
  <2>1. x \in 0 .. Len(all)
    BY <1>3, <1>5
  <2>2. SubSeq(all, 1, x) \in Seq(S) /\ Len(SubSeq(all, 1, x)) = x
    BY <1>5, <2>1, FrontProperties
  <2>3. \A i \in 1 .. x : SubSeq(all, 1, x)[i] = all[i]
    BY <1>5, <2>1, FrontProperties
  <2>4. \A i \in 1 .. Len(SubSeq(all, 1, x)) : SubSeq(all, 1, x)[i] = X[i]
    BY <1>6, <2>2, <2>3
  <2> QED BY <1>3, <2>2, <2>4, SeqEqual
<1>9. SubSeq(all, x + 2, Len(all)) = Tail(Y)
  <2>1. x + 1 \in 0 .. Len(all) /\ (x + 1) + 1 = x + 2
    BY <1>3, <1>5
  <2>0. Len(all) - (x + 1) = (x + y) - (x + 1)
    BY <1>5
  <2>2. /\ From(all, x + 1) \in Seq(S)
        /\ Len(From(all, x + 1)) = (x + y) - (x + 1)
        /\ \A i \in 1 .. (x + y) - (x + 1) : From(all, x + 1)[i] = all[i + (x + 1)]
    <3>1. PICK c : c = x + 1
      OBVIOUS
    <3>2. all \in Seq(S) /\ c \in 0 .. Len(all)
      BY <1>5, <2>1, <3>1
    <3>3. /\ From(all, c) \in Seq(S)
          /\ Len(From(all, c)) = Len(all) - c
          /\ \A i \in 1 .. Len(all) - c : From(all, c)[i] = all[i + c]
      BY <3>2, FromProperties
    <3> QED BY <2>0, <3>1, <3>3
  <2>3. SubSeq(all, x + 2, Len(all)) = From(all, x + 1)
    BY <2>1 DEF From
  <2>4. /\ Tail(Y) \in Seq(S) /\ Len(Tail(Y)) = y - 1
        /\ \A i \in 1 .. y - 1 : Tail(Y)[i] = Y[i + 1]
    BY <1>3, HeadAndTail
  <2>5. (x + y) - (x + 1) = y - 1
    OBVIOUS
  <2>6. Len(From(all, x + 1)) = y - 1
    BY <2>2, <2>5
  <2>7. ASSUME NEW i \in 1 .. y - 1
        PROVE  From(all, x + 1)[i] = Tail(Y)[i]
    <3>1. i + 1 \in 1 .. y /\ i + (x + 1) = x + (i + 1)
      BY <1>3
    <3> QED BY <1>7, <2>2, <2>4, <2>5, <3>1
  <2>8. From(all, x + 1) = Tail(Y)
    BY <2>2, <2>4, <2>6, <2>7, SeqEqual
  <2> QED BY <2>3, <2>8
<1>10. 1 \in 1 .. y /\ x + 1 \in 1 .. x + y /\ (x + 1) - 1 = x /\ (x + 1) + 1 = x + 2
  BY <1>3
<1>11. RemoveAt(all, x + 1) = X \o Tail(Y)
  BY <1>8, <1>9, <1>10 DEF RemoveAt
<1> QED BY <1>3, <1>4, <1>5, <1>7, <1>10, <1>11

(* The first one of all leaves. *)
LEMMA LeavesFirst ==
  ASSUME NEW S, NEW X \in Seq(S), NEW Y \in Seq(S), Len(X) > 0
  PROVE  /\ Len(X \o Y) > 0 /\ (X \o Y)[1] = X[1]
         /\ Tail(X \o Y) = Tail(X) \o Y
<1>1. Len(X) \in Nat /\ Len(Y) \in Nat /\ X # <<>> /\ 1 \in 1 .. Len(X)
  BY LenProperties, EmptyLength
<1>2. /\ X \o Y \in Seq(S) /\ Len(X \o Y) = Len(X) + Len(Y)
      /\ \A i \in 1 .. Len(X) : (X \o Y)[i] = X[i]
  BY JoinProperties
<1>3. Len(X \o Y) > 0 /\ X \o Y # <<>>
  BY <1>1, <1>2, EmptyLength
<1>4. <<>> \in Seq(S) /\ Len(<<>>) = 0 /\ <<>> \o (X \o Y) = X \o Y
  BY <1>2, EmptySeq, ConcatEmptySeq
<1>5. RemoveAt(<<>> \o (X \o Y), 0 + 1) = <<>> \o Tail(X \o Y)
  BY <1>2, <1>3, <1>4, LeavesBehind
<1>6. X \o Y = <<X[1]>> \o (Tail(X) \o Y)
  <2>1. PICK e, W : e = <<X[1]>> /\ W = Tail(X)
    OBVIOUS
  <2>2. e \in Seq(S) /\ W \in Seq(S)
    BY <2>1, HeadAndTail
  <2>3. (e \o W) \o Y = e \o (W \o Y)
    BY <2>2, ConcatAssociative, SMTT(30)
  <2>4. X = e \o W
    BY <2>1, HeadFirst
  <2> QED BY <2>1, <2>3, <2>4
<1>7. Tail(X) \in Seq(S) /\ X[1] \in S
  BY HeadAndTail
<1>8. Tail(X) \o Y \in Seq(S)
  BY <1>7, ConcatProperties
<1>9. Tail(<<X[1]>> \o (Tail(X) \o Y)) = Tail(X) \o Y
  <2>1. <<X[1]>> \in Seq(S) /\ Len(<<X[1]>>) = 1
    BY <1>7
  <2>2. PICK e, W : e = <<X[1]>> /\ W = Tail(X) \o Y
    OBVIOUS
  <2>3. e \in Seq(S) /\ Len(e) = 1 /\ W \in Seq(S) /\ Len(W) \in Nat
    BY <1>8, <2>1, <2>2, LenProperties
  <2>4. /\ e \o W \in Seq(S) /\ Len(e \o W) = 1 + Len(W)
        /\ \A i \in 1 .. Len(W) : (e \o W)[1 + i] = W[i]
    <3>1. e \o W \in Seq(S)
      BY <2>3, JoinProperties
    <3>2. Len(e \o W) = Len(e) + Len(W)
      BY <2>3, JoinProperties
    <3>3. \A s, t \in Seq(S) : \A i \in 1 .. Len(t) : (s \o t)[Len(s) + i] = t[i]
      BY JoinProperties
    <3>4. \A i \in 1 .. Len(W) : (e \o W)[Len(e) + i] = W[i]
      BY <2>3, <3>3
    <3> QED BY <2>3, <3>4, <3>1, <3>2, <3>3
  <2>5. Len(e \o W) > 0
    BY <2>3, <2>4
  <2>6. /\ Tail(e \o W) \in Seq(S) /\ Len(Tail(e \o W)) = Len(e \o W) - 1
        /\ \A i \in 1 .. Len(e \o W) - 1 : Tail(e \o W)[i] = (e \o W)[i + 1]
    BY <2>4, <2>5, HeadAndTail
  <2>7. Len(e \o W) - 1 = Len(W)
    BY <2>3, <2>4
  <2>8. \A i \in 1 .. Len(W) : Tail(e \o W)[i] = W[i]
    <3>1. \A i \in 1 .. Len(W) : i + 1 = 1 + i
      OBVIOUS
    <3> QED BY <2>4, <2>6, <2>7, <3>1
  <2> QED BY <2>2, <2>3, <2>6, <2>7, <2>8, SeqEqual
<1> QED BY <1>1, <1>2, <1>3, <1>6, <1>9

(* The packets of a sequence that loses number k, or number 1. *)
LEMMA Removed ==
  ASSUME NEW S, NEW seq \in Seq(S), NEW k \in 1 .. Len(seq)
  PROVE  /\ RemoveAt(seq, k) \in Seq(S) /\ Len(RemoveAt(seq, k)) = Len(seq) - 1
         /\ \A i \in 1 .. Len(seq) - 1 :
              RemoveAt(seq, k)[i] = seq[IF i < k THEN i ELSE i + 1]
<1>1. PICK n \in Nat : n = Len(seq) /\ k \in 1 .. n
  BY LenProperties
<1>2. k - 1 \in 0 .. Len(seq) /\ k \in 0 .. Len(seq) /\ k - 1 \in Nat
  BY <1>1
<1>3. PICK a, b : a = SubSeq(seq, 1, k - 1) /\ b = From(seq, k)
  OBVIOUS
<1>4. a \in Seq(S) /\ Len(a) = k - 1 /\ \A i \in 1 .. k - 1 : a[i] = seq[i]
  BY <1>2, <1>3, FrontProperties
<1>5. b \in Seq(S) /\ Len(b) = n - k /\ \A i \in 1 .. n - k : b[i] = seq[i + k]
  BY <1>1, <1>2, <1>3, FromProperties
<1>6. RemoveAt(seq, k) = a \o b
  BY <1>3 DEF RemoveAt, From
<1>7. /\ a \o b \in Seq(S) /\ Len(a \o b) = (k - 1) + (n - k)
      /\ \A i \in 1 .. k - 1 : (a \o b)[i] = a[i]
      /\ \A i \in 1 .. n - k : (a \o b)[(k - 1) + i] = b[i]
  <2>1. a \o b \in Seq(S)
    BY <1>4, <1>5, JoinProperties
  <2>2. Len(a \o b) = Len(a) + Len(b)
    BY <1>4, <1>5, JoinProperties
  <2>3. \A i \in 1 .. Len(a) : (a \o b)[i] = a[i]
    BY <1>4, <1>5, JoinProperties
  <2>4. \A i \in 1 .. Len(b) : (a \o b)[Len(a) + i] = b[i]
    BY <1>4, <1>5, JoinProperties
  <2> QED BY <1>4, <1>5, <2>1, <2>2, <2>3, <2>4
<1>8. (k - 1) + (n - k) = n - 1
  BY <1>1
<1>9. ASSUME NEW i \in 1 .. n - 1
      PROVE  (a \o b)[i] = seq[IF i < k THEN i ELSE i + 1]
  <2>1. CASE i < k
    <3>1. i \in 1 .. k - 1
      BY <2>1
    <3> QED BY <1>4, <1>7, <2>1, <3>1
  <2>2. CASE ~(i < k)
    <3>1. PICK j : j = i - (k - 1)
      OBVIOUS
    <3>2. j \in 1 .. n - k /\ (k - 1) + j = i /\ j + k = i + 1
      BY <1>1, <2>2, <3>1
    <3> QED BY <1>5, <1>7, <2>2, <3>2
  <2> QED BY <2>1, <2>2
<1> QED BY <1>1, <1>6, <1>7, <1>8, <1>9

(* A packet is removed where it is. *)
LEMMA WithoutIsRemoval ==
  ASSUME pending \in Seq(Packets), DifferentIds, NEW k \in 1 .. Len(pending)
  PROVE  Without(pending[k]) = RemoveAt(pending, k)
<1>1. \A i \in 1 .. Len(pending) : pending[i] = pending[k] <=> i = k
  BY DEF DifferentIds
<1>2. {i \in 1 .. Len(pending) : pending[i] = pending[k]} = {k}
  BY <1>1
<1>3. SelectInSeq(pending, LAMBDA v : v = pending[k]) = k
  <2>1. Min({k}) = k
    <3>1. \A x \in {k} : k <= x
      OBVIOUS
    <3> QED BY <3>1 DEF Min
  <2> QED BY <1>2, <2>1 DEF SelectInSeq
<1> QED BY <1>3 DEF Without, RemoveFirst

(* Packets with different ids are few. *)
LEMMA DifferentAreFew ==
  ASSUME NEW list \in Seq(Packets),
         \A i, j \in 1 .. Len(list) : i # j => list[i].id # list[j].id
  PROVE  Len(list) <= NumIds
<1>1. PICK n \in Nat : n = Len(list)
  BY LenProperties
<1>2. SUFFICES ASSUME n > NumIds PROVE FALSE
  BY <1>1, Sizes
<1>3. PICK f : f = [i \in 1 .. n |-> list[i].id]
  OBVIOUS
<1>4. f \in [1 .. n -> 1 .. NumIds]
  BY <1>1, <1>3, ElementOfSeq, PacketSizes
<1>5. /\ IsFiniteSet(1 .. n) /\ Cardinality(1 .. n) = n
      /\ IsFiniteSet(1 .. NumIds) /\ Cardinality(1 .. NumIds) = NumIds
  <2>1. n \in Int /\ NumIds \in Int /\ ~(1 > n) /\ ~(1 > NumIds) /\ n - 1 + 1 = n
        /\ NumIds - 1 + 1 = NumIds
    BY <1>2, Sizes
  <2> QED BY <2>1, FS_Interval
<1>6. PICK x, y \in 1 .. n : x # y /\ f[x] = f[y]
  <2>1. PICK A, B : A = 1 .. n /\ B = 1 .. NumIds
    OBVIOUS
  <2>2. IsFiniteSet(A) /\ IsFiniteSet(B) /\ Cardinality(B) < Cardinality(A) /\ f \in [A -> B]
    BY <1>2, <1>4, <1>5, <2>1
  <2>3. \E x, y \in A : x # y /\ f[x] = f[y]
    BY <2>2, FS_PigeonHole
  <2> QED BY <2>1, <2>3
<1> QED BY <1>1, <1>3, <1>6

-----------------------------------------------------------------------------
(* The arriving packets.                                                   *)

(* Whole bytes. *)
LEMMA Multiples ==
  ASSUME NEW x \in Int, NEW y \in Int
  PROVE  /\ x * InputsPerOutput \in Int
         /\ (x + y) * InputsPerOutput = x * InputsPerOutput + y * InputsPerOutput
         /\ (x - y) * InputsPerOutput = x * InputsPerOutput - y * InputsPerOutput
         /\ x * InputsPerOutput > 0 <=> x > 0
         /\ x * InputsPerOutput <= 0 <=> x <= 0
         /\ x * InputsPerOutput >= 0 <=> x >= 0
<1>1. PICK b \in Nat : b = InputsPerOutput /\ b > 0
  BY Sizes
<1>2. x * b \in Int
  OBVIOUS
<1>3. (x + y) * b = x * b + y * b /\ (x - y) * b = x * b - y * b
  OBVIOUS
<1>4. x > 0 => x * b > 0
  BY <1>1
<1>5. x < 0 => x * b < 0
  BY <1>1
<1>6. x = 0 => x * b = 0
  OBVIOUS
<1>7. x * b > 0 <=> x > 0
  BY <1>2, <1>4, <1>5, <1>6
<1>8. x * b <= 0 <=> x <= 0
  BY <1>2, <1>7
<1>9. x * b >= 0 <=> x >= 0
  BY <1>2, <1>4, <1>5, <1>6
<1> QED BY <1>1, <1>2, <1>3, <1>7, <1>8, <1>9

(* What the places of arriving packets are. *)
LEMMA ArrivingTypes ==
  ASSUME NEW list \in Seq(Packets), NEW at, NEW bit_at, NEW d,
         bits \in Seq(Item), bytes \in Seq(Item),
         packet \in Packets, place \in 1 .. AllBits(packet),
         ArrivingAt(list, at, bit_at, d)
  PROVE  /\ Len(list) \in Nat /\ Len(bits) \in Nat /\ Len(bytes) \in Nat
         /\ Coming \in Nat /\ AllBits(packet) \in Nat
         /\ \A k \in 1 .. Len(list) + 1 :
              /\ at[k] \in Int /\ bit_at[k] \in Int
              /\ bit_at[k] = (at[k] - Len(bytes)) * InputsPerOutput
              /\ bit_at[k] <= 0 <=> at[k] <= Len(bytes)
              /\ bit_at[k] >= 0 <=> at[k] >= Len(bytes)
         /\ \A k \in 1 .. Len(list) :
              /\ list[k] \in Packets /\ list[k].len \in Nat /\ list[k].len > 0
              /\ at[k + 1] = at[k] + list[k].len
              /\ AllBits(list[k]) \in Nat /\ AllBits(list[k]) > 0
              /\ bit_at[k + 1] = bit_at[k] + AllBits(list[k])
<1>1. Places("bytes", list, at) /\ Places("bits", list, bit_at)
  BY DEF ArrivingAt
<1>2. Len(list) \in Nat /\ Len(bits) \in Nat /\ Len(bytes) \in Nat
  BY LenProperties
<1>3. Coming \in Nat /\ AllBits(packet) \in Nat
  BY PacketSizes DEF Coming
<1>4. "bytes" \in Forms /\ "bits" \in Forms
  BY DEF Forms
<1>5. ASSUME NEW k \in 1 .. Len(list) + 1
      PROVE  /\ at[k] \in Int /\ bit_at[k] \in Int
             /\ bit_at[k] = (at[k] - Len(bytes)) * InputsPerOutput
             /\ bit_at[k] <= 0 <=> at[k] <= Len(bytes)
             /\ bit_at[k] >= 0 <=> at[k] >= Len(bytes)
  <2>1. at[k] \in Int /\ bit_at[k] \in Int
    BY <1>1, <1>4, PlaceTypes
  <2>2. bit_at[k] = (at[k] - Len(bytes)) * InputsPerOutput
    BY DEF ArrivingAt
  <2>3. PICK a, m \in Int : a = at[k] /\ m = Len(bytes)
    BY <1>2, <2>1
  <2>4. /\ (a - m) * InputsPerOutput <= 0 <=> a - m <= 0
        /\ (a - m) * InputsPerOutput >= 0 <=> a - m >= 0
    <3>1. PICK x \in Int : x = a - m
      OBVIOUS
    <3> QED BY <3>1, Multiples
  <2>5. (a - m <= 0 <=> a <= m) /\ (a - m >= 0 <=> a >= m)
    OBVIOUS
  <2> QED BY <2>1, <2>2, <2>3, <2>4, <2>5
<1>6. ASSUME NEW k \in 1 .. Len(list)
      PROVE  /\ list[k] \in Packets /\ list[k].len \in Nat /\ list[k].len > 0
             /\ at[k + 1] = at[k] + list[k].len
             /\ AllBits(list[k]) \in Nat /\ AllBits(list[k]) > 0
             /\ bit_at[k + 1] = bit_at[k] + AllBits(list[k])
  <2>1. list[k] \in Packets
    BY ElementOfSeq
  <2>2. at[k + 1] = at[k] + list[k].len
    BY <1>1 DEF Places, Span
  <2>3. bit_at[k + 1] = bit_at[k] + AllBits(list[k])
    BY <1>1 DEF Places, Span
  <2> QED BY <2>1, <2>2, <2>3, PacketSizes
<1> QED BY <1>2, <1>3, <1>5, <1>6

(* A packet begins to arrive. *)
LEMMA NewArrives ==
  ASSUME bits \in Seq(Item), bytes \in Seq(Item),
         packet \in Packets, place \in 1 .. AllBits(packet), place = AllBits(packet),
         NEW list \in Seq(Packets), Arriving(list), NEW p \in Packets,
         packet' = p, place' = 1, bits' = Append(bits, Piece("bits", p, 1)),
         UNCHANGED <<bytes, crc_packet_len, offered>>
  PROVE  Arriving(Append(list, p))'
<1>1. PICK at, bit_at, d : ArrivingAt(list, at, bit_at, d)
  BY DEF Arriving
<1>2. PICK n \in Nat : n = Len(list)
  BY LenProperties
<1>3. PICK all : all = Append(list, p)
  OBVIOUS
<1>4. /\ all \in Seq(Packets) /\ Len(all) = n + 1
      /\ \A i \in 1 .. n : all[i] = list[i]
      /\ all[n + 1] = p
  BY <1>2, <1>3, AppendOne
<1>5. PICK next : next = [k \in 1 .. Len(list) + 2 |->
                   IF k = Len(list) + 2 THEN at[Len(list) + 1] + Span("bytes", p) ELSE at[k]]
  OBVIOUS
<1>6. PICK bit_next : bit_next = [k \in 1 .. Len(list) + 2 |->
                   IF k = Len(list) + 2 THEN bit_at[Len(list) + 1] + Span("bits", p)
                                        ELSE bit_at[k]]
  OBVIOUS
<1>7. /\ Places("bytes", list, at) /\ Places("bits", list, bit_at)
      /\ Holds("bytes", bytes, list, at) /\ Holds("bits", bits, list, bit_at)
      /\ Len(bits) = bit_at[Len(list) + 1] - Coming
      /\ "bytes" \in Forms /\ "bits" \in Forms
  BY <1>1 DEF ArrivingAt, Forms
<1>8. /\ Places("bytes", all, next)
      /\ Len(bytes) <= at[Len(list) + 1] => Holds("bytes", bytes, all, next)
  BY <1>3, <1>5, <1>7, PacketComes
<1>9. /\ Places("bits", all, bit_next)
      /\ Len(bits) <= bit_at[Len(list) + 1] => Holds("bits", bits, all, bit_next)
  BY <1>3, <1>6, <1>7, PacketComes
<1>10. /\ n + 1 \in 1 .. n + 1 /\ n + 2 \in 1 .. n + 2 /\ n + 1 \in 1 .. n + 2
       /\ \A k \in 1 .. n + 2 : k \in 1 .. n + 1 \/ k = n + 2
       /\ \A k \in 1 .. n + 1 : k \in 1 .. n + 2 /\ k # n + 2
  OBVIOUS
<1>11. \A k \in 1 .. n + 1 : next[k] = at[k] /\ bit_next[k] = bit_at[k]
  BY <1>2, <1>5, <1>6, <1>10
<1>12. next[n + 2] = at[n + 1] + p.len /\ bit_next[n + 2] = bit_at[n + 1] + AllBits(p)
  BY <1>2, <1>5, <1>6, <1>10 DEF Span
<1>13. p.len \in Nat /\ AllBits(p) \in Nat /\ AllBits(p) > 0
       /\ AllBits(p) = p.len * InputsPerOutput
  BY PacketSizes
<1>14. Len(bits) = bit_at[n + 1] /\ Len(bits) \in Nat /\ Len(bytes) \in Nat
  <2>1. Coming = 0
    BY PacketSizes DEF Coming
  <2>2. Len(bits) \in Nat /\ bit_at[n + 1] \in Int /\ Len(bytes) \in Nat
    BY <1>1, <1>2, <1>10, ArrivingTypes
  <2> QED BY <1>2, <1>7, <2>1, <2>2
<1>15. /\ at[n + 1] \in Int /\ at[n + 1] >= Len(bytes)
       /\ bit_at[n + 1] = (at[n + 1] - Len(bytes)) * InputsPerOutput
  BY <1>1, <1>2, <1>10, <1>14, ArrivingTypes
<1>16. Holds("bytes", bytes', all, next)
  BY <1>2, <1>8, <1>14, <1>15
<1>17. bits' = bits \o <<Piece("bits", p, 1)>> /\ <<Piece("bits", p, 1)>> \in Seq(Item)
  <2>1. Piece("bits", p, 1) \in Item
    BY <1>7, Pieces
  <2> QED BY <2>1, AppendIsConcat
<1>18. Len(bits') = Len(bits) + 1
  <2>1. Piece("bits", p, 1) \in Item
    BY <1>7, Pieces
  <2> QED BY <2>1, AppendOne
<1>19. Holds("bits", bits', all, bit_next)
  <2>1. PICK more : more = <<Piece("bits", p, 1)>>
    OBVIOUS
  <2>2. more \in Seq(Item) /\ Len(more) = 1 /\ more[1] = Piece("bits", p, 1)
    BY <1>17, <2>1
  <2>3. Holds("bits", bits, all, bit_next)
    BY <1>2, <1>9, <1>14
  <2>4. n + 1 \in 1 .. Len(all) /\ bit_next[n + 1] + 0 = Len(bits)
    BY <1>4, <1>10, <1>11, <1>14
  <2>5. Span("bits", all[n + 1]) = AllBits(p) /\ 0 + Len(more) <= AllBits(p)
    BY <1>4, <1>13, <2>2 DEF Span
  <2>6. \A i \in 1 .. Len(more) : more[i] = Piece("bits", all[n + 1], 0 + i)
    BY <1>4, <2>2
  <2>7. Holds("bits", bits \o more, all, bit_next)
    BY <1>4, <1>7, <1>9, <2>2, <2>3, <2>4, <2>5, <2>6, ItemsCome
  <2> QED BY <1>17, <2>1, <2>7
<1>20. ArrivingAt(all, next, bit_next, d)'
  <2>1. next[1] = 0
    BY <1>1, <1>2, <1>11 DEF ArrivingAt
  <2>2. ASSUME NEW k \in 1 .. n + 2
        PROVE  bit_next[k] = (next[k] - Len(bytes)) * InputsPerOutput
    <3>1. CASE k \in 1 .. n + 1
      BY <1>1, <1>2, <1>11, <3>1 DEF ArrivingAt
    <3>2. CASE k = n + 2
      <4>1. PICK a, m, l \in Int : a = at[n + 1] /\ m = Len(bytes) /\ l = p.len
        BY <1>13, <1>14, <1>15
      <4>2. PICK x \in Int : x = a - m
        OBVIOUS
      <4>3. (x + l) * InputsPerOutput = x * InputsPerOutput + l * InputsPerOutput
        BY Multiples
      <4>4. (a + l) - m = x + l
        BY <4>2
      <4> QED BY <1>12, <1>13, <1>15, <3>2, <4>1, <4>2, <4>3, <4>4
    <3> QED BY <1>10, <3>1, <3>2
  <2>3. /\ d \in 1 .. n + 1 /\ bit_at[d] <= 0
        /\ d <= n => bit_at[d + 1] > 0
    BY <1>1, <1>2 DEF ArrivingAt
  <2>4. d \in 1 .. n + 2 /\ bit_next[d] <= 0
    BY <1>11, <2>3
  <2>5. bit_next[d + 1] > 0
    <3>1. CASE d <= n
      <4>1. d + 1 \in 1 .. n + 1
        BY <2>3, <3>1
      <4> QED BY <1>11, <2>3, <3>1, <4>1
    <3>2. CASE d = n + 1
      <4>1. bit_next[d + 1] = Len(bits) + AllBits(p)
        BY <1>12, <1>14, <3>2
      <4> QED BY <1>13, <1>14, <4>1
    <3> QED BY <2>3, <3>1, <3>2
  <2>6. Len(bits') = bit_next[n + 2] - Coming'
    <3>1. Coming' = AllBits(p) - 1
      BY DEF Coming
    <3>2. bit_next[n + 2] = Len(bits) + AllBits(p)
      BY <1>12, <1>14
    <3> QED BY <1>13, <1>14, <1>18, <3>1, <3>2
  <2>7. Len(all) + 1 = n + 2
    BY <1>4
  <2> QED BY <1>8, <1>9, <1>16, <1>19, <2>1, <2>2, <2>4, <2>5, <2>6, <2>7 DEF ArrivingAt
<1>21. LengthKnown(all)'
  <2>1. LengthKnown(list)
    BY DEF Arriving
  <2>2. Len(list) > 0 => 1 \in 1 .. n
    BY <1>2
  <2> QED BY <1>2, <1>4, <2>1, <2>2 DEF LengthKnown
<1>22. ComesLast(all)'
  BY <1>4 DEF ComesLast
<1> QED BY <1>3, <1>20, <1>21, <1>22 DEF Arriving

(* One more bit of the packet arrives. *)
LEMMA MoreArrives ==
  ASSUME bits \in Seq(Item), bytes \in Seq(Item),
         packet \in Packets, place \in 1 .. AllBits(packet), place # AllBits(packet),
         NEW list \in Seq(Packets), Arriving(list),
         place' = place + 1, bits' = Append(bits, Piece("bits", packet, place + 1)),
         UNCHANGED <<packet, bytes, crc_packet_len, offered>>
  PROVE  Arriving(list)'
<1>1. PICK at, bit_at, d : ArrivingAt(list, at, bit_at, d)
  BY DEF Arriving
<1>2. PICK n \in Nat : n = Len(list)
  BY LenProperties
<1>3. AllBits(packet) \in Nat /\ place + 1 \in Nat /\ place + 1 <= AllBits(packet)
      /\ Coming = AllBits(packet) - place /\ Coming > 0 /\ Coming' = Coming - 1
  <2>1. AllBits(packet) \in Nat
    BY PacketSizes
  <2>2. AllBits(packet)' = AllBits(packet)
    BY DEF AllBits
  <2> QED BY <2>1, <2>2 DEF Coming
<1>4. n > 0 /\ packet = list[n]
  BY <1>2, <1>3 DEF Arriving, ComesLast
<1>5. n \in 1 .. Len(list) /\ n + 1 \in 1 .. Len(list) + 1 /\ n \in 1 .. Len(list) + 1
  BY <1>2, <1>4
<1>6. /\ bit_at[n] \in Int /\ bit_at[n + 1] \in Int /\ Len(bits) \in Nat
      /\ bit_at[n + 1] = bit_at[n] + AllBits(packet)
  BY <1>1, <1>4, <1>5, ArrivingTypes
<1>7. Len(bits) = bit_at[n + 1] - Coming
  BY <1>1, <1>2 DEF ArrivingAt
<1>8. Piece("bits", packet, place + 1) \in Item
  BY <1>3, Pieces DEF Forms
<1>9. /\ bits' = bits \o <<Piece("bits", packet, place + 1)>>
      /\ Len(bits') = Len(bits) + 1
  BY <1>8, AppendIsConcat, AppendOne
<1>10. Holds("bits", bits', list, bit_at)
  <2>1. PICK more : more = <<Piece("bits", packet, place + 1)>>
    OBVIOUS
  <2>2. more \in Seq(Item) /\ Len(more) = 1 /\ more[1] = Piece("bits", packet, place + 1)
    BY <1>8, <2>1
  <2>3. bit_at[n] + place = Len(bits) /\ place \in Nat
    <3>1. PICK x, y, z, c \in Int :
            x = bit_at[n] /\ y = AllBits(packet) /\ z = Len(bits) /\ c = Coming
      BY <1>3, <1>6
    <3>2. z = (x + y) - c /\ c = y - place /\ place \in Nat
      BY <1>3, <1>6, <1>7, <3>1
    <3>3. x + place = z
      BY <3>2
    <3> QED BY <3>1, <3>2, <3>3
  <2>4. Span("bits", list[n]) = AllBits(packet) /\ place + Len(more) <= AllBits(packet)
    BY <1>3, <1>4, <2>2 DEF Span
  <2>5. \A i \in 1 .. Len(more) : more[i] = Piece("bits", list[n], place + i)
    BY <1>4, <2>2
  <2>6. Places("bits", list, bit_at) /\ Holds("bits", bits, list, bit_at) /\ "bits" \in Forms
    BY <1>1 DEF ArrivingAt, Forms
  <2>7. Holds("bits", bits \o more, list, bit_at)
    BY <1>5, <2>2, <2>3, <2>4, <2>5, <2>6, ItemsCome
  <2> QED BY <1>9, <2>1, <2>7
<1>11. Len(bits') = bit_at[Len(list) + 1] - Coming'
  <2>1. PICK y, z, c \in Int : y = bit_at[n + 1] /\ z = Len(bits) /\ c = Coming
    BY <1>3, <1>6
  <2>2. z = y - c /\ Len(bits') = z + 1 /\ Coming' = c - 1
    BY <1>3, <1>7, <1>9, <2>1
  <2>3. z + 1 = y - (c - 1)
    BY <2>2
  <2> QED BY <1>2, <2>1, <2>2, <2>3
<1>12. ArrivingAt(list, at, bit_at, d)'
  BY <1>1, <1>10, <1>11 DEF ArrivingAt
<1>13. LengthKnown(list)' /\ ComesLast(list)'
  BY <1>2, <1>4 DEF Arriving, LengthKnown, ComesLast
<1> QED BY <1>12, <1>13 DEF Arriving
BitsIn(count) == count * InputsPerOutput

(* The bits of count bytes of p that are behind c others. *)
AreBits(chunk, p, c, count) ==
  /\ chunk \in Seq(Item) /\ Len(chunk) = BitsIn(count)
  /\ \A i \in 1 .. BitsIn(count) : chunk[i] = Piece("bits", p, BitsIn(c) + i)

(* Bits of a packet from the first of a byte on are packed to its bytes. *)
LEMMA PacksBytes ==
  ASSUME NEW p \in Packets, NEW c \in Nat, NEW count \in Nat, count > 0, c + count <= p.len,
         NEW chunk, AreBits(chunk, p, c, count)
  PROVE  /\ chunk[1].bits % InputsPerOutput = 0
         /\ PACK!Packed(chunk) \in Seq(Item) /\ Len(PACK!Packed(chunk)) = count
         /\ \A k \in 1 .. count : PACK!Packed(chunk)[k] = Piece("bytes", p, c + k)
<1>1. PICK b \in Nat : b = InputsPerOutput /\ b > 0
  BY Sizes
<1>2. PICK all \in Nat : all = p.len /\ all > 0 /\ AllBits(p) = all * b
  BY <1>1, PacketSizes
<1>3. PICK len \in Nat : len = Len(chunk) /\ len = BitsIn(count) /\ len = count * b
  BY <1>1, LenProperties DEF BitsIn, AreBits
<1>4. PICK cb \in Nat : cb = BitsIn(c) /\ cb = c * b
  <2>1. \A x, y \in Nat : x * y \in Nat
    OBVIOUS
  <2> QED BY <1>1, <2>1 DEF BitsIn
<1>5. \A i \in 1 .. len : chunk[i] = Piece("bits", p, cb + i)
  BY <1>3, <1>4 DEF AreBits
<1>6. 1 \in 1 .. len /\ len \div b = count
  <2>1. \A x, y \in Nat : x > 0 /\ y > 0 => x * y > 0 /\ (x * y) \div y = x
    OBVIOUS
  <2> QED BY <1>1, <1>3, <2>1
<1>7. c = 0 <=> cb = 0
  <2>1. \A x, y \in Nat : y > 0 => (x = 0 <=> x * y = 0)
    OBVIOUS
  <2> QED BY <1>1, <1>4, <2>1
<1>8. chunk[1].bits = IF c = 0 THEN all * b ELSE 0
  <2>1. chunk[1].bits = IF cb + 1 = 1 THEN AllBits(p) ELSE 0
    <3>1. chunk[1] = Piece("bits", p, cb + 1)
      BY <1>5, <1>6
    <3>2. Piece("bits", p, cb + 1).bits = IF cb + 1 = 1 THEN Span("bits", p) ELSE 0
      BY DEF Piece
    <3>3. Span("bits", p) = AllBits(p)
      BY DEF Span
    <3> QED BY <3>1, <3>2, <3>3
  <2> QED BY <1>2, <1>7, <2>1
<1>9. chunk[1].bits % b = 0 /\ chunk[1].bits \div b = IF c = 0 THEN all ELSE 0
  <2>1. \A x, y \in Nat : y > 0 => (x * y) % y = 0 /\ (x * y) \div y = x
    OBVIOUS
  <2>2. 0 % b = 0 /\ 0 \div b = 0
    BY <1>1
  <2> QED BY <1>1, <1>2, <1>8, <2>1, <2>2
<1>10. ASSUME NEW k \in 1 .. count
       PROVE  PACK!Join(SubSeq(chunk, (k - 1) * b + 1, k * b),
                        IF k = 1 THEN PACK!TagOut(chunk[1].bits) ELSE 0)
                = Piece("bytes", p, c + k)
  <2>1. PICK x, y \in Nat : /\ x = (k - 1) * b /\ y = k * b /\ y = x + b /\ y <= len
                            /\ cb + y = (c + k) * b
    <3>1. \A u, v, w \in Nat : u > 0 /\ u <= v =>
            /\ (u - 1) * w \in Nat /\ u * w \in Nat /\ u * w = (u - 1) * w + w
            /\ u * w <= v * w
      <4>1. ASSUME NEW u \in Nat, NEW v \in Nat, NEW w \in Nat, u > 0, u <= v
            PROVE  /\ (u - 1) * w \in Nat /\ u * w \in Nat /\ u * w = (u - 1) * w + w
                   /\ u * w <= v * w
        <5>1. PICK e \in Nat : e = u - 1 /\ u = e + 1
          BY <4>1
        <5>2. e * w \in Nat /\ (e + 1) * w = e * w + w
          OBVIOUS
        <5>3. PICK f \in Nat : f = v - u /\ v = u + f
          BY <4>1
        <5>4. f * w \in Nat /\ (u + f) * w = u * w + f * w /\ u * w \in Nat
          OBVIOUS
        <5> QED BY <5>1, <5>2, <5>3, <5>4
      <4> QED BY <4>1
    <3>2. \A u, v, w \in Nat : u * w + v * w = (u + v) * w
      OBVIOUS
    <3>3. k \in Nat /\ k > 0 /\ k <= count
      OBVIOUS
    <3> QED BY <1>1, <1>3, <1>4, <3>1, <3>2, <3>3
  <2>2. PICK part : part = SubSeq(chunk, x + 1, y)
    OBVIOUS
  <2>3. \A i \in x + 1 .. y : i \in 1 .. len
    BY <2>1
  <2>4. \A i \in x + 1 .. y : chunk[i] \in Item
    BY <1>3, <2>3, ElementOfSeq DEF AreBits
  <2>5. x + 1 <= y /\ y - (x + 1) + 1 = b
    BY <1>1, <2>1
  <2>6. /\ part \in Seq(Item) /\ Len(part) = b
        /\ \A i \in 1 .. b : part[i] = chunk[(x + 1) + i - 1]
    <3>1. x + 1 \in Int /\ y \in Int
      OBVIOUS
    <3>2. /\ part \in Seq(Item)
          /\ Len(part) = IF x + 1 <= y THEN y - (x + 1) + 1 ELSE 0
          /\ \A i \in 1 .. y - (x + 1) + 1 : part[i] = chunk[(x + 1) + i - 1]
      BY <2>2, <2>4, <3>1, SubSeqProperties
    <3> QED BY <2>5, <3>2
  <2>7. \A i \in 1 .. b : part[i] = Piece("bits", p, (cb + x) + i)
    <3>1. ASSUME NEW i \in 1 .. b PROVE part[i] = Piece("bits", p, (cb + x) + i)
      <4>1. (x + 1) + i - 1 = x + i /\ x + i \in 1 .. len /\ cb + (x + i) = (cb + x) + i
        BY <2>1
      <4> QED BY <1>5, <2>6, <4>1
    <3> QED BY <3>1
  <2>8. 1 \in 1 .. b /\ DOMAIN part = 1 .. b
    BY <1>1, <2>6, LenProperties
  <2>9. part[1].of = p /\ part[1].place = (cb + x) + 1
    BY <2>7, <2>8 DEF Piece
  <2>10. PACK!Place(part[1]) = c + k
    <3>1. ((cb + x) + 1) + b - 1 = cb + y
      BY <2>1
    <3>2. c + k \in Nat
      OBVIOUS
    <3>3. \A u, v \in Nat : v > 0 => (u * v) \div v = u
      OBVIOUS
    <3> QED BY <1>1, <2>1, <2>9, <3>1, <3>2, <3>3 DEF PACK!Place
  <2>11. [i \in DOMAIN part |-> [of |-> part[i].of, place |-> part[i].place]]
           = PACK!BitsOf(p, c + k)
    <3>1. ((c + k) - 1) * b = cb + x
      <4>1. PICK e \in Int : e = (c + k) - 1 /\ e + 1 = c + k
        OBVIOUS
      <4>2. \A u \in Int, v \in Nat : (u + 1) * v = u * v + v /\ u * v \in Int
        OBVIOUS
      <4>3. (c + k) * b = e * b + b /\ e * b \in Int
        BY <4>1, <4>2
      <4> QED BY <2>1, <4>1, <4>3
    <3>2. ASSUME NEW i \in 1 .. b
          PROVE  part[i].of = p /\ part[i].place = ((c + k) - 1) * b + i
      <4>1. part[i] = Piece("bits", p, (cb + x) + i)
        BY <2>7
      <4>2. part[i].of = p /\ part[i].place = (cb + x) + i
        BY <4>1 DEF Piece
      <4> QED BY <3>1, <4>2
    <3> QED BY <1>1, <2>8, <3>2 DEF PACK!BitsOf
  <2>12. PACK!Join(part, IF k = 1 THEN PACK!TagOut(chunk[1].bits) ELSE 0)
           = [of |-> p, place |-> c + k,
              bits |-> IF k = 1 THEN PACK!TagOut(chunk[1].bits) ELSE 0]
    BY <2>9, <2>10, <2>11 DEF PACK!Join
  <2>13. (IF k = 1 THEN PACK!TagOut(chunk[1].bits) ELSE 0) = IF c + k = 1 THEN all ELSE 0
    <3>1. PACK!TagOut(chunk[1].bits) = IF c = 0 THEN all ELSE 0
      BY <1>1, <1>9 DEF PACK!TagOut
    <3>2. c + k = 1 <=> c = 0 /\ k = 1
      OBVIOUS
    <3> QED BY <3>1, <3>2
  <2> QED BY <1>2, <2>1, <2>2, <2>12, <2>13 DEF Piece, Span
<1>11. PICK packed : packed = PACK!Packed(chunk)
  OBVIOUS
<1>12. /\ packed = [k \in 1 .. count |->
                      PACK!Join(SubSeq(chunk, (k - 1) * b + 1, k * b),
                                IF k = 1 THEN PACK!TagOut(chunk[1].bits) ELSE 0)]
  BY <1>1, <1>3, <1>6, <1>11 DEF PACK!Packed
<1>13. packed = [k \in 1 .. count |-> Piece("bytes", p, c + k)]
  BY <1>10, <1>12
<1>14. packed \in [1 .. count -> Item]
  <2>1. \A k \in 1 .. count : c + k \in Nat
    OBVIOUS
  <2>2. "bytes" \in Forms
    BY DEF Forms
  <2> QED BY <1>13, <2>1, <2>2, Pieces
<1>15. packed \in Seq(Item) /\ Len(packed) = count
  BY <1>14, FunctionIsSeq
<1> QED BY <1>1, <1>9, <1>11, <1>13, <1>15

(* Bytes of the packet that is being packed, number d, go over. *)
LEMMA BitsArePacked ==
  ASSUME bits \in Seq(Item), bytes \in Seq(Item),
         packet \in Packets, place \in 1 .. AllBits(packet),
         NEW list \in Seq(Packets), Arriving(list),
         NEW count \in Nat, count > 0, Chunk(bits, count * InputsPerOutput)
  PROVE  LET chunk == SubSeq(bits, 1, count * InputsPerOutput)
         IN /\ chunk[1].bits % InputsPerOutput = 0
            /\ PACK!Packed(chunk) \in Seq(Item) /\ Len(PACK!Packed(chunk)) = count
            /\ bytes' = bytes \o PACK!Packed(chunk)
               /\ bits' = From(bits, count * InputsPerOutput)
               /\ UNCHANGED <<packet, place, crc_packet_len, offered>>
                 => Arriving(list)'
<1>1. PICK at, bit_at, d : ArrivingAt(list, at, bit_at, d)
  BY DEF Arriving
<1>2. PICK b \in Nat : b = InputsPerOutput /\ b > 0
  BY Sizes
<1>3. PICK n \in Nat : n = Len(list)
  BY LenProperties
<1>4. PICK size \in Nat : size = count * b /\ size > 0 /\ size <= Len(bits)
        /\ \A i \in 2 .. size : bits[i].bits = 0
  <2>1. \A x, y \in Nat : x > 0 /\ y > 0 => x * y \in Nat /\ x * y > 0
    OBVIOUS
  <2> QED BY <1>2, <2>1 DEF Chunk
<1>5. PICK lb, ly, cm \in Nat : lb = Len(bits) /\ ly = Len(bytes) /\ cm = Coming
  BY <1>1, ArrivingTypes
<1>6. PICK bn \in Int : bn = bit_at[n + 1] /\ lb = bn - cm
  <2>1. n + 1 \in 1 .. Len(list) + 1
    BY <1>3
  <2>2. bit_at[n + 1] \in Int
    BY <1>1, <2>1, ArrivingTypes
  <2> QED BY <1>1, <1>3, <1>5, <2>2 DEF ArrivingAt
<1>7. d \in 1 .. n /\ bit_at[d] <= 0 /\ bit_at[d + 1] > 0
  <2>1. d \in 1 .. n + 1 /\ bit_at[d] <= 0 /\ (d <= n => bit_at[d + 1] > 0)
    BY <1>1, <1>3 DEF ArrivingAt
  <2>2. bn > 0
    <3>1. size <= lb /\ size > 0
      BY <1>4, <1>5
    <3>2. lb = bn - cm
      BY <1>6
    <3> QED BY <3>1, <3>2
  <2>3. d # n + 1
    BY <1>6, <2>1, <2>2
  <2> QED BY <2>1, <2>3
<1>8. PICK p \in Packets : p = list[d]
  BY <1>3, <1>7, ElementOfSeq
<1>9. PICK ad, bd, be, len, all :
        /\ ad = at[d] /\ bd = bit_at[d] /\ be = bit_at[d + 1]
        /\ len = p.len /\ all = AllBits(p)
  OBVIOUS
<1>19. d \in 1 .. Len(list) /\ d \in 1 .. Len(list) + 1 /\ d + 1 \in 1 .. Len(list) + 1
  BY <1>3, <1>7
<1>20. ad \in Int /\ ad <= ly
  <2>1. at[d] \in Int /\ (bit_at[d] <= 0 <=> at[d] <= Len(bytes))
    BY <1>1, <1>19, ArrivingTypes
  <2> QED BY <1>5, <1>7, <1>9, <2>1
<1>21. bd \in Int /\ be \in Int /\ bd <= 0 /\ be > 0
  <2>1. bit_at[d] \in Int /\ bit_at[d + 1] \in Int
    BY <1>1, <1>19, ArrivingTypes
  <2> QED BY <1>7, <1>9, <2>1
<1>22. len \in Nat /\ len > 0 /\ all \in Nat /\ all > 0
  BY <1>9, PacketSizes
<1>23. at[d + 1] = ad + len /\ be = bd + all
  <2>1. /\ at[d + 1] = at[d] + list[d].len /\ bit_at[d + 1] = bit_at[d] + AllBits(list[d])
    BY <1>1, <1>19, ArrivingTypes
  <2> QED BY <1>8, <1>9, <2>1
<1>10. PICK c \in Nat : c = ly - ad /\ ad + c = ly
  BY <1>20
<1>11. PICK cb \in Nat : cb = c * b /\ bd = 0 - cb /\ all = len * b
  <2>1. c * b \in Nat
    <3>1. \A x, y \in Nat : x * y \in Nat
      OBVIOUS
    <3> QED BY <3>1
  <2>2. bd = (ad - ly) * b
    <3>1. d \in 1 .. Len(list) + 1
      BY <1>3, <1>7
    <3> QED BY <1>1, <1>2, <1>5, <1>9, <3>1, ArrivingTypes
  <2>3. \A x, y \in Int : (0 - x) * y = 0 - (x * y)
    OBVIOUS
  <2>4. ad - ly = 0 - c
    BY <1>10, <1>20
  <2>5. all = len * b
    BY <1>2, <1>9, PacketSizes
  <2> QED BY <2>1, <2>2, <2>3, <2>4, <2>5
<1>12. size <= be
  <2>1. SUFFICES ASSUME ~(size <= be) PROVE FALSE
    OBVIOUS
  <2>2. CASE d = n
    <3>1. bn = be
      BY <1>6, <1>9, <2>2
    <3> QED BY <1>4, <1>5, <1>6, <2>1, <3>1
  <2>3. CASE d # n
    <3>1. d + 1 \in 1 .. n /\ d + 1 \in 1 .. Len(list)
      BY <1>3, <1>7, <2>3
    <3>2. PICK i : i = be + 1
      OBVIOUS
    <3>3. i \in 2 .. size /\ i \in 1 .. Len(bits)
      <4>1. size <= lb /\ be > 0
        BY <1>4, <1>5, <1>21
      <4>2. \A x, y, z \in Int : x <= y /\ z > 0 /\ ~(x <= z) =>
              z + 1 \in 2 .. x /\ z + 1 \in 1 .. y
        OBVIOUS
      <4> QED BY <1>5, <1>21, <2>1, <3>2, <4>1, <4>2
    <3>4. list[d + 1] \in Packets
      BY <3>1, ElementOfSeq
    <3>5. Span("bits", list[d + 1]) \in Nat /\ Span("bits", list[d + 1]) > 0
      BY <3>4, Spans DEF Forms
    <3>6. 1 \in 1 .. Span("bits", list[d + 1])
      BY <3>5
    <3>7. bits[i] = Piece("bits", list[d + 1], 1)
      BY <1>1, <1>9, <3>1, <3>2, <3>3, <3>6 DEF ArrivingAt, Holds
    <3>8. bits[i].bits = Span("bits", list[d + 1])
      BY <3>7 DEF Piece
    <3> QED BY <1>4, <3>3, <3>5, <3>8
  <2> QED BY <2>2, <2>3
<1>13. c + count <= len
  <2>1. size + cb <= all
    BY <1>11, <1>12, <1>21, <1>22, <1>23
  <2>2. cb + size = (c + count) * b
    <3>1. (c + count) * b = c * b + count * b
      OBVIOUS
    <3> QED BY <1>4, <1>11, <3>1
  <2>3. \A x, y \in Int : x * b <= y * b => x <= y
    <3>1. ASSUME NEW x \in Int, NEW y \in Int, x * b <= y * b, ~(x <= y) PROVE FALSE
      <4>1. PICK z \in Int : z = x - y /\ z > 0 /\ x = y + z
        BY <3>1
      <4>2. z * b > 0 /\ (y + z) * b = y * b + z * b /\ y * b \in Int /\ z * b \in Int
        BY <1>2, <4>1
      <4> QED BY <3>1, <4>1, <4>2
    <3> QED BY <3>1
  <2>4. PICK x \in Int : x = c + count
    OBVIOUS
  <2>5. x * b <= len * b
    BY <1>11, <2>1, <2>2, <2>4
  <2>6. x <= len
    BY <1>22, <2>3, <2>5
  <2> QED BY <2>4, <2>6
<1>14. PICK chunk : chunk = SubSeq(bits, 1, size)
  OBVIOUS
<1>15. /\ chunk \in Seq(Item) /\ Len(chunk) = size
       /\ \A i \in 1 .. size : chunk[i] = bits[i]
  <2>1. size \in 0 .. Len(bits)
    BY <1>4, <1>5
  <2> QED BY <1>14, <2>1, FrontProperties
<1>16. \A i \in 1 .. size : chunk[i] = Piece("bits", p, cb + i)
  <2>1. ASSUME NEW i \in 1 .. size PROVE bits[i] = Piece("bits", p, cb + i)
    <3>1. PICK j : j = cb + i
      OBVIOUS
    <3>2. j \in 1 .. all /\ bd + j = i
      <4>1. i \in Nat /\ i > 0 /\ i <= be /\ be = bd + all /\ bd = 0 - cb
        BY <1>11, <1>12, <1>21, <1>23
      <4> QED BY <1>21, <1>22, <3>1, <4>1
    <3>a. i \in 1 .. Len(bits)
      BY <1>4, <1>5
    <3>3. j \in 1 .. Span("bits", list[d])
      BY <1>8, <1>9, <3>2 DEF Span
    <3>4. Holds("bits", bits, list, bit_at)
      BY <1>1 DEF ArrivingAt
    <3> QED BY <1>3, <1>7, <1>8, <1>9, <3>1, <3>2, <3>a, <3>3, <3>4 DEF Holds
  <2> QED BY <1>15, <2>1
<1>17. /\ chunk[1].bits % InputsPerOutput = 0
       /\ PACK!Packed(chunk) \in Seq(Item) /\ Len(PACK!Packed(chunk)) = count
       /\ \A k \in 1 .. count : PACK!Packed(chunk)[k] = Piece("bytes", p, c + k)
  <2>1. c + count <= p.len /\ size = BitsIn(count) /\ cb = BitsIn(c)
    BY <1>2, <1>4, <1>9, <1>11, <1>13 DEF BitsIn
  <2>2. AreBits(chunk, p, c, count)
    BY <1>15, <1>16, <2>1 DEF AreBits
  <2> QED BY <2>1, <2>2, PacksBytes
<1>18. ASSUME bytes' = bytes \o PACK!Packed(chunk), bits' = From(bits, size),
              UNCHANGED <<packet, place, crc_packet_len, offered>>
       PROVE  Arriving(list)'
  <2>1. PICK bit_next : bit_next = [k \in 1 .. Len(list) + 1 |-> bit_at[k] - size]
    OBVIOUS
  <2>2. /\ Places("bytes", list, at) /\ Places("bits", list, bit_at)
        /\ Holds("bytes", bytes, list, at) /\ Holds("bits", bits, list, bit_at)
        /\ "bytes" \in Forms /\ "bits" \in Forms /\ at[1] = 0
    BY <1>1 DEF ArrivingAt, Forms
  <2>3. Places("bits", list, bit_next) /\ Holds("bits", bits', list, bit_next)
    BY <1>4, <1>18, <2>1, <2>2, ItemsLeave
  <2>4. Holds("bytes", bytes', list, at)
    <3>1. PICK more : more = PACK!Packed(chunk)
      OBVIOUS
    <3>2. /\ more \in Seq(Item) /\ Len(more) = count
          /\ \A i \in 1 .. Len(more) : more[i] = Piece("bytes", list[d], c + i)
      BY <1>8, <1>17, <3>1
    <3>3. d \in 1 .. Len(list) /\ at[d] + c = Len(bytes)
      BY <1>5, <1>9, <1>10, <1>19
    <3>4. c + Len(more) <= Span("bytes", list[d])
      BY <1>8, <1>9, <1>13, <3>2 DEF Span
    <3>5. Holds("bytes", bytes \o more, list, at)
      BY <2>2, <3>2, <3>3, <3>4, ItemsCome
    <3> QED BY <1>18, <3>1, <3>5
  <2>5. Len(bytes') = ly + count
    <3>1. PICK more : more = PACK!Packed(chunk)
      OBVIOUS
    <3>2. more \in Seq(Item) /\ Len(more) = count
      BY <1>17, <3>1
    <3>3. Len(bytes \o more) = Len(bytes) + Len(more)
      BY <3>2, JoinProperties
    <3> QED BY <1>5, <1>18, <3>1, <3>2, <3>3
  <2>6. Len(bits') = lb - size
    <3>1. size \in 0 .. Len(bits)
      BY <1>4, <1>5
    <3> QED BY <1>5, <1>18, <3>1, FromProperties
  <2>7. \A k \in 1 .. n + 1 : bit_next[k] = bit_at[k] - size
    BY <1>3, <2>1
  <2>8. ASSUME NEW k \in 1 .. n + 1
        PROVE  bit_next[k] = (at[k] - Len(bytes')) * InputsPerOutput
    <3>1. PICK a, x \in Int : a = at[k] /\ x = bit_at[k] /\ x = (a - ly) * b
      <4>1. /\ at[k] \in Int /\ bit_at[k] \in Int
            /\ bit_at[k] = (at[k] - Len(bytes)) * InputsPerOutput
        BY <1>1, <1>3, ArrivingTypes
      <4>2. bit_at[k] = (at[k] - ly) * b
        BY <1>2, <1>5, <4>1
      <4> QED BY <4>1, <4>2
    <3>2. \A u, v, w, z \in Int : (u - v) * z - w * z = (u - (v + w)) * z
      OBVIOUS
    <3>3. (a - ly) * b - count * b = (a - (ly + count)) * b
      BY <3>2
    <3> QED BY <1>2, <1>4, <2>5, <2>7, <3>1, <3>3
  <2>9. Len(bits') = bit_next[n + 1] - cm
    <3>1. bit_next[n + 1] = bn - size
      <4>1. n + 1 \in 1 .. n + 1
        OBVIOUS
      <4> QED BY <1>6, <2>7, <4>1
    <3>2. (bn - cm) - size = (bn - size) - cm
      OBVIOUS
    <3> QED BY <1>6, <2>6, <3>1, <3>2
  <2>10. Coming' = cm
    BY <1>5, <1>18 DEF Coming, AllBits
  <2>11. LengthKnown(list)' /\ ComesLast(list)'
    BY <1>5, <1>18, <2>10 DEF Arriving, LengthKnown, ComesLast
  <2>12. d + 1 \in 1 .. n + 1 /\ d \in 1 .. n + 1
    BY <1>7
  <2>15. bit_next[d] = bd - size /\ bit_next[d + 1] = be - size
    BY <1>9, <2>7, <2>12
  <2>13. CASE size < be
    <3>1. bit_next[d] <= 0 /\ bit_next[d + 1] > 0
      <4>1. \A x, y, z \in Int : x <= 0 /\ z > 0 /\ z < y => x - z <= 0 /\ y - z > 0
        OBVIOUS
      <4> QED BY <1>4, <1>21, <2>13, <2>15, <4>1
    <3>2. ArrivingAt(list, at, bit_next, d)'
      BY <1>3, <2>2, <2>3, <2>4, <2>8, <2>9, <2>10, <2>12, <3>1 DEF ArrivingAt
    <3> QED BY <2>11, <3>2 DEF Arriving
  <2>14. CASE ~(size < be)
    <3>1. bit_next[d + 1] = 0
      BY <1>12, <1>21, <2>14, <2>15
    <3>2. d + 1 <= n => bit_next[(d + 1) + 1] > 0
      <4>1. SUFFICES ASSUME d + 1 <= n PROVE bit_next[(d + 1) + 1] > 0
        OBVIOUS
      <4>2. d + 1 \in 1 .. Len(list) /\ (d + 1) + 1 \in 1 .. n + 1
        BY <1>3, <1>7, <4>1
      <4>3. /\ bit_next[(d + 1) + 1] = bit_next[d + 1] + Span("bits", list[d + 1])
            /\ Span("bits", list[d + 1]) \in Nat /\ Span("bits", list[d + 1]) > 0
        BY <2>2, <2>3, <4>2, PlaceTypes
      <4> QED BY <3>1, <4>3
    <3>3. d + 1 \in 1 .. Len(list) + 1 /\ bit_next[d + 1] <= 0
      BY <1>3, <2>12, <3>1
    <3>4. ArrivingAt(list, at, bit_next, d + 1)'
      BY <1>3, <2>2, <2>3, <2>4, <2>8, <2>9, <2>10, <3>2, <3>3 DEF ArrivingAt
    <3> QED BY <2>11, <3>4 DEF Arriving
  <2> QED BY <2>13, <2>14
<1> QED BY <1>2, <1>4, <1>14, <1>17, <1>18
(* What a block sees in bytes are bytes of the first packet. *)
LEMMA FirstOfBytes ==
  ASSUME bits \in Seq(Item), bytes \in Seq(Item),
         packet \in Packets, place \in 1 .. AllBits(packet),
         NEW list \in Seq(Packets), Arriving(list),
         NEW n \in Nat, n > 0, Chunk(bytes, n)
  PROVE  /\ Len(list) > 0 /\ list[1] \in Packets /\ n <= list[1].len
         /\ \A i \in 1 .. n : bytes[i] = Piece("bytes", list[1], i)
<1>1. PICK at, bit_at, d : ArrivingAt(list, at, bit_at, d)
  BY DEF Arriving
<1>2. PICK m \in Nat : m = Len(list)
  BY LenProperties
<1>3. PICK lb, ly, cm \in Nat : lb = Len(bits) /\ ly = Len(bytes) /\ cm = Coming
  BY <1>1, ArrivingTypes
<1>4. n <= ly /\ \A i \in 2 .. n : bytes[i].bits = 0
  BY <1>3 DEF Chunk
<1>5. PICK bn, an : bn = bit_at[m + 1] /\ an = at[m + 1]
  OBVIOUS
<1>6. bn \in Int /\ an \in Int /\ (bn >= 0 <=> an >= ly) /\ lb = bn - cm
  <2>1. m + 1 \in 1 .. Len(list) + 1
    BY <1>2
  <2>2. /\ at[m + 1] \in Int /\ bit_at[m + 1] \in Int
        /\ (bit_at[m + 1] >= 0 <=> at[m + 1] >= Len(bytes))
    BY <1>1, <2>1, ArrivingTypes
  <2>3. Len(bits) = bit_at[m + 1] - Coming
    BY <1>1, <1>2 DEF ArrivingAt
  <2> QED BY <1>3, <1>5, <2>2, <2>3
<1>7. an >= ly
  <2>1. bn >= 0
    BY <1>6
  <2> QED BY <1>6, <2>1
<1>8. at[1] = 0 /\ Holds("bytes", bytes, list, at)
  BY <1>1 DEF ArrivingAt
<1>9. m > 0
  <2>1. an > 0
    BY <1>4, <1>6, <1>7
  <2>2. m # 0
    BY <1>5, <1>8, <2>1
  <2> QED BY <2>2
<1>10. 1 \in 1 .. Len(list)
  BY <1>2, <1>9
<1>11. list[1] \in Packets
  BY <1>10, ElementOfSeq
<1>12. PICK len \in Nat : len = list[1].len /\ len > 0
  BY <1>11, PacketSizes
<1>13. at[2] = len
  <2>1. at[1 + 1] = at[1] + list[1].len
    BY <1>1, <1>10, ArrivingTypes
  <2> QED BY <1>8, <1>12, <2>1
<1>14. n <= len
  <2>1. SUFFICES ASSUME ~(n <= len) PROVE FALSE
    OBVIOUS
  <2>2. CASE m = 1
    <3>1. an = len
      BY <1>5, <1>13, <2>2
    <3> QED BY <1>4, <1>7, <2>1, <3>1
  <2>3. CASE m # 1
    <3>1. 2 \in 1 .. Len(list)
      BY <1>2, <1>9, <2>3
    <3>2. PICK i : i = len + 1
      OBVIOUS
    <3>3. i \in 2 .. n /\ i \in 1 .. Len(bytes)
      <4>1. i \in 2 .. n
        <5>1. \A x \in Nat : x > 0 /\ ~(n <= x) => x + 1 \in 2 .. n
          OBVIOUS
        <5> QED BY <1>12, <2>1, <3>2, <5>1
      <4> QED BY <1>3, <1>4, <4>1
    <3>4. list[2] \in Packets
      BY <3>1, ElementOfSeq
    <3>5. Span("bytes", list[2]) \in Nat /\ Span("bytes", list[2]) > 0
      BY <3>4, Spans DEF Forms
    <3>6. 1 \in 1 .. Span("bytes", list[2])
      BY <3>5
    <3>7. bytes[i] = Piece("bytes", list[2], 1)
      BY <1>8, <1>13, <3>1, <3>2, <3>3, <3>6 DEF Holds
    <3>8. bytes[i].bits = Span("bytes", list[2])
      BY <3>7 DEF Piece
    <3> QED BY <1>4, <3>3, <3>5, <3>8
  <2> QED BY <2>2, <2>3
<1>15. ASSUME NEW i \in 1 .. n PROVE bytes[i] = Piece("bytes", list[1], i)
  <2>1. i \in 1 .. Len(bytes) /\ i \in 1 .. len
    BY <1>3, <1>4, <1>14
  <2>2. i \in 1 .. Span("bytes", list[1]) /\ at[1] + i = i
    BY <1>8, <1>12, <2>1 DEF Span
  <2> QED BY <1>8, <1>10, <2>1, <2>2 DEF Holds
<1> QED BY <1>2, <1>9, <1>11, <1>12, <1>14, <1>15

(* The first packet leaves bytes. *)
LEMMA FirstLeaves ==
  ASSUME bits \in Seq(Item), bytes \in Seq(Item),
         packet \in Packets, place \in 1 .. AllBits(packet),
         NEW list \in Seq(Packets), Arriving(list),
         Len(list) > 0, NEW len \in Nat, len = list[1].len, len <= Len(bytes),
         bytes' = From(bytes, len), crc_packet_len' = 0, offered' = FALSE,
         UNCHANGED <<packet, place, bits>>
  PROVE  Arriving(Tail(list))'
<1>1. PICK at, bit_at, d : ArrivingAt(list, at, bit_at, d)
  BY DEF Arriving
<1>2. PICK n \in Nat : n = Len(list) - 1 /\ Len(list) = n + 1
  <2>1. Len(list) \in Nat
    BY LenProperties
  <2>2. Len(list) - 1 \in Nat /\ Len(list) = (Len(list) - 1) + 1
    BY <2>1
  <2> QED BY <2>2
<1>3. PICK lb, ly, cm \in Nat : lb = Len(bits) /\ ly = Len(bytes) /\ cm = Coming
  BY <1>1, ArrivingTypes
<1>4. PICK rest : rest = Tail(list)
  OBVIOUS
<1>5. rest \in Seq(Packets) /\ Len(rest) = n /\ \A i \in 1 .. n : rest[i] = list[i + 1]
  <2>1. Len(list) - 1 = n
    BY <1>2
  <2> QED BY <1>4, <2>1, HeadAndTail
<1>6. /\ Places("bytes", list, at) /\ Places("bits", list, bit_at)
      /\ Holds("bytes", bytes, list, at) /\ Holds("bits", bits, list, bit_at)
      /\ "bytes" \in Forms /\ "bits" \in Forms /\ at[1] = 0
      /\ Len(bits) = bit_at[Len(list) + 1] - Coming
  BY <1>1 DEF ArrivingAt, Forms
<1>7. PICK mid : mid = [k \in 1 .. Len(list) |-> at[k + 1]]
  OBVIOUS
<1>8. PICK bit_next : bit_next = [k \in 1 .. Len(list) |-> bit_at[k + 1]]
  OBVIOUS
<1>9. PICK next : next = [k \in 1 .. Len(rest) + 1 |-> mid[k] - len]
  OBVIOUS
<1>10. Places("bytes", rest, mid) /\ Holds("bytes", bytes, rest, mid)
  BY <1>4, <1>6, <1>7, PacketLeaves
<1>11. Places("bits", rest, bit_next) /\ Holds("bits", bits, rest, bit_next)
  BY <1>4, <1>6, <1>8, PacketLeaves
<1>12. Places("bytes", rest, next) /\ Holds("bytes", bytes', rest, next)
  BY <1>5, <1>6, <1>9, <1>10, ItemsLeave
<1>13. Len(bytes') = ly - len
  <2>1. len \in 0 .. Len(bytes)
    BY <1>3
  <2> QED BY <1>3, <2>1, FromProperties
<1>14. ASSUME NEW k \in 1 .. n + 1
       PROVE  /\ next[k] = at[k + 1] - len /\ bit_next[k] = bit_at[k + 1]
              /\ bit_next[k] = (next[k] - Len(bytes')) * InputsPerOutput
  <2>1. k \in 1 .. Len(list) /\ k + 1 \in 1 .. Len(list) + 1 /\ k \in 1 .. Len(rest) + 1
    BY <1>2, <1>5
  <2>2. next[k] = at[k + 1] - len /\ bit_next[k] = bit_at[k + 1]
    BY <1>7, <1>8, <1>9, <2>1
  <2>3. at[k + 1] \in Int /\ bit_at[k + 1] = (at[k + 1] - Len(bytes)) * InputsPerOutput
    BY <1>1, <2>1, ArrivingTypes
  <2>4. PICK a \in Int : a = at[k + 1]
    BY <2>3
  <2>5. (a - len) - (ly - len) = a - ly
    BY <2>4
  <2> QED BY <1>3, <1>13, <2>2, <2>3, <2>4, <2>5
<1>15. 1 \in 1 .. n + 1 /\ n + 1 \in 1 .. n + 1 /\ 1 + 1 = 2
  OBVIOUS
<1>16. next[1] = 0 /\ bit_at[2] <= 0
  <2>1. 1 \in 1 .. Len(list) /\ 2 \in 1 .. Len(list) + 1
    BY <1>2
  <2>2. at[1 + 1] = at[1] + list[1].len
    BY <1>1, <2>1, ArrivingTypes
  <2>3. at[2] = len
    BY <1>6, <1>15, <2>2
  <2>4. bit_at[2] <= 0 <=> at[2] <= Len(bytes)
    BY <1>1, <2>1, ArrivingTypes
  <2>5. len - len = 0
    OBVIOUS
  <2> QED BY <1>14, <1>15, <2>3, <2>4, <2>5
<1>17. /\ d \in 1 .. (n + 1) + 1 /\ bit_at[d] <= 0
       /\ d <= n + 1 => bit_at[d + 1] > 0
  BY <1>1, <1>2 DEF ArrivingAt
<1>18. d # 1
  <2>1. SUFFICES ASSUME d = 1 PROVE FALSE
    OBVIOUS
  <2>2. bit_at[2] > 0
    BY <1>15, <1>17, <2>1
  <2>3. 2 \in 1 .. Len(list) + 1
    BY <1>2
  <2>4. bit_at[2] \in Int
    BY <1>1, <2>3, ArrivingTypes
  <2> QED BY <1>16, <2>2, <2>4
<1>19. PICK e : e = d - 1
  OBVIOUS
<1>20. e \in 1 .. n + 1 /\ d = e + 1 /\ (e <= n => d <= n + 1)
  BY <1>17, <1>18, <1>19
<1>21. bit_next[e] <= 0
  BY <1>14, <1>17, <1>20
<1>22. e <= n => bit_next[e + 1] > 0
  <2>1. SUFFICES ASSUME e <= n PROVE bit_next[e + 1] > 0
    OBVIOUS
  <2>2. e + 1 \in 1 .. n + 1
    BY <1>20, <2>1
  <2>3. bit_next[e + 1] = bit_at[d + 1]
    BY <1>14, <1>20, <2>2
  <2> QED BY <1>17, <1>20, <2>1, <2>3
<1>23. lb = bit_next[n + 1] - cm
  BY <1>2, <1>3, <1>6, <1>14, <1>15
<1>24. Coming' = cm
  BY <1>3 DEF Coming, AllBits
<1>25. ArrivingAt(rest, next, bit_next, e)'
  <2>1. \A k \in 1 .. n + 1 : bit_next[k] = (next[k] - Len(bytes')) * InputsPerOutput
    BY <1>14
  <2>2. Len(bits') = bit_next[n + 1] - Coming'
    BY <1>3, <1>23, <1>24
  <2>3. Holds("bits", bits', rest, bit_next)
    BY <1>11
  <2> QED BY <1>5, <1>11, <1>12, <1>16, <1>20, <1>21, <1>22, <2>1, <2>2, <2>3 DEF ArrivingAt
<1>26. ComesLast(rest)'
  <2>1. SUFFICES ASSUME cm > 0 PROVE Len(rest) > 0 /\ packet' = rest[Len(rest)]
    BY <1>24 DEF ComesLast
  <2>2. packet = list[n + 1]
    BY <1>2, <1>3, <2>1 DEF Arriving, ComesLast
  <2>3. n # 0
    <3>1. SUFFICES ASSUME n = 0 PROVE FALSE
      OBVIOUS
    <3>2. lb = bit_at[2] - cm
      <4>1. Len(list) + 1 = 2
        BY <1>2, <3>1
      <4> QED BY <1>3, <1>6, <4>1
    <3>3. 2 \in 1 .. Len(list) + 1
      BY <1>2
    <3>4. bit_at[2] \in Int
      BY <1>1, <3>3, ArrivingTypes
    <3>5. PICK x \in Int : x = bit_at[2]
      BY <3>4
    <3>6. x <= 0 /\ lb = x - cm
      BY <1>16, <3>2, <3>5
    <3> QED BY <2>1, <3>6
  <2>4. n \in 1 .. n
    BY <2>3
  <2> QED BY <1>5, <2>2, <2>4
<1>27. LengthKnown(rest)'
  BY DEF LengthKnown
<1> QED BY <1>4, <1>25, <1>26, <1>27 DEF Arriving
-----------------------------------------------------------------------------
(* The checked packets.                                                    *)

(* more are items of p, behind the first g of them. *)
AreItems(form, p, g, more) ==
  /\ more \in Seq(Item) /\ g + Len(more) <= Span(form, p)
  /\ \A i \in 1 .. Len(more) : more[i] = Piece(form, p, g + i)

(* A packet comes behind the others, with its first items. *)
LEMMA PacketBegins ==
  ASSUME NEW form \in Forms, NEW list \in Seq(Packets), NEW at, Places(form, list, at),
         NEW link \in Seq(Item), Holds(form, link, list, at),
         Len(link) = at[Len(list) + 1],
         NEW p \in Packets, NEW more, AreItems(form, p, 0, more)
  PROVE  \E next : /\ Places(form, Append(list, p), next)
                   /\ Holds(form, link \o more, Append(list, p), next)
                   /\ next[1] = at[1]
                   /\ next[Len(list) + 2] = at[Len(list) + 1] + Span(form, p)
<1>1. PICK n \in Nat : n = Len(list)
  BY LenProperties
<1>2. PICK all : all = Append(list, p)
  OBVIOUS
<1>3. all \in Seq(Packets) /\ Len(all) = n + 1 /\ all[n + 1] = p
  BY <1>1, <1>2, AppendOne
<1>4. PICK next : next = [k \in 1 .. Len(list) + 2 |->
                   IF k = Len(list) + 2 THEN at[Len(list) + 1] + Span(form, p) ELSE at[k]]
  OBVIOUS
<1>5. Len(link) \in Nat /\ Len(link) <= at[Len(list) + 1]
  <2>1. Len(link) \in Nat
    BY LenProperties
  <2> QED BY <2>1
<1>6. Places(form, all, next)
  BY <1>2, <1>4, PacketComes
<1>7. Holds(form, link, all, next)
  BY <1>2, <1>4, <1>5, PacketComes
<1>8. /\ 1 \in 1 .. n + 2 /\ n + 2 \in 1 .. n + 2 /\ 1 # n + 2
      /\ n + 1 \in 1 .. n + 2 /\ n + 1 # n + 2 /\ n + 1 \in 1 .. n + 1
  OBVIOUS
<1>9. next[1] = at[1] /\ next[n + 2] = at[n + 1] + Span(form, p) /\ next[n + 1] = at[n + 1]
  BY <1>1, <1>4, <1>8
<1>10. Holds(form, link \o more, all, next)
  <2>1. n + 1 \in 1 .. Len(all)
    BY <1>3, <1>8
  <2>2. PICK k, g : k = n + 1 /\ g = 0
    OBVIOUS
  <2>3. k \in 1 .. Len(all) /\ g \in Nat /\ next[k] + g = Len(link)
    BY <1>1, <1>5, <1>9, <2>1, <2>2
  <2>4. /\ more \in Seq(Item) /\ g + Len(more) <= Span(form, all[k])
        /\ \A i \in 1 .. Len(more) : more[i] = Piece(form, all[k], g + i)
    BY <1>3, <2>2 DEF AreItems
  <2> QED BY <1>3, <1>6, <1>7, <2>3, <2>4, ItemsCome
<1> QED BY <1>1, <1>2, <1>6, <1>9, <1>10

(* The first packet leaves the list, and items the link. *)
LEMMA PacketEnds ==
  ASSUME NEW form \in Forms, NEW list \in Seq(Packets), NEW at, Places(form, list, at),
         NEW link \in Seq(Item), Holds(form, link, list, at),
         Len(list) > 0, NEW c \in Nat, c <= Len(link)
  PROVE  \E next : /\ Places(form, Tail(list), next)
                   /\ Holds(form, From(link, c), Tail(list), next)
                   /\ next[1] = (at[1] + Span(form, list[1])) - c
                   /\ next[Len(Tail(list)) + 1] = at[Len(list) + 1] - c
<1>1. PICK n \in Nat : n = Len(list) - 1 /\ Len(list) = n + 1
  <2>1. Len(list) \in Nat
    BY LenProperties
  <2>2. Len(list) - 1 \in Nat /\ Len(list) = (Len(list) - 1) + 1
    BY <2>1
  <2> QED BY <2>2
<1>2. PICK rest : rest = Tail(list)
  OBVIOUS
<1>3. rest \in Seq(Packets) /\ Len(rest) = n
  <2>1. Len(list) - 1 = n
    BY <1>1
  <2> QED BY <1>2, <2>1, HeadAndTail
<1>4. PICK mid : mid = [k \in 1 .. Len(list) |-> at[k + 1]]
  OBVIOUS
<1>5. PICK next : next = [k \in 1 .. Len(rest) + 1 |-> mid[k] - c]
  OBVIOUS
<1>6. Places(form, rest, mid) /\ Holds(form, link, rest, mid)
  BY <1>2, <1>4, PacketLeaves
<1>7. Places(form, rest, next) /\ Holds(form, From(link, c), rest, next)
  BY <1>3, <1>5, <1>6, ItemsLeave
<1>8. \A k \in 1 .. n + 1 : next[k] = at[k + 1] - c
  BY <1>1, <1>3, <1>4, <1>5
<1>9. 1 \in 1 .. n + 1 /\ n + 1 \in 1 .. n + 1
  OBVIOUS
<1>10. next[1] = at[1 + 1] - c /\ next[n + 1] = at[(n + 1) + 1] - c
  BY <1>8, <1>9
<1>11. at[1 + 1] = at[1] + Span(form, list[1])
  <2>1. 1 \in 1 .. Len(list)
    BY <1>1, <1>9
  <2> QED BY <2>1 DEF Places
<1> QED BY <1>1, <1>2, <1>3, <1>7, <1>10, <1>11

(* A packet passes CrcCheck. *)
LEMMA GoodComes ==
  ASSUME checked \in Seq(Item), type_remaining \in Nat,
         NEW list \in Seq(Packets), Checked(list), NEW p \in Packets, p.good,
         NEW more, Len(more) = Span("payload", p), AreItems("payload", p, 0, more),
         checked' = checked \o more, UNCHANGED type_remaining
  PROVE  /\ Checked(Append(list, p))'
         /\ \A i \in 1 .. type_remaining : checked'[i] = checked[i]
<1>1. PICK at : CheckedAt(list, at)
  BY DEF Checked
<1>2. PICK n \in Nat : n = Len(list)
  BY LenProperties
<1>3. PICK all : all = Append(list, p)
  OBVIOUS
<1>4. /\ all \in Seq(Packets) /\ Len(all) = n + 1
      /\ \A i \in 1 .. n : all[i] = list[i]
      /\ all[n + 1] = p
  BY <1>2, <1>3, AppendOne
<1>5. /\ Places("payload", list, at) /\ at[1] = type_remaining
      /\ Holds("payload", checked, list, at) /\ Len(checked) = at[Len(list) + 1]
      /\ "payload" \in Forms
  BY <1>1 DEF CheckedAt, Forms
<1>6. more \in Seq(Item) /\ Len(more) \in Nat /\ Len(checked) \in Nat
  BY LenProperties DEF AreItems
<1>7. PICK next : /\ Places("payload", all, next)
                  /\ Holds("payload", checked \o more, all, next)
                  /\ next[1] = at[1]
                  /\ next[Len(list) + 2] = at[Len(list) + 1] + Span("payload", p)
  BY <1>3, <1>5, PacketBegins
<1>8. Len(checked \o more) = Len(checked) + Len(more)
  BY <1>6, JoinProperties
<1>9. \A i \in 1 .. Len(checked) : (checked \o more)[i] = checked[i]
  BY <1>6, JoinProperties
<1>10. type_remaining <= Len(checked)
  <2>1. 1 \in 1 .. Len(list) + 1 /\ Len(list) + 1 \in 1 .. Len(list) + 1 /\ 1 <= Len(list) + 1
    BY <1>2
  <2>2. at[1] <= at[Len(list) + 1]
    BY <1>5, <2>1 DEF Places
  <2> QED BY <1>5, <2>2
<1>11. CheckedAt(all, next)'
  <2>1. Len(all) + 1 = Len(list) + 2
    BY <1>2, <1>4
  <2> QED BY <1>5, <1>7, <1>8, <2>1 DEF CheckedAt
<1>12. \A k \in 1 .. Len(all) : all[k].good
  <2>1. \A k \in 1 .. n : list[k].good
    BY <1>2 DEF Checked
  <2>2. \A k \in 1 .. n + 1 : k \in 1 .. n \/ k = n + 1
    OBVIOUS
  <2> QED BY <1>4, <2>1, <2>2
<1>13. \A i \in 1 .. type_remaining : i \in 1 .. Len(checked)
  BY <1>6, <1>10
<1> QED BY <1>3, <1>9, <1>11, <1>12, <1>13 DEF Checked

(* Between two packets the filter sees the first of the checked ones. *)
LEMMA FirstOfChecked ==
  ASSUME checked \in Seq(Item), type_remaining = 0,
         NEW list \in Seq(Packets), Checked(list), Len(checked) > 0
  PROVE  /\ Len(list) > 0 /\ list[1] \in Packets /\ list[1].good
         /\ \A i \in 1 .. Span("payload", list[1]) :
              i <= Len(checked) => checked[i] = Piece("payload", list[1], i)
<1>1. PICK at : CheckedAt(list, at)
  BY DEF Checked
<1>2. PICK n \in Nat : n = Len(list)
  BY LenProperties
<1>3. /\ at[1] = 0 /\ Holds("payload", checked, list, at) /\ Len(checked) = at[n + 1]
  BY <1>1, <1>2 DEF CheckedAt
<1>4. n > 0
  <2>1. n # 0
    BY <1>3
  <2> QED BY <2>1
<1>5. 1 \in 1 .. Len(list)
  BY <1>2, <1>4
<1>6. list[1] \in Packets /\ list[1].good
  BY <1>5, ElementOfSeq DEF Checked
<1>7. ASSUME NEW i \in 1 .. Span("payload", list[1]), i <= Len(checked)
      PROVE  checked[i] = Piece("payload", list[1], i)
  <2>1. Span("payload", list[1]) \in Nat /\ Len(checked) \in Nat
    BY <1>6, Spans, LenProperties DEF Forms
  <2>2. at[1] + i = i /\ i \in 1 .. Len(checked)
    BY <1>3, <1>7, <2>1
  <2> QED BY <1>3, <1>5, <2>2 DEF Holds
<1> QED BY <1>2, <1>4, <1>6, <1>7

(* The filter takes the first items of a packet. *)
LEMMA FilterBegins ==
  ASSUME checked \in Seq(Item), type_remaining = 0,
         NEW list \in Seq(Packets), Checked(list), Len(list) > 0,
         NEW c \in Nat, c <= Len(checked),
         checked' = From(checked, c), type_remaining' = Span("payload", list[1]) - c
  PROVE  Checked(Tail(list))'
<1>1. PICK at : CheckedAt(list, at)
  BY DEF Checked
<1>2. /\ Places("payload", list, at) /\ at[1] = 0
      /\ Holds("payload", checked, list, at) /\ Len(checked) = at[Len(list) + 1]
      /\ "payload" \in Forms
  BY <1>1 DEF CheckedAt, Forms
<1>3. PICK next : /\ Places("payload", Tail(list), next)
                  /\ Holds("payload", From(checked, c), Tail(list), next)
                  /\ next[1] = (at[1] + Span("payload", list[1])) - c
                  /\ next[Len(Tail(list)) + 1] = at[Len(list) + 1] - c
  BY <1>2, PacketEnds
<1>4. PICK m \in Nat : m = Span("payload", list[1])
  <2>1. list[1] \in Packets
    BY HeadAndTail
  <2> QED BY <2>1, Spans DEF Forms
<1>5. next[1] = m - c
  <2>1. (0 + m) - c = m - c
    OBVIOUS
  <2> QED BY <1>2, <1>3, <1>4, <2>1
<1>6. Len(From(checked, c)) = Len(checked) - c
  <2>1. c \in 0 .. Len(checked)
    BY LenProperties
  <2> QED BY <2>1, FromProperties
<1>7. CheckedAt(Tail(list), next)'
  BY <1>2, <1>3, <1>4, <1>5, <1>6 DEF CheckedAt
<1>8. \A k \in 1 .. Len(Tail(list)) : Tail(list)[k].good
  <2>1. PICK n \in Nat : n = Len(list)
    BY LenProperties
  <2>2. Len(Tail(list)) = n - 1 /\ \A k \in 1 .. n - 1 : Tail(list)[k] = list[k + 1]
    BY <2>1, HeadAndTail
  <2>3. \A k \in 1 .. n - 1 : k + 1 \in 1 .. Len(list)
    BY <2>1
  <2> QED BY <2>2, <2>3 DEF Checked
<1> QED BY <1>7, <1>8 DEF Checked

(* The filter goes on with a packet. *)
LEMMA FilterGoesOn ==
  ASSUME checked \in Seq(Item), type_remaining \in Nat,
         NEW list \in Seq(Packets), Checked(list),
         NEW c \in Nat, c <= Len(checked), c <= type_remaining,
         checked' = From(checked, c), type_remaining' = type_remaining - c
  PROVE  Checked(list)'
<1>1. PICK at : CheckedAt(list, at)
  BY DEF Checked
<1>2. /\ Places("payload", list, at) /\ at[1] = type_remaining
      /\ Holds("payload", checked, list, at) /\ Len(checked) = at[Len(list) + 1]
      /\ "payload" \in Forms
  BY <1>1 DEF CheckedAt, Forms
<1>3. PICK next : next = [k \in 1 .. Len(list) + 1 |-> at[k] - c]
  OBVIOUS
<1>4. Places("payload", list, next) /\ Holds("payload", From(checked, c), list, next)
  BY <1>2, <1>3, ItemsLeave
<1>5. 1 \in 1 .. Len(list) + 1 /\ Len(list) + 1 \in 1 .. Len(list) + 1
  <2>1. Len(list) \in Nat
    BY LenProperties
  <2> QED BY <2>1
<1>6. next[1] = type_remaining - c /\ next[Len(list) + 1] = Len(checked) - c
  BY <1>2, <1>3, <1>5
<1>7. Len(From(checked, c)) = Len(checked) - c
  <2>1. c \in 0 .. Len(checked)
    BY LenProperties
  <2> QED BY <2>1, FromProperties
<1>8. CheckedAt(list, next)'
  BY <1>4, <1>6, <1>7 DEF CheckedAt
<1> QED BY <1>8 DEF Checked
-----------------------------------------------------------------------------
(* The collected packets.                                                  *)

(* Nothing changes for them. *)
LEMMA CollectedStays ==
  ASSUME NEW list \in Seq(Packets), Collected(list),
         UNCHANGED <<user, pdu_vars>>, Passing' = Passing,
         \A i \in 1 .. Passing : checked'[i] = checked[i]
  PROVE  Collected(list)'
<1>1. PICK at : CollectedAt(list, at)
  BY DEF Collected
<1>2. UNCHANGED <<pdu_remaining, pdu_index, pdu_pdu, pdu_merged_tag>>
  BY DEF pdu_vars
<1>3. Gathered(list)' = Gathered(list)
  BY <1>2 DEF Gathered
<1>4. PassesLast(list)'
  BY DEF Collected, PassesLast
<1>5. InPdu(list)'
  BY <1>2, <1>3 DEF Collected, InPdu
<1>6. CollectedAt(list, at)'
  BY <1>1, <1>3 DEF CollectedAt
<1>7. \A k \in 1 .. Len(list) : Delivery!Wanted(list[k])
  BY DEF Collected
<1> QED BY <1>4, <1>5, <1>6, <1>7 DEF Collected

(* The filter begins to pass a packet on. *)
LEMMA PassBegins ==
  ASSUME user \in Seq(Item), pdu_remaining \in Nat, Passing = 0,
         NEW list \in Seq(Packets), Collected(list),
         NEW p \in Packets, Delivery!Wanted(p),
         NEW more, AreItems("payload", p, 0, more), NEW c \in Nat, c = Len(more), c > 0,
         user' = user \o more, Passing' = Span("payload", p) - c,
         \A i \in 1 .. Span("payload", p) - c : checked'[i] = Piece("payload", p, c + i),
         UNCHANGED pdu_vars
  PROVE  Collected(Append(list, p))'
<1>1. PICK at : CollectedAt(list, at)
  BY DEF Collected
<1>2. PICK n \in Nat : n = Len(list)
  BY LenProperties
<1>3. PICK all : all = Append(list, p)
  OBVIOUS
<1>4. /\ all \in Seq(Packets) /\ Len(all) = n + 1
      /\ \A i \in 1 .. n : all[i] = list[i]
      /\ all[n + 1] = p
  BY <1>2, <1>3, AppendOne
<1>5. UNCHANGED <<pdu_remaining, pdu_index, pdu_pdu, pdu_merged_tag>>
  BY DEF pdu_vars
<1>6. PICK m \in Nat : m = Span("payload", p)
  BY Spans DEF Forms
<1>7. /\ Places("payload", list, at) /\ at[1] = 0 - Gathered(list)
      /\ Holds("payload", user, list, at) /\ Len(user) = at[Len(list) + 1] - Passing
      /\ "payload" \in Forms
  BY <1>1 DEF CollectedAt, Forms
<1>8. Len(user) = at[Len(list) + 1]
  <2>1. Len(list) + 1 \in 1 .. Len(list) + 1
    BY <1>2
  <2>2. at[Len(list) + 1] \in Int
    BY <1>7, <2>1, PlaceTypes
  <2> QED BY <1>7, <2>2
<1>9. PICK next : /\ Places("payload", all, next)
                  /\ Holds("payload", user \o more, all, next)
                  /\ next[1] = at[1]
                  /\ next[Len(list) + 2] = at[Len(list) + 1] + Span("payload", p)
  BY <1>3, <1>7, <1>8, PacketBegins
<1>10. InPdu(list)
  BY DEF Collected
<1>11. pdu_remaining # 0 => n > 0 /\ all[1] = list[1]
  <2>1. SUFFICES ASSUME pdu_remaining # 0 PROVE n > 0 /\ all[1] = list[1]
    OBVIOUS
  <2>2. n > 0
    BY <1>2, <1>10, <2>1 DEF InPdu
  <2>3. 1 \in 1 .. n
    BY <2>2
  <2> QED BY <1>4, <2>2, <2>3
<1>12. Gathered(all)' = Gathered(list)
  BY <1>5, <1>11 DEF Gathered
<1>13. InPdu(all)'
  <2>1. Len(all) > 0
    BY <1>4
  <2>2. pdu_remaining # 0 => all[1] = list[1]
    BY <1>11
  <2> QED BY <1>5, <1>10, <1>12, <2>1, <2>2 DEF InPdu
<1>14. Len(user \o more) = Len(user) + c
  BY JoinProperties DEF AreItems
<1>15. CollectedAt(all, next)'
  <2>1. Len(all) + 1 = Len(list) + 2
    BY <1>2, <1>4
  <2>2. Len(user) \in Nat
    BY LenProperties
  <2>3. \A x \in Nat : x + c = (x + m) - (m - c)
    OBVIOUS
  <2>4. Len(user \o more) = next[Len(all) + 1] - Passing'
    BY <1>6, <1>8, <1>9, <1>14, <2>1, <2>2, <2>3
  <2> QED BY <1>7, <1>9, <1>12, <2>4 DEF CollectedAt
<1>16. PassesLast(all)'
  <2>1. \A i : c + i = (m - (m - c)) + i
    <3>1. m - (m - c) = c
      OBVIOUS
    <3> QED BY <3>1
  <2>2. m - c < m
    OBVIOUS
  <2>3. all[Len(all)] = p /\ Len(all) > 0
    BY <1>4
  <2> QED BY <1>6, <2>1, <2>2, <2>3 DEF PassesLast
<1>17. \A k \in 1 .. Len(all) : Delivery!Wanted(all[k])
  <2>1. \A k \in 1 .. n : Delivery!Wanted(list[k])
    BY <1>2 DEF Collected
  <2>2. \A k \in 1 .. n + 1 : k \in 1 .. n \/ k = n + 1
    OBVIOUS
  <2> QED BY <1>4, <2>1, <2>2
<1> QED BY <1>3, <1>13, <1>15, <1>16, <1>17 DEF Collected

(* The filter goes on to pass a packet. *)
LEMMA PassGoesOn ==
  ASSUME user \in Seq(Item), checked \in Seq(Item), Passing \in Nat, Passing > 0,
         NEW list \in Seq(Packets), Collected(list), Passing <= Len(checked),
         NEW c \in Nat, c <= Passing,
         user' = user \o SubSeq(checked, 1, c), Passing' = Passing - c,
         checked' = From(checked, c), UNCHANGED pdu_vars
  PROVE  Collected(list)'
<1>1. PICK at : CollectedAt(list, at)
  BY DEF Collected
<1>2. PICK n \in Nat : n = Len(list)
  BY LenProperties
<1>3. UNCHANGED <<pdu_remaining, pdu_index, pdu_pdu, pdu_merged_tag>>
  BY DEF pdu_vars
<1>4. Gathered(list)' = Gathered(list)
  BY <1>3 DEF Gathered
<1>5. InPdu(list)'
  BY <1>3, <1>4 DEF Collected, InPdu
<1>6. PICK r, len \in Nat : r = Passing /\ len = Len(checked) /\ r <= len /\ c <= r
  BY LenProperties
<1>7. n > 0
  BY <1>2 DEF Collected, PassesLast
<1>8. n \in 1 .. Len(list) /\ n + 1 \in 1 .. Len(list) + 1
  BY <1>2, <1>7
<1>9. PICK m \in Nat : m = Span("payload", list[n])
  BY <1>8, ElementOfSeq, Spans DEF Forms
<1>10. r < m /\ \A i \in 1 .. r : checked[i] = Piece("payload", list[n], (m - r) + i)
  BY <1>2, <1>6, <1>9 DEF Collected, PassesLast
<1>11. PICK more : more = SubSeq(checked, 1, c)
  OBVIOUS
<1>12. more \in Seq(Item) /\ Len(more) = c /\ \A i \in 1 .. c : more[i] = checked[i]
  <2>1. c \in 0 .. Len(checked)
    BY <1>6
  <2> QED BY <1>11, <2>1, FrontProperties
<1>13. \A i \in 1 .. len - c : checked'[i] = checked[i + c]
  <2>1. c \in 0 .. Len(checked)
    BY <1>6
  <2> QED BY <1>6, <2>1, FromProperties
<1>14. /\ Places("payload", list, at) /\ Holds("payload", user, list, at)
       /\ Len(user) = at[n + 1] - r /\ "payload" \in Forms
  BY <1>1, <1>2, <1>6 DEF CollectedAt, Forms
<1>15. PICK x, y \in Int : x = at[n] /\ y = Len(user) /\ at[n + 1] = x + m
  <2>1. at[n] \in Int /\ at[n + 1] = at[n] + Span("payload", list[n])
    BY <1>8, <1>14, PlaceTypes
  <2>2. Len(user) \in Int
    BY LenProperties
  <2> QED BY <1>9, <2>1, <2>2
<1>16. y = (x + m) - r
  BY <1>14, <1>15
<1>17. PICK g \in Nat : g = m - r
  BY <1>10
<1>18. Holds("payload", user \o more, list, at)
  <2>1. at[n] + g = Len(user)
    BY <1>15, <1>16, <1>17
  <2>2. g + Len(more) <= Span("payload", list[n])
    BY <1>6, <1>9, <1>12, <1>17
  <2>3. \A i \in 1 .. Len(more) : more[i] = Piece("payload", list[n], g + i)
    <3>1. \A i \in 1 .. c : i \in 1 .. r
      BY <1>6
    <3> QED BY <1>10, <1>12, <1>17, <3>1
  <2> QED BY <1>8, <1>12, <1>14, <2>1, <2>2, <2>3, ItemsCome
<1>19. Len(user \o more) = y + c
  BY <1>12, <1>15, JoinProperties
<1>20. CollectedAt(list, at)'
  <2>1. y + c = (x + m) - (r - c)
    BY <1>16
  <2>2. Len(user \o more) = at[n + 1] - Passing'
    BY <1>6, <1>15, <1>19, <2>1
  <2>3. user' = user \o more
    BY <1>11
  <2>4. at[1] = 0 - Gathered(list)'
    BY <1>1, <1>4 DEF CollectedAt
  <2> QED BY <1>2, <1>14, <1>18, <2>2, <2>3, <2>4 DEF CollectedAt
<1>21. PassesLast(list)'
  <2>1. ASSUME NEW i \in 1 .. r - c
        PROVE  checked'[i] = Piece("payload", list[n], (m - (r - c)) + i)
    <3>1. i \in 1 .. len - c /\ i + c \in 1 .. r
      BY <1>6
    <3>2. (m - r) + (i + c) = (m - (r - c)) + i
      OBVIOUS
    <3> QED BY <1>10, <1>13, <3>1, <3>2
  <2>2. r - c < m
    BY <1>6, <1>10
  <2> QED BY <1>2, <1>6, <1>7, <1>9, <2>1, <2>2 DEF PassesLast
<1>22. \A k \in 1 .. Len(list) : Delivery!Wanted(list[k])
  BY DEF Collected
<1> QED BY <1>5, <1>20, <1>21, <1>22 DEF Collected

(* TaggedStreamToPdu sees items of the first of the collected packets. *)
LEMMA FirstOfUser ==
  ASSUME user \in Seq(Item), pdu_remaining \in Nat, Passing \in Nat,
         NEW list \in Seq(Packets), Collected(list), Len(user) > 0
  PROVE  /\ Len(list) > 0 /\ list[1] \in Packets
         /\ Gathered(list) \in Nat /\ Gathered(list) < Span("payload", list[1])
         /\ \A i \in 1 .. Span("payload", list[1]) - Gathered(list) :
              i <= Len(user) => user[i] = Piece("payload", list[1], Gathered(list) + i)
<1>1. PICK at : CollectedAt(list, at)
  BY DEF Collected
<1>2. PICK n \in Nat : n = Len(list)
  BY LenProperties
<1>3. /\ at[1] = 0 - Gathered(list)
      /\ Holds("payload", user, list, at) /\ Len(user) = at[n + 1] - Passing
  BY <1>1, <1>2 DEF CollectedAt
<1>4. pdu_remaining # 0 => n > 0 /\ pdu_remaining < Span("payload", list[1])
  BY <1>2 DEF Collected, InPdu
<1>5. n > 0
  <2>1. SUFFICES ASSUME n = 0 PROVE FALSE
    OBVIOUS
  <2>2. Gathered(list) = 0
    BY <1>4, <2>1 DEF Gathered
  <2>3. Len(user) = 0 - Passing
    BY <1>3, <2>1, <2>2
  <2> QED BY <2>3
<1>6. 1 \in 1 .. Len(list)
  BY <1>2, <1>5
<1>7. list[1] \in Packets
  BY <1>6, ElementOfSeq
<1>8. PICK m \in Nat : m = Span("payload", list[1]) /\ m > 0
  BY <1>7, Spans DEF Forms
<1>9. PICK g \in Nat : g = Gathered(list) /\ g < m
  <2>1. CASE pdu_remaining = 0
    BY <1>8, <2>1 DEF Gathered
  <2>2. CASE pdu_remaining # 0
    <3>1. m - pdu_remaining \in Nat /\ m - pdu_remaining < m
      BY <1>4, <1>8, <2>2
    <3> QED BY <1>8, <2>2, <3>1 DEF Gathered
  <2> QED BY <2>1, <2>2
<1>10. ASSUME NEW i \in 1 .. m - g, i <= Len(user)
       PROVE  user[i] = Piece("payload", list[1], g + i)
  <2>1. PICK j : j = g + i
    OBVIOUS
  <2>2. j \in 1 .. m /\ (0 - g) + j = i
    BY <1>9, <2>1
  <2>3. Len(user) \in Nat
    BY LenProperties
  <2>4. at[1] + j = i /\ i \in 1 .. Len(user)
    BY <1>3, <1>9, <1>10, <2>2, <2>3
  <2> QED BY <1>3, <1>6, <1>8, <2>1, <2>2, <2>4 DEF Holds
<1> QED BY <1>2, <1>5, <1>7, <1>8, <1>9, <1>10

(* More of the first packet is in the PDU. *)
LEMMA PduGoesOn ==
  ASSUME user \in Seq(Item), pdu_remaining \in Nat, Passing \in Nat,
         NEW list \in Seq(Packets), Collected(list), Len(user) > 0,
         NEW c \in Nat, c > 0, c <= Len(user),
         c < Span("payload", list[1]) - Gathered(list),
         user' = From(user, c),
         pdu_remaining' = (Span("payload", list[1]) - Gathered(list)) - c,
         pdu_index' = Gathered(list) + c,
         pdu_pdu' = PartPdu(list[1], Gathered(list) + c),
         pdu_merged_tag' = <<>>,
         UNCHANGED <<checked, type_vars>>
  PROVE  Collected(list)'
<1>1. PICK at : CollectedAt(list, at)
  BY DEF Collected
<1>2. PICK n \in Nat : n = Len(list) /\ n > 0
  BY FirstOfUser, LenProperties
<1>3. PICK m, g \in Nat : m = Span("payload", list[1]) /\ g = Gathered(list) /\ g < m
  <2>1. list[1] \in Packets /\ Gathered(list) \in Nat /\ Gathered(list) < Span("payload", list[1])
    BY FirstOfUser
  <2> QED BY <2>1, Spans DEF Forms
<1>4. c < m - g /\ pdu_remaining' = (m - g) - c
  BY <1>3
<1>5. Gathered(list)' = g + c
  <2>1. (m - g) - c # 0 /\ m - ((m - g) - c) = g + c
    BY <1>4
  <2> QED BY <1>3, <1>4, <2>1 DEF Gathered
<1>6. InPdu(list)'
  <2>1. (m - g) - c < m
    OBVIOUS
  <2> QED BY <1>2, <1>3, <1>4, <1>5, <2>1 DEF InPdu
<1>7. Passing' = Passing
  BY DEF Passing, type_vars
<1>8. PassesLast(list)'
  BY <1>7 DEF Collected, PassesLast
<1>9. PICK next : next = [k \in 1 .. Len(list) + 1 |-> at[k] - c]
  OBVIOUS
<1>10. /\ Places("payload", list, at) /\ at[1] = 0 - g
       /\ Holds("payload", user, list, at) /\ Len(user) = at[n + 1] - Passing
       /\ "payload" \in Forms
  BY <1>1, <1>2, <1>3 DEF CollectedAt, Forms
<1>11. Places("payload", list, next) /\ Holds("payload", From(user, c), list, next)
  BY <1>9, <1>10, ItemsLeave
<1>12. 1 \in 1 .. n + 1 /\ n + 1 \in 1 .. n + 1
  OBVIOUS
<1>13. next[1] = at[1] - c /\ next[n + 1] = at[n + 1] - c /\ at[n + 1] \in Int
  BY <1>2, <1>9, <1>10, <1>12, PlaceTypes
<1>14. Len(From(user, c)) = Len(user) - c
  <2>1. c \in 0 .. Len(user)
    BY LenProperties
  <2> QED BY <2>1, FromProperties
<1>15. CollectedAt(list, next)'
  <2>1. next[1] = 0 - (g + c)
    <3>1. (0 - g) - c = 0 - (g + c)
      OBVIOUS
    <3> QED BY <1>10, <1>13, <3>1
  <2>2. PICK x, y \in Int : x = at[n + 1] /\ y = Passing
    BY <1>13
  <2>3. (x - y) - c = (x - c) - y
    OBVIOUS
  <2>4. Len(From(user, c)) = next[n + 1] - Passing'
    BY <1>7, <1>10, <1>13, <1>14, <2>2, <2>3
  <2> QED BY <1>2, <1>5, <1>11, <2>1, <2>4 DEF CollectedAt
<1>16. \A k \in 1 .. Len(list) : Delivery!Wanted(list[k])
  BY DEF Collected
<1> QED BY <1>6, <1>8, <1>15, <1>16 DEF Collected

(* The PDU of the first packet is whole. *)
LEMMA PduEnds ==
  ASSUME user \in Seq(Item), pdu_remaining \in Nat, Passing \in Nat,
         NEW list \in Seq(Packets), Collected(list), Len(user) > 0,
         NEW c \in Nat, c <= Len(user),
         c = Span("payload", list[1]) - Gathered(list),
         user' = From(user, c), pdu_remaining' = 0,
         pdu_pdu' = PDU!EmptyPdu, pdu_merged_tag' = <<>>,
         UNCHANGED <<checked, type_vars>>
  PROVE  /\ Collected(Tail(list))'
         /\ Len(list) > 0 /\ Delivery!Wanted(list[1])
<1>1. PICK at : CollectedAt(list, at)
  BY DEF Collected
<1>2. Len(list) > 0 /\ list[1] \in Packets
  BY FirstOfUser
<1>3. PICK n \in Nat : n = Len(list) - 1 /\ Len(list) = n + 1
  <2>1. Len(list) \in Nat
    BY LenProperties
  <2>2. Len(list) - 1 \in Nat /\ Len(list) = (Len(list) - 1) + 1
    BY <1>2, <2>1
  <2> QED BY <2>2
<1>4. PICK m, g \in Nat : m = Span("payload", list[1]) /\ g = Gathered(list) /\ c = m - g
  <2>1. Gathered(list) \in Nat
    BY FirstOfUser
  <2> QED BY <1>2, <2>1, Spans DEF Forms
<1>5. /\ Places("payload", list, at) /\ at[1] = 0 - g
      /\ Holds("payload", user, list, at) /\ Len(user) = at[Len(list) + 1] - Passing
      /\ "payload" \in Forms
  BY <1>1, <1>4 DEF CollectedAt, Forms
<1>6. PICK rest : rest = Tail(list)
  OBVIOUS
<1>7. rest \in Seq(Packets) /\ Len(rest) = n /\ \A i \in 1 .. n : rest[i] = list[i + 1]
  <2>1. Len(list) - 1 = n
    BY <1>3
  <2> QED BY <1>2, <1>6, <2>1, HeadAndTail
<1>8. PICK next : /\ Places("payload", rest, next)
                  /\ Holds("payload", From(user, c), rest, next)
                  /\ next[1] = (at[1] + Span("payload", list[1])) - c
                  /\ next[Len(rest) + 1] = at[Len(list) + 1] - c
  BY <1>2, <1>5, <1>6, PacketEnds
<1>9. next[1] = 0
  <2>1. ((0 - g) + m) - (m - g) = 0
    OBVIOUS
  <2> QED BY <1>4, <1>5, <1>8, <2>1
<1>10. Gathered(rest)' = 0 /\ InPdu(rest)'
  BY DEF Gathered, InPdu
<1>11. Passing' = Passing
  BY DEF Passing, type_vars
<1>12. Len(From(user, c)) = Len(user) - c
  <2>1. c \in 0 .. Len(user)
    BY LenProperties
  <2> QED BY <2>1, FromProperties
<1>13. at[Len(list) + 1] \in Int
  <2>1. Len(list) + 1 \in 1 .. Len(list) + 1
    BY <1>3
  <2> QED BY <1>5, <2>1, PlaceTypes
<1>14. CollectedAt(rest, next)'
  <2>1. PICK x, y \in Int : x = at[Len(list) + 1] /\ y = Passing
    BY <1>13
  <2>2. (x - y) - c = (x - c) - y
    OBVIOUS
  <2>3. Len(From(user, c)) = next[Len(rest) + 1] - Passing'
    BY <1>5, <1>8, <1>11, <1>12, <2>1, <2>2
  <2>4. next[1] = 0 - Gathered(rest)'
    BY <1>9, <1>10
  <2> QED BY <1>8, <2>3, <2>4 DEF CollectedAt
<1>15. PassesLast(rest)'
  <2>1. SUFFICES ASSUME Passing > 0 PROVE n > 0
    <3>1. n > 0 => Len(rest) > 0 /\ rest[Len(rest)] = list[Len(list)]
      <4>1. n > 0 => n \in 1 .. n
        OBVIOUS
      <4> QED BY <1>3, <1>7, <4>1
    <3> QED BY <1>11, <2>1, <3>1 DEF Collected, PassesLast
  <2>2. SUFFICES ASSUME n = 0 PROVE FALSE
    OBVIOUS
  <2>3. 1 \in 1 .. Len(list) /\ Len(list) + 1 = 1 + 1
    BY <1>3, <2>2
  <2>4. at[1 + 1] = at[1] + Span("payload", list[1])
    BY <1>5, <2>3 DEF Places
  <2>5. PICK y \in Nat : y = Passing /\ y > 0
    BY <2>1
  <2>6. Len(user) = ((0 - g) + m) - y
    BY <1>4, <1>5, <2>3, <2>4, <2>5
  <2> QED BY <1>4, <2>5, <2>6
<1>16. \A k \in 1 .. Len(rest) : Delivery!Wanted(rest[k])
  <2>1. \A k \in 1 .. n : k + 1 \in 1 .. Len(list)
    BY <1>3
  <2> QED BY <1>7, <2>1 DEF Collected
<1>17. Delivery!Wanted(list[1])
  <2>1. 1 \in 1 .. Len(list)
    BY <1>3
  <2> QED BY <2>1 DEF Collected
<1> QED BY <1>2, <1>6, <1>10, <1>14, <1>15, <1>16, <1>17 DEF Collected
-----------------------------------------------------------------------------
(* The steps.                                                              *)

(* The four lists, and what is known of the numbers. *)
LEMMA CutTypes ==
  ASSUME TypeOK, NEW P, NEW U, NEW Q, NEW R, Cut(P, U, Q, R)
  PROVE  /\ P \in Seq(Packets) /\ U \in Seq(Packets)
         /\ Q \in Seq(Packets) /\ R \in Seq(Packets)
         /\ Q \o R \in Seq(Packets) /\ U \o (Q \o R) \in Seq(Packets)
         /\ pending \in Seq(Packets) /\ pending = P \o (U \o (Q \o R))
         /\ Passing \in Nat /\ Passing <= type_remaining /\ type_remaining <= Len(checked)
<1>1. /\ P \in Seq(Packets) /\ U \in Seq(Packets) /\ Q \in Seq(Packets) /\ R \in Seq(Packets)
      /\ pending = P \o (U \o (Q \o R))
  BY DEF Cut, Lists
<1>2. Q \o R \in Seq(Packets)
  BY <1>1, ConcatProperties
<1>3. U \o (Q \o R) \in Seq(Packets)
  BY <1>1, <1>2, ConcatProperties
<1>4. pending \in Seq(Packets)
  BY <1>1, <1>3, ConcatProperties
<1>5. Passing \in Nat /\ Passing <= type_remaining
  BY DEF Passing, TypeOK
<1>6. type_remaining <= Len(checked)
  <2>1. PICK at : CheckedAt(Q, at)
    BY DEF Cut, Checked
  <2>2. 1 \in 1 .. Len(Q) + 1 /\ Len(Q) + 1 \in 1 .. Len(Q) + 1 /\ 1 <= Len(Q) + 1
    <3>1. Len(Q) \in Nat
      BY <1>1, LenProperties
    <3> QED BY <3>1
  <2> QED BY <2>1, <2>2 DEF CheckedAt, Places
<1> QED BY <1>1, <1>2, <1>3, <1>4, <1>5, <1>6

(* The ids are those of other packets after a packet is removed. *)
LEMMA DifferentAfterRemoval ==
  ASSUME pending \in Seq(Packets), DifferentIds, Len(pending) <= NumIds,
         NEW k \in 1 .. Len(pending), pending' = RemoveAt(pending, k)
  PROVE  DifferentIds' /\ Len(pending') <= NumIds
<1>1. PICK n \in Nat : n = Len(pending) /\ n <= NumIds
  BY LenProperties
<1>2. /\ Len(pending') = n - 1
      /\ \A i \in 1 .. n - 1 : pending'[i] = pending[IF i < k THEN i ELSE i + 1]
  BY <1>1, Removed
<1>3. ASSUME NEW i \in 1 .. n - 1, NEW j \in 1 .. n - 1, i # j
      PROVE  pending'[i].id # pending'[j].id
  <2>1. PICK a, c : /\ a = IF i < k THEN i ELSE i + 1
                    /\ c = IF j < k THEN j ELSE j + 1
    OBVIOUS
  <2>2. k \in Int /\ a \in 1 .. n /\ c \in 1 .. n /\ a # c
    BY <1>1, <1>3, <2>1
  <2>3. pending[a].id # pending[c].id
    BY <1>1, <2>2 DEF DifferentIds
  <2> QED BY <1>2, <2>1, <2>3
<1> QED BY <1>1, <1>2, <1>3, Sizes DEF DifferentIds

(* A packet that is not wanted is dropped. *)
LEMMA PacketDropped ==
  ASSUME NEW X \in Seq(Packets), NEW Y \in Seq(Packets), pending = X \o Y,
         DifferentIds, Len(pending) <= NumIds,
         Len(Y) > 0, ~Delivery!Wanted(Y[1]),
         pending' = Without(Y[1]), UNCHANGED written
  PROVE  /\ pending' = X \o Tail(Y)
         /\ DifferentIds' /\ Len(pending') <= NumIds
         /\ Delivery!Next
<1>1. PICK k : k = Len(X) + 1
  OBVIOUS
<1>2. pending \in Seq(Packets)
  BY ConcatProperties
<1>3. k \in 1 .. Len(pending) /\ pending[k] = Y[1] /\ RemoveAt(pending, k) = X \o Tail(Y)
  BY <1>1, LeavesBehind
<1>4. pending' = RemoveAt(pending, k)
  BY <1>2, <1>3, WithoutIsRemoval
<1>5. DifferentIds' /\ Len(pending') <= NumIds
  BY <1>2, <1>3, <1>4, DifferentAfterRemoval
<1>6. k \in DOMAIN pending
  BY <1>2, <1>3, LenProperties
<1>7. Delivery!Discard(k)
  BY <1>3, <1>4 DEF Delivery!Discard, RemoveAt
<1> QED BY <1>3, <1>4, <1>5, <1>6, <1>7 DEF Delivery!Next

(* The step of the first block. *)
LEMMA ReceiveKeeps ==
  ASSUME Inv, NEW p \in Packets, Receive(p)
  PROVE  Inv' /\ [Delivery!Next]_(Delivery!vars)
<1>1. PICK P, U, Q, R : Cut(P, U, Q, R)
  BY DEF Inv
<1>2. NoBlockFails /\ TypeOK /\ DifferentIds
  BY DEF Inv, NoBlockFails
<1>3. /\ P \in Seq(Packets) /\ U \in Seq(Packets) /\ Q \in Seq(Packets) /\ R \in Seq(Packets)
      /\ Q \o R \in Seq(Packets) /\ U \o (Q \o R) \in Seq(Packets)
      /\ pending \in Seq(Packets) /\ pending = P \o (U \o (Q \o R))
  BY <1>1, <1>2, CutTypes, SMTT(30)
<1>4. Ready(P) /\ Collected(U) /\ Checked(Q) /\ Arriving(R)
  BY <1>1 DEF Cut
<1>5. /\ bits \in Seq(Item) /\ bytes \in Seq(Item)
      /\ packet \in Packets /\ place \in 1 .. AllBits(packet)
      /\ Len(bits) < BitsCapacity /\ Len(bits) \in Nat /\ AllBits(packet) \in Nat
  BY <1>2, PacketSizes, LenProperties DEF TypeOK, Receive
<1>6. UNCHANGED <<pack_failed, bytes, crc_vars, checked, type_vars, user, pdu_vars,
                  pdus, written>>
  BY DEF Receive
<1>7. UNCHANGED <<crc_packet_len, crc_failed, offered, type_remaining, type_valid, type_failed,
                  pdu_remaining, pdu_index, pdu_pdu, pdu_merged_tag, pdu_failed>>
  BY <1>6 DEF crc_vars, type_vars, pdu_vars
<1>8. Ready(P)' /\ Collected(U)' /\ Checked(Q)'
  <2>1. Ready(P)'
    BY <1>4, <1>6 DEF Ready
  <2>2. Checked(Q)'
    BY <1>4, <1>6, <1>7 DEF Checked, CheckedAt
  <2>3. Passing' = Passing
    BY <1>7 DEF Passing
  <2>4. Collected(U)'
    BY <1>3, <1>4, <1>6, <2>3, CollectedStays
  <2> QED BY <2>1, <2>2, <2>4
<1>9. CASE place = AllBits(packet)
  <2>1. /\ packet' = p /\ place' = 1 /\ pending' = Append(pending, p)
        /\ \A k \in DOMAIN pending : pending[k].id # p.id
        /\ bits' = Append(bits, [of |-> p, place |-> 1, bits |-> AllBits(p)])
    BY <1>9 DEF Receive
  <2>2. bits' = Append(bits, Piece("bits", p, 1))
    BY <2>1 DEF Piece, Span
  <2>3. Arriving(Append(R, p))'
    BY <1>3, <1>4, <1>5, <1>6, <1>7, <1>9, <2>1, <2>2, NewArrives
  <2>5. Lists(P, U, Q, Append(R, p))'
    BY <1>1, <2>1, ListsGrow DEF Cut
  <2>6. Cut(P, U, Q, Append(R, p))'
    BY <1>8, <2>3, <2>5 DEF Cut
  <2>7. pending' \in Seq(Packets) /\ DifferentIds'
    <3>1. PICK n \in Nat : n = Len(pending) /\ DOMAIN pending = 1 .. n
      BY <1>3, LenProperties
    <3>2. /\ pending' \in Seq(Packets) /\ Len(pending') = n + 1
          /\ \A i \in 1 .. n : pending'[i] = pending[i]
          /\ pending'[n + 1] = p
      BY <1>3, <2>1, <3>1, AppendOne
    <3>3. \A i \in 1 .. n + 1 : i \in 1 .. n \/ i = n + 1
      OBVIOUS
    <3>4. \A i, j \in 1 .. n : i # j => pending'[i].id # pending'[j].id
      BY <1>2, <3>1, <3>2 DEF DifferentIds
    <3>5. \A i \in 1 .. n : pending'[i].id # p.id
      BY <2>1, <3>1, <3>2
    <3> QED BY <3>2, <3>3, <3>4, <3>5 DEF DifferentIds
  <2>8. Len(pending') <= NumIds
    BY <2>7, DifferentAreFew DEF DifferentIds
  <2>9. /\ bits' \in Seq(Item) /\ Len(bits') <= BitsCapacity
        /\ packet' \in Packets /\ place' \in 1 .. AllBits(packet')
    <3>1. Piece("bits", p, 1) \in Item
      BY Pieces DEF Forms
    <3>2. bits' \in Seq(Item) /\ Len(bits') = Len(bits) + 1
      BY <1>5, <2>2, <3>1, AppendOne
    <3> QED BY <1>5, <2>1, <3>2, PacketSizes, Sizes
  <2>10. NoBlockFails'
    BY <1>2, <1>6, <1>7, <2>8, <2>9 DEF NoBlockFails, TypeOK, AllBits
  <2>11. Delivery!Next
    <3>1. Delivery!Arrive(p)
      BY <1>6, <2>1 DEF Delivery!Arrive
    <3> QED BY <3>1 DEF Delivery!Next
  <2> QED BY <2>6, <2>7, <2>10, <2>11 DEF Inv
<1>10. CASE place # AllBits(packet)
  <2>1. /\ p = packet /\ place' = place + 1 /\ UNCHANGED <<packet, pending>>
        /\ bits' = Append(bits, [of |-> packet, place |-> place', bits |-> 0])
    BY <1>10 DEF Receive
  <2>2. bits' = Append(bits, Piece("bits", packet, place + 1))
    <3>1. place + 1 # 1
      BY <1>5
    <3> QED BY <2>1, <3>1 DEF Piece
  <2>3. Arriving(R)'
    BY <1>3, <1>4, <1>5, <1>6, <1>7, <1>10, <2>1, <2>2, MoreArrives
  <2>4. Cut(P, U, Q, R)'
    BY <1>3, <1>8, <2>1, <2>3 DEF Cut, Lists
  <2>5. /\ bits' \in Seq(Item) /\ Len(bits') <= BitsCapacity
        /\ place' \in 1 .. AllBits(packet)
    <3>1. Piece("bits", packet, place + 1) \in Item
      BY <1>5, Pieces DEF Forms
    <3>2. bits' \in Seq(Item) /\ Len(bits') = Len(bits) + 1
      BY <1>5, <2>2, <3>1, AppendOne
    <3> QED BY <1>5, <1>10, <2>1, <3>2, Sizes
  <2>6. NoBlockFails'
    BY <1>2, <1>6, <1>7, <2>1, <2>5 DEF NoBlockFails, TypeOK, AllBits
  <2>7. DifferentIds'
    BY <1>2, <2>1 DEF DifferentIds
  <2>8. UNCHANGED Delivery!vars
    BY <1>6, <2>1 DEF Delivery!vars
  <2> QED BY <2>4, <2>6, <2>7, <2>8 DEF Inv
<1> QED BY <1>9, <1>10
LEMMA PackKeeps ==
  ASSUME Inv, NEW count \in 1 .. BytesCapacity, Pack(count)
  PROVE  Inv' /\ [Delivery!Next]_(Delivery!vars)
<1>1. PICK P, U, Q, R : Cut(P, U, Q, R)
  BY DEF Inv
<1>2. NoBlockFails /\ TypeOK /\ DifferentIds
  BY DEF Inv, NoBlockFails
<1>3. Lists(P, U, Q, R) /\ Ready(P) /\ Collected(U) /\ Checked(Q) /\ Arriving(R)
  BY <1>1 DEF Cut
<1>4. U \in Seq(Packets) /\ R \in Seq(Packets)
  BY <1>3 DEF Lists
<1>5. PICK n : n = count * InputsPerOutput
  OBVIOUS
<1>6. /\ count \in Nat /\ count > 0 /\ n \in Nat /\ n > 0
  <2>1. count \in Nat /\ count > 0
    BY Sizes
  <2>2. count * InputsPerOutput \in Int /\ count * InputsPerOutput > 0
    BY <2>1, Multiples
  <2> QED BY <1>5, <2>1, <2>2
<1>7. /\ bits \in Seq(Item) /\ bytes \in Seq(Item)
      /\ packet \in Packets /\ place \in 1 .. AllBits(packet)
      /\ Len(bits) \in Nat /\ Len(bytes) \in Nat /\ Len(bits) <= BitsCapacity
  BY <1>2, LenProperties DEF TypeOK
<1>8. PICK chunk : chunk = SubSeq(bits, 1, n)
  OBVIOUS
<1>9. Chunk(bits, n) /\ n <= Len(bits) /\ Len(bytes) + count <= BytesCapacity
  BY <1>5 DEF Pack, Chunk
<1>10. /\ chunk[1].bits % InputsPerOutput = 0
       /\ PACK!Packed(chunk) \in Seq(Item) /\ Len(PACK!Packed(chunk)) = count
       /\ bytes' = bytes \o PACK!Packed(chunk) /\ bits' = From(bits, n)
          /\ UNCHANGED <<packet, place, crc_packet_len, offered>>
            => Arriving(R)'
  BY <1>3, <1>4, <1>5, <1>6, <1>7, <1>8, <1>9, BitsArePacked
<1>11. PICK published : /\ PACK!ProcessBulk(chunk, published)
                        /\ bytes' = bytes \o published
                        /\ bits' = From(bits, Len(published) * InputsPerOutput)
  BY <1>5, <1>8 DEF Pack
<1>12. published = PACK!Packed(chunk) /\ pack_failed' = pack_failed
  BY <1>10, <1>11 DEF PACK!ProcessBulk
<1>13. UNCHANGED <<packet, place, crc_vars, checked, type_vars, user, pdu_vars,
                   pdus, pending, written>>
  BY DEF Pack
<1>14. UNCHANGED <<crc_packet_len, crc_failed, offered, type_remaining, type_valid, type_failed,
                   pdu_remaining, pdu_index, pdu_pdu, pdu_merged_tag, pdu_failed>>
  BY <1>13 DEF crc_vars, type_vars, pdu_vars
<1>15. Arriving(R)' /\ bits' = From(bits, n)
  BY <1>5, <1>10, <1>11, <1>12, <1>13, <1>14
<1>16. Lists(P, U, Q, R)' /\ Ready(P)' /\ Checked(Q)'
  BY <1>3, <1>13, <1>14 DEF Lists, Ready, Checked, CheckedAt
<1>17. Collected(U)'
  <2>1. Passing' = Passing
    BY <1>14 DEF Passing
  <2> QED BY <1>3, <1>4, <1>13, <2>1, CollectedStays
<1>18. bits' \in Seq(Item) /\ Len(bits') <= BitsCapacity
  <2>1. n \in 0 .. Len(bits)
    BY <1>6, <1>7, <1>9
  <2>2. bits' \in Seq(Item) /\ Len(bits') = Len(bits) - n
    BY <1>7, <1>15, <2>1, FromProperties
  <2> QED BY <1>6, <1>7, <2>2, Sizes
<1>19. bytes' \in Seq(Item) /\ Len(bytes') <= BytesCapacity
  <2>1. bytes' \in Seq(Item) /\ Len(bytes') = Len(bytes) + count
    BY <1>7, <1>10, <1>11, <1>12, JoinProperties
  <2> QED BY <1>9, <2>1
<1>20. NoBlockFails'
  BY <1>2, <1>12, <1>13, <1>14, <1>18, <1>19 DEF NoBlockFails, TypeOK, AllBits
<1>21. DifferentIds' /\ UNCHANGED Delivery!vars
  BY <1>2, <1>13 DEF DifferentIds, Delivery!vars
<1> QED BY <1>15, <1>16, <1>17, <1>20, <1>21 DEF Inv, Cut
-----------------------------------------------------------------------------
(* Packets go from one list to the one before it.                          *)

LEMMA ListTypes ==
  ASSUME NEW P, NEW U, NEW Q, NEW R, Lists(P, U, Q, R)
  PROVE  /\ P \in Seq(Packets) /\ U \in Seq(Packets) /\ Q \in Seq(Packets) /\ R \in Seq(Packets)
         /\ Q \o R \in Seq(Packets) /\ U \o (Q \o R) \in Seq(Packets) /\ pending \in Seq(Packets)
<1>1. P \in Seq(Packets) /\ U \in Seq(Packets) /\ Q \in Seq(Packets) /\ R \in Seq(Packets)
  BY DEF Lists
<1>2. Q \o R \in Seq(Packets)
  BY <1>1, ConcatProperties
<1>3. U \o (Q \o R) \in Seq(Packets)
  BY <1>1, <1>2, ConcatProperties
<1>4. pending \in Seq(Packets)
  BY <1>1, <1>3, ConcatProperties DEF Lists
<1> QED BY <1>1, <1>2, <1>3, <1>4

(* Out of CrcCheck. *)
LEMMA ListsChecked ==
  ASSUME NEW P, NEW U, NEW Q, NEW R, Lists(P, U, Q, R), Len(R) > 0, UNCHANGED pending
  PROVE  Lists(P, U, Append(Q, R[1]), Tail(R))'
<1>1. P \in Seq(Packets) /\ U \in Seq(Packets) /\ Q \in Seq(Packets) /\ R \in Seq(Packets)
  BY ListTypes
<1>2. R[1] \in Packets /\ Tail(R) \in Seq(Packets)
  BY <1>1, HeadAndTail
<1>3. Append(Q, R[1]) \in Seq(Packets)
  BY <1>1, <1>2, AppendOne
<1>4. Q \o R = Append(Q, R[1]) \o Tail(R)
  <2>1. PICK e, W : e = <<R[1]>> /\ W = Tail(R)
    OBVIOUS
  <2>2. e \in Seq(Packets) /\ W \in Seq(Packets)
    BY <1>2, <2>1
  <2>3. Append(Q, R[1]) = Q \o e
    BY <1>1, <1>2, <2>1, AppendIsConcat
  <2>4. R = e \o W
    BY <1>1, <2>1, HeadFirst
  <2>5. (Q \o e) \o W = Q \o (e \o W)
    BY <1>1, <2>2, ConcatAssociative, SMTT(30)
  <2> QED BY <2>1, <2>3, <2>4, <2>5
<1>5. pending' = P \o (U \o (Append(Q, R[1]) \o Tail(R)))
  BY <1>4 DEF Lists
<1> QED BY <1>1, <1>2, <1>3, <1>5 DEF Lists

(* Into the links behind PacketTypeFilter. *)
LEMMA ListsPassed ==
  ASSUME NEW P, NEW U, NEW Q, NEW R, Lists(P, U, Q, R), Len(Q) > 0, UNCHANGED pending
  PROVE  Lists(P, Append(U, Q[1]), Tail(Q), R)'
<1>1. P \in Seq(Packets) /\ U \in Seq(Packets) /\ Q \in Seq(Packets) /\ R \in Seq(Packets)
  BY ListTypes
<1>2. Append(U, Q[1]) \in Seq(Packets) /\ Tail(Q) \in Seq(Packets)
  BY <1>1, HeadAndTail, AppendOne
<1>3. U \o (Q \o R) = Append(U, Q[1]) \o (Tail(Q) \o R)
  BY <1>1, GoesOver, Zenon
<1>4. pending' = P \o (Append(U, Q[1]) \o (Tail(Q) \o R))
  BY <1>3 DEF Lists
<1> QED BY <1>1, <1>2, <1>4 DEF Lists

(* Out of TaggedStreamToPdu. *)
LEMMA ListsReady ==
  ASSUME NEW P, NEW U, NEW Q, NEW R, Lists(P, U, Q, R), Len(U) > 0, UNCHANGED pending
  PROVE  Lists(Append(P, U[1]), Tail(U), Q, R)'
<1>1. P \in Seq(Packets) /\ U \in Seq(Packets) /\ Q \in Seq(Packets) /\ R \in Seq(Packets)
  BY ListTypes
<1>2. Append(P, U[1]) \in Seq(Packets) /\ Tail(U) \in Seq(Packets)
  BY <1>1, HeadAndTail, AppendOne
<1>3. ASSUME NEW W \in Seq(Packets)
      PROVE  P \o (U \o W) = Append(P, U[1]) \o (Tail(U) \o W)
  BY <1>1, GoesOver, Zenon
<1>4. Q \o R \in Seq(Packets)
  BY ListTypes
<1>5. pending' = Append(P, U[1]) \o (Tail(U) \o (Q \o R))
  BY <1>3, <1>4 DEF Lists
<1> QED BY <1>1, <1>2, <1>5 DEF Lists

(* To the TUN device. *)
LEMMA ListsWritten ==
  ASSUME NEW P, NEW U, NEW Q, NEW R, Lists(P, U, Q, R), Len(P) > 0,
         DifferentIds, Len(pending) <= NumIds, pending' = Tail(pending)
  PROVE  /\ Lists(Tail(P), U, Q, R)'
         /\ pending # <<>> /\ Head(pending) = P[1]
         /\ DifferentIds' /\ Len(pending') <= NumIds
<1>1. P \in Seq(Packets) /\ U \in Seq(Packets) /\ Q \in Seq(Packets) /\ R \in Seq(Packets)
  BY ListTypes
<1>2. PICK W : W = U \o (Q \o R) /\ W \in Seq(Packets)
  BY ListTypes
<1>3. Len(P \o W) > 0 /\ (P \o W)[1] = P[1] /\ Tail(P \o W) = Tail(P) \o W
  BY <1>1, <1>2, LeavesFirst
<1>4. pending = P \o W
  BY <1>2 DEF Lists
<1>5. pending' = Tail(P) \o (U \o (Q \o R)) /\ Len(pending) > 0 /\ pending[1] = P[1]
  BY <1>2, <1>3, <1>4
<1>6. Lists(Tail(P), U, Q, R)'
  BY <1>1, <1>5, HeadAndTail DEF Lists
<1>7. pending \in Seq(Packets) /\ pending # <<>> /\ Head(pending) = P[1]
  BY <1>5, ListTypes, HeadAndTail
<1>8. DifferentIds' /\ Len(pending') <= NumIds
  <2>1. PICK n \in Nat : n = Len(pending) /\ n > 0 /\ n <= NumIds
    BY <1>5, <1>7, LenProperties
  <2>2. Len(pending') = n - 1 /\ \A i \in 1 .. n - 1 : pending'[i] = pending[i + 1]
    BY <1>5, <1>7, <2>1, HeadAndTail
  <2>3. ASSUME NEW i \in 1 .. n - 1, NEW j \in 1 .. n - 1, i # j
        PROVE  pending'[i].id # pending'[j].id
    <3>1. PICK a, c : a = i + 1 /\ c = j + 1
      OBVIOUS
    <3>2. a \in 1 .. n /\ c \in 1 .. n /\ a # c
      BY <2>1, <2>3, <3>1
    <3> QED BY <2>1, <2>2, <3>1, <3>2 DEF DifferentIds
  <2>4. n - 1 <= NumIds
    BY <2>1, Sizes
  <2> QED BY <2>2, <2>3, <2>4 DEF DifferentIds
<1> QED BY <1>6, <1>7, <1>8

(* Three lists, one behind the other. *)
AreLists(X, Y, Z) == X \in Seq(Packets) /\ Y \in Seq(Packets) /\ Z \in Seq(Packets)

LEMMA Associative ==
  ASSUME NEW X, NEW Y, NEW Z, AreLists(X, Y, Z)
  PROVE  (X \o Y) \o Z = X \o (Y \o Z)
<1>1. X \in Seq(Packets) /\ Y \in Seq(Packets) /\ Z \in Seq(Packets)
  BY DEF AreLists
<1> QED BY <1>1, ConcatAssociative, SMTT(30)

(* The last of four lists. *)
LEMMA LastOfFour ==
  ASSUME NEW P, NEW U, NEW Q, NEW W, AreLists(P, U, Q), W \in Seq(Packets)
  PROVE  P \o (U \o (Q \o W)) = (P \o (U \o Q)) \o W
<1>1. U \o Q \in Seq(Packets)
  BY ConcatProperties DEF AreLists
<1>2. AreLists(U, Q, W) /\ AreLists(P, U \o Q, W)
  BY <1>1 DEF AreLists
<1>3. (U \o Q) \o W = U \o (Q \o W)
  BY <1>2, Associative, SMTT(30)
<1>4. (P \o (U \o Q)) \o W = P \o ((U \o Q) \o W)
  BY <1>2, Associative, SMTT(30)
<1> QED BY <1>3, <1>4

(* CrcCheck drops a packet. *)
LEMMA ListsDropArrived ==
  ASSUME NEW P, NEW U, NEW Q, NEW R, Lists(P, U, Q, R), Len(R) > 0,
         DifferentIds, Len(pending) <= NumIds, ~Delivery!Wanted(R[1]),
         pending' = Without(R[1]), UNCHANGED written
  PROVE  /\ Lists(P, U, Q, Tail(R))'
         /\ DifferentIds' /\ Len(pending') <= NumIds /\ Delivery!Next
<1>1. P \in Seq(Packets) /\ U \in Seq(Packets) /\ Q \in Seq(Packets) /\ R \in Seq(Packets)
  BY ListTypes
<1>2. ASSUME NEW W \in Seq(Packets)
      PROVE  P \o (U \o (Q \o W)) = (P \o (U \o Q)) \o W
  <2>1. AreLists(P, U, Q)
    BY <1>1 DEF AreLists
  <2> QED BY <1>2, <2>1, LastOfFour, SMTT(30)
<1>3. PICK X : X = P \o (U \o Q) /\ X \in Seq(Packets)
  <2>1. U \o Q \in Seq(Packets)
    BY <1>1, ConcatProperties
  <2> QED BY <1>1, <2>1, ConcatProperties
<1>4. pending = X \o R
  BY <1>1, <1>2, <1>3 DEF Lists
<1>5. /\ pending' = X \o Tail(R)
      /\ DifferentIds' /\ Len(pending') <= NumIds /\ Delivery!Next
  BY <1>1, <1>3, <1>4, PacketDropped
<1>6. Tail(R) \in Seq(Packets)
  BY <1>1, HeadAndTail
<1>7. pending' = P \o (U \o (Q \o Tail(R)))
  BY <1>2, <1>3, <1>5, <1>6
<1> QED BY <1>1, <1>5, <1>6, <1>7 DEF Lists

(* PacketTypeFilter drops a packet. *)
LEMMA ListsDropChecked ==
  ASSUME NEW P, NEW U, NEW Q, NEW R, Lists(P, U, Q, R), Len(Q) > 0,
         DifferentIds, Len(pending) <= NumIds, ~Delivery!Wanted(Q[1]),
         pending' = Without(Q[1]), UNCHANGED written
  PROVE  /\ Lists(P, U, Tail(Q), R)'
         /\ DifferentIds' /\ Len(pending') <= NumIds /\ Delivery!Next
<1>1. P \in Seq(Packets) /\ U \in Seq(Packets) /\ Q \in Seq(Packets) /\ R \in Seq(Packets)
  BY ListTypes
<1>2. ASSUME NEW W \in Seq(Packets)
      PROVE  P \o (U \o W) = (P \o U) \o W
  BY <1>1, ConcatAssociative, SMTT(30)
<1>3. PICK X : X = P \o U /\ X \in Seq(Packets)
  BY <1>1, ConcatProperties
<1>4. PICK Y : Y = Q \o R /\ Y \in Seq(Packets)
  BY ListTypes
<1>5. Len(Y) > 0 /\ Y[1] = Q[1] /\ Tail(Y) = Tail(Q) \o R
  BY <1>1, <1>4, LeavesFirst
<1>6. pending = X \o Y
  BY <1>2, <1>3, <1>4 DEF Lists
<1>7. /\ pending' = X \o Tail(Y)
      /\ DifferentIds' /\ Len(pending') <= NumIds /\ Delivery!Next
  BY <1>3, <1>4, <1>5, <1>6, PacketDropped
<1>8. Tail(Q) \in Seq(Packets) /\ Tail(Y) \in Seq(Packets)
  BY <1>1, <1>4, <1>5, HeadAndTail
<1>9. pending' = P \o (U \o (Tail(Q) \o R))
  BY <1>2, <1>3, <1>5, <1>7, <1>8
<1> QED BY <1>1, <1>7, <1>8, <1>9 DEF Lists
-----------------------------------------------------------------------------
(* The step of CrcCheck.                                                   *)

(* Nothing is taken from a link. *)
LEMMA FromNothing ==
  ASSUME NEW link \in Seq(Item)
  PROVE  From(link, 0) = link
BY SubSeqFull DEF From

(* CrcCheck waits for the whole packet. *)
CheckWaits(p) ==
  /\ crc_packet_len' = p.len /\ offered' = TRUE
  /\ checked' = checked /\ bytes' = bytes /\ pending' = pending

(* CrcCheck drops a packet with a wrong CRC. *)
CheckDrops(p) ==
  /\ ~p.good /\ p.len <= Len(bytes)
  /\ crc_packet_len' = 0 /\ offered' = FALSE
  /\ checked' = checked /\ bytes' = From(bytes, p.len) /\ pending' = Without(p)

(* CrcCheck lets a packet with a right CRC pass, and removes the CRC. *)
CheckPasses(p, more) ==
  /\ p.good /\ p.len <= Len(bytes)
  /\ AreItems("payload", p, 0, more) /\ Len(more) = Span("payload", p)
  /\ crc_packet_len' = 0 /\ offered' = FALSE
  /\ checked' = checked \o more /\ bytes' = From(bytes, p.len) /\ pending' = pending

(* A call of CrcCheck does one of the three. *)
LEMMA CheckCall ==
  ASSUME NoBlockFails, NEW list \in Seq(Packets), Arriving(list),
         NEW n \in 1 .. BytesCapacity, Check(n)
  PROVE  /\ Len(list) > 0 /\ list[1] \in Packets /\ crc_failed' = crc_failed
         /\ Len(checked) + n <= CheckedCapacity
         /\ \/ CheckWaits(list[1])
            \/ CheckDrops(list[1])
            \/ list[1].len <= n /\ \E more : CheckPasses(list[1], more)
<1>1. /\ bits \in Seq(Item) /\ bytes \in Seq(Item) /\ checked \in Seq(Item)
      /\ packet \in Packets /\ place \in 1 .. AllBits(packet)
      /\ Len(bytes) \in Nat /\ crc_packet_len \in Lengths \cup {0}
  BY LenProperties DEF NoBlockFails, TypeOK
<1>2. n \in Nat /\ n > 0 /\ Chunk(bytes, n) /\ n <= Len(bytes) /\ Len(checked) + n <= CheckedCapacity
  BY Sizes DEF Check, Chunk
<1>3. PICK p : p = list[1]
  OBVIOUS
<1>4. /\ Len(list) > 0 /\ p \in Packets /\ n <= p.len
      /\ \A i \in 1 .. n : bytes[i] = Piece("bytes", p, i)
  BY <1>1, <1>2, <1>3, FirstOfBytes
<1>5. PICK len \in Nat : len = p.len /\ len > 0 /\ len > CrcSize /\ n <= len
  BY <1>4, PacketSizes
<1>6. bytes[1].bits = len /\ bytes[1].of = p
  <2>1. 1 \in 1 .. n
    BY <1>2
  <2>2. bytes[1] = Piece("bytes", p, 1)
    BY <1>4, <2>1
  <2> QED BY <1>5, <2>2 DEF Piece, Span
<1>7. PICK tag \in {bytes[1].bits} \cup (IF offered THEN {0} ELSE {}),
           consumed \in 0 .. n, published \in 0 .. n :
         /\ CRC!ProcessBulk(tag, n, bytes[1].of.good, n, consumed, published)
         /\ checked' = checked
              \o [i \in 1 .. published |->
                   [bytes[i] EXCEPT !.bits = IF i = 1 THEN CRC!TagOut(tag) ELSE 0]]
         /\ bytes' = From(bytes, consumed)
         /\ offered' = (consumed = 0)
         /\ pending' = IF consumed > 0 /\ published = 0 THEN Without(bytes[1].of)
                                                        ELSE pending
  BY DEF Check
<1>8. CRC!Whole(tag) = len
  <2>1. LengthKnown(list)
    BY DEF Arriving
  <2>2. crc_packet_len # 0 => crc_packet_len = len
    BY <1>3, <1>5, <2>1 DEF LengthKnown
  <2>3. crc_packet_len = 0 => tag = len
    BY <1>6, <1>7, <2>1 DEF LengthKnown
  <2> QED BY <2>2, <2>3 DEF CRC!Whole
<1>9. ~CRC!Fail(tag, consumed, published)
  BY <1>5, <1>8 DEF CRC!Fail
<1>10. ~CRC!NoRoom(tag, n, p.good, n, consumed, published)
  <2>1. ~(n >= len /\ n < len - CrcSize)
    BY <1>2, <1>5, Sizes
  <2> QED BY <1>8, <2>1 DEF CRC!NoRoom, CRC!Complete
<1>11. CASE CRC!Wait(tag, n, consumed, published)
  <2>1. consumed = 0 /\ published = 0 /\ crc_packet_len' = len /\ crc_failed' = crc_failed
    BY <1>8, <1>11 DEF CRC!Wait
  <2>2. checked' = checked
    <3>1. PICK more : more = [i \in 1 .. published |->
                               [bytes[i] EXCEPT !.bits = IF i = 1 THEN CRC!TagOut(tag) ELSE 0]]
      OBVIOUS
    <3>2. more = <<>>
      <4>1. 1 .. published = {}
        BY <2>1
      <4> QED BY <3>1, <4>1
    <3>3. checked \o <<>> = checked
      BY <1>1, ConcatEmptySeq
    <3> QED BY <1>7, <3>1, <3>2, <3>3
  <2>3. bytes' = bytes
    BY <1>1, <1>7, <2>1, FromNothing
  <2>4. pending' = pending
    <3>1. ~(consumed > 0 /\ published = 0)
      BY <2>1
    <3> QED BY <1>7, <3>1
  <2>5. offered' = TRUE
    BY <1>7, <2>1
  <2>6. CheckWaits(p)
    BY <1>5, <2>1, <2>2, <2>3, <2>4, <2>5 DEF CheckWaits
  <2> QED BY <1>2, <1>3, <1>4, <2>1, <2>6
<1>12. CASE CRC!Drop(tag, n, p.good, consumed, published)
  <2>1. /\ consumed = len /\ published = 0 /\ crc_packet_len' = 0 /\ crc_failed' = crc_failed
        /\ len <= CrcSize \/ ~p.good
    BY <1>8, <1>12 DEF CRC!Drop
  <2>2. ~p.good /\ consumed > 0 /\ len <= Len(bytes)
    <3>1. ~(len <= CrcSize)
      BY <1>5, Sizes
    <3> QED BY <1>2, <1>5, <1>7, <2>1, <3>1
  <2>3. checked' = checked
    <3>1. PICK more : more = [i \in 1 .. published |->
                               [bytes[i] EXCEPT !.bits = IF i = 1 THEN CRC!TagOut(tag) ELSE 0]]
      OBVIOUS
    <3>2. more = <<>>
      <4>1. 1 .. published = {}
        BY <2>1
      <4> QED BY <3>1, <4>1
    <3>3. checked \o <<>> = checked
      BY <1>1, ConcatEmptySeq
    <3> QED BY <1>7, <3>1, <3>2, <3>3
  <2>4. CheckDrops(p)
    <3>1. pending' = Without(p)
      <4>1. consumed > 0 /\ published = 0
        BY <2>1, <2>2
      <4> QED BY <1>6, <1>7, <4>1
    <3>2. offered' = FALSE
      <4>1. ~(consumed = 0)
        BY <2>2
      <4> QED BY <1>7, <4>1
    <3>3. bytes' = From(bytes, len)
      BY <1>7, <2>1
    <3> QED BY <1>5, <2>1, <2>2, <2>3, <3>1, <3>2, <3>3 DEF CheckDrops
  <2> QED BY <1>2, <1>3, <1>4, <2>1, <2>4
<1>13. CASE CRC!Pass(tag, n, p.good, n, consumed, published)
  <2>1. /\ consumed = len /\ published = len - CrcSize
        /\ crc_packet_len' = 0 /\ crc_failed' = crc_failed /\ p.good
    BY <1>8, <1>13 DEF CRC!Pass
  <2>2. PICK m \in Nat : m = len - CrcSize /\ m > 0 /\ m <= n /\ n = len
    <3>1. len - CrcSize \in Nat /\ len - CrcSize > 0
      BY <1>5, Sizes
    <3>2. n >= len
      BY <1>8, <1>13 DEF CRC!Pass, CRC!Complete
    <3> QED BY <1>2, <1>5, <1>7, <2>1, <3>1, <3>2
  <2>3. Span("payload", p) = m
    BY <1>5, <2>2 DEF Span
  <2>4. PICK more : more = [i \in 1 .. published |->
                             [bytes[i] EXCEPT !.bits = IF i = 1 THEN CRC!TagOut(tag) ELSE 0]]
    OBVIOUS
  <2>5. CRC!TagOut(tag) = m
    BY <1>8, <2>2 DEF CRC!TagOut
  <2>6. ASSUME NEW i \in 1 .. m
        PROVE  [bytes[i] EXCEPT !.bits = IF i = 1 THEN CRC!TagOut(tag) ELSE 0]
                 = Piece("payload", p, 0 + i)
    <3>1. i \in 1 .. n /\ 0 + i = i
      BY <1>2, <2>2, <2>6
    <3>2. bytes[i] = Piece("bytes", p, i)
      BY <1>4, <3>1
    <3>3. PICK b, t : b = bytes[i] /\ t = IF i = 1 THEN m ELSE 0
      OBVIOUS
    <3>4. b = [of |-> p, place |-> i, bits |-> b.bits]
      BY <3>2, <3>3 DEF Piece
    <3>5. [b EXCEPT !.bits = t] = [of |-> p, place |-> i, bits |-> t]
      BY <3>4
    <3> QED BY <2>3, <2>5, <3>1, <3>3, <3>5 DEF Piece
  <2>7. more = [i \in 1 .. m |-> Piece("payload", p, 0 + i)]
    <3>1. published = m
      BY <2>1, <2>2
    <3> QED BY <2>4, <2>6, <3>1
  <2>8. AreItems("payload", p, 0, more) /\ Len(more) = m
    <3>1. \A i \in 1 .. m : 0 + i \in Nat
      BY <2>2
    <3>2. \A i \in 1 .. m : Piece("payload", p, 0 + i) \in Item
      BY <1>4, <3>1, Pieces DEF Forms
    <3>3. more \in [1 .. m -> Item]
      BY <2>7, <3>2
    <3>4. more \in Seq(Item) /\ Len(more) = m
      BY <3>3, FunctionIsSeq
    <3>5. \A i \in 1 .. m : more[i] = Piece("payload", p, 0 + i)
      BY <2>7
    <3> QED BY <2>2, <2>3, <3>4, <3>5 DEF AreItems
  <2>9. CheckPasses(p, more)
    <3>1. ~(consumed > 0 /\ published = 0) /\ ~(consumed = 0) /\ len <= Len(bytes)
      BY <1>2, <1>5, <2>1, <2>2
    <3> QED BY <1>5, <1>7, <2>1, <2>3, <2>4, <2>8, <3>1 DEF CheckPasses
  <2>10. p.len <= n
    BY <1>5, <2>2
  <2> QED BY <1>2, <1>3, <1>4, <2>1, <2>9, <2>10
<1> QED BY <1>6, <1>7, <1>9, <1>10, <1>11, <1>12, <1>13 DEF CRC!ProcessBulk
LEMMA CheckKeeps ==
  ASSUME Inv, NEW n \in 1 .. BytesCapacity, Check(n)
  PROVE  Inv' /\ [Delivery!Next]_(Delivery!vars)
<1>1. PICK P, U, Q, R : Cut(P, U, Q, R)
  BY DEF Inv
<1>2. NoBlockFails /\ TypeOK /\ DifferentIds
  BY DEF Inv, NoBlockFails
<1>3. Lists(P, U, Q, R) /\ Ready(P) /\ Collected(U) /\ Checked(Q) /\ Arriving(R)
  BY <1>1 DEF Cut
<1>4. /\ P \in Seq(Packets) /\ U \in Seq(Packets) /\ Q \in Seq(Packets) /\ R \in Seq(Packets)
      /\ Passing \in Nat /\ Passing <= type_remaining
  BY <1>1, <1>2, CutTypes, SMTT(30)
<1>5. /\ bits \in Seq(Item) /\ bytes \in Seq(Item) /\ checked \in Seq(Item)
      /\ packet \in Packets /\ place \in 1 .. AllBits(packet)
      /\ Len(bytes) \in Nat /\ Len(checked) \in Nat /\ type_remaining \in Nat
      /\ Len(bytes) <= BytesCapacity /\ Len(checked) <= CheckedCapacity
      /\ Len(pending) <= NumIds
  BY <1>2, LenProperties DEF TypeOK
<1>6. UNCHANGED <<packet, place, bits, pack_failed, type_vars, user, pdu_vars, pdus, written>>
  BY DEF Check
<1>7. UNCHANGED <<type_remaining, type_valid, type_failed,
                  pdu_remaining, pdu_index, pdu_pdu, pdu_merged_tag, pdu_failed>>
  BY <1>6 DEF type_vars, pdu_vars
<1>8. Passing' = Passing /\ Ready(P)'
  BY <1>3, <1>6, <1>7 DEF Passing, Ready
<1>9. PICK p : p = R[1]
  OBVIOUS
<1>10. /\ Len(R) > 0 /\ p \in Packets /\ crc_failed' = crc_failed
       /\ Len(checked) + n <= CheckedCapacity
       /\ \/ CheckWaits(p)
          \/ CheckDrops(p)
          \/ p.len <= n /\ \E more : CheckPasses(p, more)
  BY <1>2, <1>3, <1>4, <1>9, CheckCall
<1>11. p.len \in Lengths /\ p.len \in Nat /\ p.len > 0
  BY <1>10, PacketSizes
<1>12. ASSUME \E V, W : Lists(P, U, V, W)' /\ Checked(V)' /\ Arriving(W)',
              Collected(U)', crc_packet_len' \in Lengths \cup {0}, offered' \in BOOLEAN,
              bytes' \in Seq(Item), Len(bytes') <= BytesCapacity,
              checked' \in Seq(Item), Len(checked') <= CheckedCapacity,
              DifferentIds', Len(pending') <= NumIds
       PROVE  Inv'
  <2>1. NoBlockFails'
    BY <1>2, <1>6, <1>7, <1>10, <1>12 DEF NoBlockFails, TypeOK, AllBits
  <2>2. \E V, W : Cut(P, U, V, W)'
    BY <1>8, <1>12 DEF Cut
  <2> QED BY <1>12, <2>1, <2>2 DEF Inv
<1>13. \/ Len(From(bytes, p.len)) <= BytesCapacity /\ From(bytes, p.len) \in Seq(Item)
       \/ p.len > Len(bytes)
  <2>1. SUFFICES ASSUME ~(p.len > Len(bytes))
                 PROVE  Len(From(bytes, p.len)) <= BytesCapacity /\ From(bytes, p.len) \in Seq(Item)
    OBVIOUS
  <2>2. p.len \in 0 .. Len(bytes)
    BY <1>5, <1>11, <2>1
  <2>3. From(bytes, p.len) \in Seq(Item) /\ Len(From(bytes, p.len)) = Len(bytes) - p.len
    BY <1>5, <2>2, FromProperties
  <2> QED BY <1>5, <1>11, <2>3, Sizes
<1>14. CASE CheckWaits(p)
  <2>1. /\ crc_packet_len' = p.len /\ offered' = TRUE
        /\ UNCHANGED <<checked, bytes, pending>>
    BY <1>14 DEF CheckWaits
  <2>2. Arriving(R)'
    <3>1. PICK at, bit_at, d : ArrivingAt(R, at, bit_at, d)
      BY <1>3 DEF Arriving
    <3>2. ArrivingAt(R, at, bit_at, d)'
      BY <1>6, <2>1, <3>1 DEF ArrivingAt, Coming, AllBits
    <3>3. LengthKnown(R)'
      BY <1>9, <1>10, <1>11, <2>1 DEF LengthKnown
    <3>4. ComesLast(R)'
      BY <1>3, <1>6 DEF Arriving, ComesLast, Coming, AllBits
    <3> QED BY <3>2, <3>3, <3>4 DEF Arriving
  <2>3. Lists(P, U, Q, R)' /\ Checked(Q)'
    BY <1>3, <1>7, <2>1 DEF Lists, Checked, CheckedAt
  <2>4. Collected(U)'
    BY <1>3, <1>4, <1>6, <1>8, <2>1, CollectedStays
  <2>5. DifferentIds' /\ Len(pending') <= NumIds
    BY <1>2, <1>5, <2>1 DEF DifferentIds
  <2>6. Inv'
    BY <1>5, <1>11, <1>12, <2>1, <2>2, <2>3, <2>4, <2>5
  <2>7. UNCHANGED Delivery!vars
    BY <1>6, <2>1 DEF Delivery!vars
  <2> QED BY <2>6, <2>7
<1>15. CASE CheckDrops(p)
  <2>1. /\ ~p.good /\ p.len <= Len(bytes)
        /\ crc_packet_len' = 0 /\ offered' = FALSE
        /\ checked' = checked /\ bytes' = From(bytes, p.len) /\ pending' = Without(p)
    BY <1>15 DEF CheckDrops
  <2>2. Arriving(Tail(R))'
    BY <1>3, <1>4, <1>5, <1>6, <1>9, <1>10, <1>11, <2>1, FirstLeaves
  <2>3. ~Delivery!Wanted(R[1])
    BY <1>9, <2>1 DEF Delivery!Wanted
  <2>4. /\ Lists(P, U, Q, Tail(R))'
        /\ DifferentIds' /\ Len(pending') <= NumIds /\ Delivery!Next
    BY <1>2, <1>3, <1>5, <1>6, <1>9, <1>10, <2>1, <2>3, ListsDropArrived
  <2>5. Checked(Q)'
    BY <1>3, <1>7, <2>1 DEF Checked, CheckedAt
  <2>6. Collected(U)'
    BY <1>3, <1>4, <1>6, <1>8, <2>1, CollectedStays
  <2>7. ~(p.len > Len(bytes))
    BY <1>5, <1>11, <2>1
  <2>8. Inv'
    BY <1>5, <1>12, <1>13, <2>1, <2>2, <2>4, <2>5, <2>6, <2>7
  <2> QED BY <2>4, <2>8
<1>16. CASE p.len <= n /\ \E more : CheckPasses(p, more)
  <2>1. PICK more : CheckPasses(p, more)
    BY <1>16
  <2>2. /\ p.good /\ p.len <= Len(bytes) /\ AreItems("payload", p, 0, more)
        /\ Len(more) = Span("payload", p)
        /\ crc_packet_len' = 0 /\ offered' = FALSE
        /\ checked' = checked \o more /\ bytes' = From(bytes, p.len) /\ UNCHANGED pending
    BY <2>1 DEF CheckPasses
  <2>3. Arriving(Tail(R))'
    BY <1>3, <1>4, <1>5, <1>6, <1>9, <1>10, <1>11, <2>2, FirstLeaves
  <2>4. Lists(P, U, Append(Q, p), Tail(R))'
    BY <1>3, <1>9, <1>10, <2>2, ListsChecked
  <2>5. Checked(Append(Q, p))' /\ \A i \in 1 .. type_remaining : checked'[i] = checked[i]
    BY <1>3, <1>4, <1>5, <1>7, <1>10, <2>2, GoodComes
  <2>6. Collected(U)'
    <3>1. \A i \in 1 .. Passing : checked'[i] = checked[i]
      <4>1. \A i \in 1 .. Passing : i \in 1 .. type_remaining
        BY <1>4, <1>5
      <4> QED BY <2>5, <4>1
    <3> QED BY <1>3, <1>4, <1>6, <1>8, <3>1, CollectedStays
  <2>7. checked' \in Seq(Item) /\ Len(checked') <= CheckedCapacity
    <3>1. more \in Seq(Item) /\ Len(more) = p.len - CrcSize
      BY <2>2 DEF AreItems, Span
    <3>2. checked' \in Seq(Item) /\ Len(checked') = Len(checked) + Len(more)
      BY <1>5, <2>2, <3>1, JoinProperties
    <3>3. n \in Nat
      BY Sizes
    <3>4. PICK a, l, k : a = Len(checked) /\ l = p.len /\ k = Len(more)
      OBVIOUS
    <3>5. /\ a \in Nat /\ l \in Nat /\ l <= n /\ a + n <= CheckedCapacity
          /\ k = l - CrcSize /\ CrcSize \in Nat /\ CheckedCapacity \in Nat
      BY <1>5, <1>10, <1>11, <1>16, <3>1, <3>4, Sizes
    <3>6. a + k <= CheckedCapacity
      BY <3>3, <3>5
    <3> QED BY <3>2, <3>4, <3>6
  <2>8. ~(p.len > Len(bytes))
    BY <1>5, <1>11, <2>2
  <2>9. DifferentIds' /\ Len(pending') <= NumIds
    BY <1>2, <1>5, <2>2 DEF DifferentIds
  <2>10. Inv'
    BY <1>12, <1>13, <2>2, <2>3, <2>4, <2>5, <2>6, <2>7, <2>8, <2>9
  <2>11. UNCHANGED Delivery!vars
    BY <1>6, <2>2 DEF Delivery!vars
  <2> QED BY <2>10, <2>11
<1> QED BY <1>10, <1>14, <1>15, <1>16
-----------------------------------------------------------------------------
(* The step of PacketTypeFilter.                                           *)

(* CrcCheck has let whole packets pass. *)
LEMMA FirstIsWhole ==
  ASSUME checked \in Seq(Item), type_remaining = 0,
         NEW list \in Seq(Packets), Checked(list), Len(list) > 0
  PROVE  Span("payload", list[1]) <= Len(checked)
<1>1. PICK at : CheckedAt(list, at)
  BY DEF Checked
<1>2. PICK n \in Nat : n = Len(list) /\ n > 0
  BY LenProperties
<1>3. 1 \in 1 .. n /\ 1 + 1 \in 1 .. n + 1 /\ n + 1 \in 1 .. n + 1 /\ 1 + 1 <= n + 1
  BY <1>2
<1>4. /\ at[1 + 1] = at[1] + Span("payload", list[1]) /\ at[1] = 0
      /\ at[1 + 1] <= at[n + 1] /\ Len(checked) = at[n + 1]
  BY <1>1, <1>2, <1>3 DEF CheckedAt, Places
<1>5. Span("payload", list[1]) \in Nat
  BY <1>2, <1>3, ElementOfSeq, Spans DEF Forms
<1> QED BY <1>4, <1>5

(* The first c items of a packet pass or are dropped. *)
FilterStarts(p, c) ==
  /\ type_remaining = 0 /\ c <= Span("payload", p)
  /\ type_remaining' = Span("payload", p) - c /\ type_valid' = p.user
  /\ user' = IF p.user THEN user \o SubSeq(checked, 1, c) ELSE user
  /\ pending' = IF p.user THEN pending ELSE Without(p)

(* The next c items of the packet pass or are dropped. *)
FilterContinues(c) ==
  /\ type_remaining > 0 /\ c <= type_remaining
  /\ type_remaining' = type_remaining - c /\ type_valid' = type_valid
  /\ user' = IF type_valid THEN user \o SubSeq(checked, 1, c) ELSE user
  /\ pending' = pending

(* A call of PacketTypeFilter does one of the two. *)
LEMMA FilterCall ==
  ASSUME NoBlockFails, NEW list \in Seq(Packets), Checked(list),
         NEW n \in 1 .. UserCapacity, Filter(n)
  PROVE  /\ type_failed' = type_failed
         /\ n <= Len(checked) /\ Len(user) + n <= UserCapacity
         /\ \E c \in 1 .. n :
              /\ checked' = From(checked, c)
              /\ \/ Len(list) > 0 /\ list[1] \in Packets /\ FilterStarts(list[1], c)
                 \/ FilterContinues(c)
<1>1. /\ checked \in Seq(Item) /\ Len(checked) \in Nat
      /\ type_remaining \in Nat /\ type_valid \in BOOLEAN
  BY LenProperties DEF NoBlockFails, TypeOK
<1>2. /\ n \in Nat /\ n > 0 /\ n <= Len(checked) /\ Len(user) + n <= UserCapacity
  BY Sizes DEF Filter, Chunk
<1>3. PICK c \in 0 .. n :
        /\ TYPE!ProcessBulk(checked[1].bits, n, checked[1].of.user, c)
        /\ user' = IF TYPE!Passes(checked[1].of.user) THEN user \o SubSeq(checked, 1, c)
                                                      ELSE user
        /\ pending' = IF ~TYPE!Passes(checked[1].of.user) /\ TYPE!AtStart
                        THEN Without(checked[1].of) ELSE pending
        /\ checked' = From(checked, c)
  BY DEF Filter
<1>4. CASE type_remaining = 0
  <2>1. PICK p : p = list[1]
    OBVIOUS
  <2>2. /\ Len(list) > 0 /\ p \in Packets
        /\ \A i \in 1 .. Span("payload", p) :
             i <= Len(checked) => checked[i] = Piece("payload", p, i)
    BY <1>1, <1>2, <1>4, <2>1, FirstOfChecked
  <2>3. PICK m \in Nat : m = Span("payload", p) /\ m > 0
    BY <2>2, Spans DEF Forms
  <2>4. checked[1].bits = m /\ checked[1].of = p
    <3>1. 1 \in 1 .. m /\ 1 <= Len(checked)
      BY <1>1, <1>2, <2>3
    <3>2. checked[1] = Piece("payload", p, 1)
      BY <2>2, <2>3, <3>1
    <3> QED BY <2>3, <3>2 DEF Piece
  <2>5. TYPE!AtStart /\ TYPE!Left(m) = m /\ TYPE!Passes(p.user) = p.user
    BY <1>4 DEF TYPE!AtStart, TYPE!Left, TYPE!Passes
  <2>6. TYPE!Take(m, n, p.user, c)
    BY <1>3, <2>3, <2>4, <2>5 DEF TYPE!ProcessBulk, TYPE!Fail
  <2>7. /\ c = TYPE!Lesser(m, n) /\ type_remaining' = m - c
        /\ type_valid' = p.user /\ type_failed' = type_failed
    BY <2>5, <2>6 DEF TYPE!Take
  <2>8. c \in 1 .. n /\ c <= m
    BY <1>2, <2>3, <2>7 DEF TYPE!Lesser
  <2>9. user' = IF p.user THEN user \o SubSeq(checked, 1, c) ELSE user
    BY <1>3, <2>4, <2>5
  <2>10. pending' = IF p.user THEN pending ELSE Without(p)
    BY <1>3, <2>4, <2>5
  <2>11. FilterStarts(p, c)
    BY <1>4, <2>3, <2>7, <2>8, <2>9, <2>10 DEF FilterStarts
  <2> QED BY <1>2, <1>3, <2>1, <2>2, <2>7, <2>8, <2>11
<1>5. CASE type_remaining # 0
  <2>1. PICK b, u : b = checked[1].bits /\ u = checked[1].of.user
    OBVIOUS
  <2>2. ~TYPE!AtStart /\ TYPE!Left(b) = type_remaining /\ TYPE!Passes(u) = type_valid
    BY <1>5 DEF TYPE!AtStart, TYPE!Left, TYPE!Passes
  <2>3. TYPE!Take(b, n, u, c)
    BY <1>3, <2>1, <2>2 DEF TYPE!ProcessBulk, TYPE!Fail
  <2>4. /\ c = TYPE!Lesser(type_remaining, n) /\ type_remaining' = type_remaining - c
        /\ type_valid' = type_valid /\ type_failed' = type_failed
    BY <2>2, <2>3 DEF TYPE!Take
  <2>5. c \in 1 .. n /\ c <= type_remaining /\ type_remaining > 0
    BY <1>1, <1>2, <1>5, <2>4 DEF TYPE!Lesser
  <2>6. user' = IF type_valid THEN user \o SubSeq(checked, 1, c) ELSE user
    BY <1>3, <2>1, <2>2
  <2>7. pending' = pending
    BY <1>3, <2>2
  <2>8. FilterContinues(c)
    BY <2>4, <2>5, <2>6, <2>7 DEF FilterContinues
  <2> QED BY <1>2, <1>3, <2>4, <2>5, <2>8
<1> QED BY <1>4, <1>5
LEMMA FilterKeeps ==
  ASSUME Inv, NEW n \in 1 .. UserCapacity, Filter(n)
  PROVE  Inv' /\ [Delivery!Next]_(Delivery!vars)
<1>1. PICK P, U, Q, R : Cut(P, U, Q, R)
  BY DEF Inv
<1>2. NoBlockFails /\ TypeOK /\ DifferentIds
  BY DEF Inv, NoBlockFails
<1>3. Lists(P, U, Q, R) /\ Ready(P) /\ Collected(U) /\ Checked(Q) /\ Arriving(R)
  BY <1>1 DEF Cut
<1>4. /\ P \in Seq(Packets) /\ U \in Seq(Packets) /\ Q \in Seq(Packets) /\ R \in Seq(Packets)
      /\ Passing \in Nat /\ Passing <= type_remaining /\ type_remaining <= Len(checked)
  BY <1>1, <1>2, CutTypes, SMTT(30)
<1>5. /\ checked \in Seq(Item) /\ user \in Seq(Item)
      /\ Len(checked) \in Nat /\ Len(user) \in Nat
      /\ type_remaining \in Nat /\ type_valid \in BOOLEAN /\ pdu_remaining \in Nat
      /\ Len(checked) <= CheckedCapacity /\ Len(user) <= UserCapacity
      /\ Len(pending) <= NumIds
  BY <1>2, LenProperties DEF TypeOK
<1>6. UNCHANGED <<packet, place, bits, pack_failed, bytes, crc_vars, pdu_vars, pdus, written>>
  BY DEF Filter
<1>7. UNCHANGED <<crc_packet_len, crc_failed, offered,
                  pdu_remaining, pdu_index, pdu_pdu, pdu_merged_tag, pdu_failed>>
  BY <1>6 DEF crc_vars, pdu_vars
<1>8. Ready(P)' /\ Arriving(R)'
  <2>1. Ready(P)'
    BY <1>3, <1>6 DEF Ready
  <2>2. Arriving(R)'
    BY <1>3, <1>6, <1>7
       DEF Arriving, LengthKnown, ComesLast, ArrivingAt, Coming, AllBits
  <2> QED BY <2>1, <2>2
<1>9. PICK p : p = Q[1]
  OBVIOUS
<1>10. /\ type_failed' = type_failed
       /\ n <= Len(checked) /\ Len(user) + n <= UserCapacity
       /\ \E c \in 1 .. n :
            /\ checked' = From(checked, c)
            /\ \/ Len(Q) > 0 /\ p \in Packets /\ FilterStarts(p, c)
               \/ FilterContinues(c)
  BY <1>2, <1>3, <1>4, <1>9, FilterCall
<1>11. PICK c \in 1 .. n :
         /\ checked' = From(checked, c)
         /\ \/ Len(Q) > 0 /\ p \in Packets /\ FilterStarts(p, c)
            \/ FilterContinues(c)
  BY <1>10
<1>12. /\ n \in Nat /\ c \in Nat /\ c > 0 /\ c <= n /\ c <= Len(checked)
  BY <1>5, <1>10, <1>11, Sizes
<1>13. checked' \in Seq(Item) /\ Len(checked') <= CheckedCapacity
  <2>1. c \in 0 .. Len(checked)
    BY <1>5, <1>12
  <2>2. From(checked, c) \in Seq(Item) /\ Len(From(checked, c)) = Len(checked) - c
    BY <1>5, <2>1, FromProperties
  <2> QED BY <1>5, <1>11, <1>12, <2>2, Sizes
<1>14. PICK more : more = SubSeq(checked, 1, c)
  OBVIOUS
<1>15. /\ more \in Seq(Item) /\ Len(more) = c /\ \A i \in 1 .. c : more[i] = checked[i]
       /\ user \o more \in Seq(Item) /\ Len(user \o more) <= UserCapacity
  <2>1. c \in 0 .. Len(checked)
    BY <1>5, <1>12
  <2>2. more \in Seq(Item) /\ Len(more) = c /\ \A i \in 1 .. c : more[i] = checked[i]
    BY <1>5, <1>14, <2>1, FrontProperties
  <2>3. user \o more \in Seq(Item) /\ Len(user \o more) = Len(user) + c
    BY <1>5, <2>2, JoinProperties
  <2>4. Len(user) + c <= UserCapacity
    BY <1>5, <1>10, <1>12, Sizes
  <2> QED BY <2>2, <2>3, <2>4
<1>16. ASSUME \E V, W : Lists(P, V, W, R)' /\ Collected(V)' /\ Checked(W)',
              type_remaining' \in Nat, type_valid' \in BOOLEAN,
              user' = user \/ user' = user \o more,
              DifferentIds', Len(pending') <= NumIds
       PROVE  Inv'
  <2>1. user' \in Seq(Item) /\ Len(user') <= UserCapacity
    BY <1>5, <1>15, <1>16
  <2>2. NoBlockFails'
    BY <1>2, <1>6, <1>7, <1>10, <1>13, <1>16, <2>1 DEF NoBlockFails, TypeOK, AllBits
  <2>3. \E V, W : Cut(P, V, W, R)'
    BY <1>8, <1>16 DEF Cut
  <2> QED BY <1>16, <2>2, <2>3 DEF Inv
<1>17. CASE Len(Q) > 0 /\ p \in Packets /\ FilterStarts(p, c)
  <2>1. PICK m \in Nat : m = Span("payload", p) /\ m > 0
    BY <1>17, Spans DEF Forms
  <2>2. /\ type_remaining = 0 /\ c <= m /\ type_remaining' = m - c /\ type_valid' = p.user
        /\ user' = IF p.user THEN user \o more ELSE user
        /\ pending' = IF p.user THEN pending ELSE Without(p)
    BY <1>14, <1>17, <2>1 DEF FilterStarts
  <2>3. type_remaining' \in Nat /\ type_valid' \in BOOLEAN
    BY <1>12, <1>17, <2>1, <2>2, PacketSizes
  <2>4. Checked(Tail(Q))'
    BY <1>3, <1>4, <1>5, <1>9, <1>11, <1>12, <1>17, <2>1, <2>2, FilterBegins
  <2>5. Passing = 0
    BY <2>2 DEF Passing
  <2>6. m <= Len(checked) /\ p.good /\ \A i \in 1 .. m : checked[i] = Piece("payload", p, i)
    <3>1. m <= Len(checked)
      BY <1>3, <1>4, <1>5, <1>9, <1>17, <2>1, <2>2, FirstIsWhole
    <3>2. Len(checked) > 0
      BY <1>5, <2>1, <3>1
    <3>3. /\ p.good
          /\ \A i \in 1 .. m : i <= Len(checked) => checked[i] = Piece("payload", p, i)
      BY <1>3, <1>4, <1>5, <1>9, <2>1, <2>2, <3>2, FirstOfChecked
    <3>4. \A i \in 1 .. m : i <= Len(checked)
      BY <1>5, <2>1, <3>1
    <3> QED BY <3>1, <3>3, <3>4
  <2>7. CASE p.user
    <3>1. AreItems("payload", p, 0, more)
      <4>1. \A i \in 1 .. c : i \in 1 .. m /\ 0 + i = i
        BY <1>12, <2>1, <2>2
      <4>2. 0 + Len(more) <= m
        BY <1>12, <1>15, <2>2
      <4> QED BY <1>15, <2>1, <2>6, <4>1, <4>2 DEF AreItems
    <3>2. Delivery!Wanted(p)
      BY <2>6, <2>7 DEF Delivery!Wanted
    <3>3. Passing' = m - c
      BY <2>2, <2>7 DEF Passing
    <3>4. \A i \in 1 .. m - c : checked'[i] = Piece("payload", p, c + i)
      <4>1. ASSUME NEW i \in 1 .. m - c PROVE checked'[i] = Piece("payload", p, c + i)
        <5>1. /\ c \in 0 .. Len(checked) /\ i \in 1 .. Len(checked) - c
              /\ i + c \in 1 .. m /\ c + i = i + c
          BY <1>5, <1>12, <2>1, <2>2, <2>6, <4>1
        <5>2. checked'[i] = checked[i + c]
          BY <1>5, <1>11, <5>1, FromProperties
        <5>3. PICK j : j = i + c
          OBVIOUS
        <5>4. checked[j] = Piece("payload", p, j)
          BY <2>6, <5>1, <5>3
        <5> QED BY <5>1, <5>2, <5>3, <5>4
      <4> QED BY <4>1
    <3>5. Collected(Append(U, p))'
      BY <1>3, <1>4, <1>5, <1>6, <1>12, <1>15, <1>17, <2>1, <2>2, <2>5, <2>7,
         <3>1, <3>2, <3>3, <3>4, PassBegins
    <3>6. Lists(P, Append(U, p), Tail(Q), R)'
      BY <1>3, <1>9, <1>17, <2>2, <2>7, ListsPassed
    <3>7. DifferentIds' /\ Len(pending') <= NumIds
      BY <1>2, <1>5, <2>2, <2>7 DEF DifferentIds
    <3>8. Inv'
      BY <1>16, <2>2, <2>3, <2>4, <2>7, <3>5, <3>6, <3>7
    <3>9. UNCHANGED Delivery!vars
      BY <1>6, <2>2, <2>7 DEF Delivery!vars
    <3> QED BY <3>8, <3>9
  <2>8. CASE ~p.user
    <3>1. ~Delivery!Wanted(Q[1])
      BY <1>9, <2>8 DEF Delivery!Wanted
    <3>2. /\ Lists(P, U, Tail(Q), R)'
          /\ DifferentIds' /\ Len(pending') <= NumIds /\ Delivery!Next
      BY <1>2, <1>3, <1>5, <1>6, <1>9, <1>17, <2>2, <2>8, <3>1, ListsDropChecked
    <3>3. Passing' = 0
      BY <2>2, <2>8 DEF Passing
    <3>4. Collected(U)'
      <4>1. \A i \in 1 .. Passing : checked'[i] = checked[i]
        BY <2>5
      <4> QED BY <1>3, <1>4, <1>6, <2>2, <2>5, <2>8, <3>3, <4>1, CollectedStays
    <3>5. Inv'
      BY <1>16, <2>2, <2>3, <2>4, <2>8, <3>2, <3>4
    <3> QED BY <3>2, <3>5
  <2> QED BY <2>7, <2>8
<1>18. CASE FilterContinues(c)
  <2>1. /\ type_remaining > 0 /\ c <= type_remaining
        /\ type_remaining' = type_remaining - c /\ type_valid' = type_valid
        /\ user' = IF type_valid THEN user \o more ELSE user
        /\ pending' = pending
    BY <1>14, <1>18 DEF FilterContinues
  <2>2. type_remaining' \in Nat /\ type_valid' \in BOOLEAN
    BY <1>5, <1>12, <2>1
  <2>3. Checked(Q)'
    BY <1>3, <1>4, <1>5, <1>11, <1>12, <2>1, FilterGoesOn
  <2>4. Lists(P, U, Q, R)'
    BY <1>3, <2>1 DEF Lists
  <2>5. Collected(U)'
    <3>1. CASE type_valid
      <4>1. Passing = type_remaining /\ Passing' = type_remaining - c
        BY <2>1, <3>1 DEF Passing
      <4>2. Passing > 0 /\ Passing <= Len(checked) /\ c <= Passing /\ Passing' = Passing - c
        BY <1>4, <2>1, <4>1
      <4> QED BY <1>3, <1>4, <1>5, <1>6, <1>11, <1>12, <1>14, <2>1, <3>1, <4>2, PassGoesOn
    <3>2. CASE ~type_valid
      <4>1. Passing = 0 /\ Passing' = 0
        BY <2>1, <3>2 DEF Passing
      <4>2. \A i \in 1 .. Passing : checked'[i] = checked[i]
        BY <4>1
      <4> QED BY <1>3, <1>4, <1>6, <2>1, <3>2, <4>1, <4>2, CollectedStays
    <3> QED BY <3>1, <3>2
  <2>6. DifferentIds' /\ Len(pending') <= NumIds
    BY <1>2, <1>5, <2>1 DEF DifferentIds
  <2>7. user' = user \/ user' = user \o more
    BY <2>1
  <2>8. Inv'
    BY <1>16, <2>2, <2>3, <2>4, <2>5, <2>6, <2>7
  <2>9. UNCHANGED Delivery!vars
    BY <1>6, <2>1 DEF Delivery!vars
  <2> QED BY <2>8, <2>9
<1> QED BY <1>11, <1>17, <1>18
-----------------------------------------------------------------------------
(* The step of TaggedStreamToPdu.                                          *)

(* The first items of a packet. *)
LEMMA PartTypes ==
  ASSUME NEW p \in Packets, NEW g \in Nat
  PROVE  PartPdu(p, g).data \in Seq(Item) /\ Len(PartPdu(p, g).data) = g
<1>1. PICK f : f = [j \in 1 .. g |-> Piece("payload", p, j)]
  OBVIOUS
<1>2. \A j \in 1 .. g : Piece("payload", p, j) \in Item
  <2>1. \A j \in 1 .. g : j \in Nat
    OBVIOUS
  <2> QED BY <2>1, Pieces DEF Forms
<1>3. f \in [1 .. g -> Item]
  BY <1>1, <1>2
<1>4. f \in Seq(Item) /\ Len(f) = g
  BY <1>3, FunctionIsSeq
<1> QED BY <1>1, <1>4 DEF PartPdu

(* The items that follow complete them. *)
LEMMA GathersMore ==
  ASSUME NEW p \in Packets, NEW g \in Nat, NEW more, AreItems("payload", p, g, more)
  PROVE  PartPdu(p, g).data \o more = PartPdu(p, g + Len(more)).data
<1> PICK c : c = Len(more)
  OBVIOUS
<1> c \in Nat
  BY LenProperties DEF AreItems
<1>1. PICK old, all : old = PartPdu(p, g).data /\ all = PartPdu(p, g + c).data
  OBVIOUS
<1>2. g + c \in Nat /\ more \in Seq(Item)
  BY DEF AreItems
<1>3. old \in Seq(Item) /\ Len(old) = g /\ all \in Seq(Item) /\ Len(all) = g + c
  BY <1>1, <1>2, PartTypes
<1>4. /\ \A j \in 1 .. g : old[j] = Piece("payload", p, j)
      /\ \A j \in 1 .. g + c : all[j] = Piece("payload", p, j)
      /\ \A i \in 1 .. c : more[i] = Piece("payload", p, g + i)
  BY <1>1 DEF PartPdu, AreItems
<1>5. PICK new : new = old \o more
  OBVIOUS
<1>6. new \in Seq(Item) /\ Len(new) = g + c
  BY <1>2, <1>3, <1>5, JoinProperties
<1>7. \A j \in 1 .. g : new[j] = old[j]
  BY <1>2, <1>3, <1>5, JoinProperties
<1>8. \A i \in 1 .. c : new[g + i] = more[i]
  BY <1>2, <1>3, <1>5, JoinProperties
<1>9. ASSUME NEW j \in 1 .. g + c PROVE new[j] = all[j]
  <2>1. CASE j <= g
    <3>1. j \in 1 .. g
      BY <1>9, <2>1
    <3> QED BY <1>4, <1>7, <1>9, <3>1
  <2>2. CASE j > g
    <3>1. PICK i : i = j - g
      OBVIOUS
    <3>2. i \in 1 .. c /\ g + i = j
      BY <1>9, <2>2, <3>1
    <3>3. new[g + i] = Piece("payload", p, g + i)
      BY <1>4, <1>8, <3>2
    <3> QED BY <1>4, <1>9, <3>2, <3>3
  <2> QED BY <1>9, <2>1, <2>2
<1>10. new = all
  BY <1>3, <1>6, <1>9, SeqEqual
<1> QED BY <1>1, <1>5, <1>10

(* The PDUs that are ready. *)
PdusOf == {WholePdu(q) : q \in Packets}

LEMMA ReadyTypes ==
  ASSUME NEW list \in Seq(Packets), Ready(list)
  PROVE  pdus \in Seq(PdusOf) /\ Len(pdus) = Len(list)
<1>1. PICK n \in Nat : n = Len(list)
  BY LenProperties
<1>2. pdus = [k \in 1 .. n |-> WholePdu(list[k])] /\ \A k \in 1 .. n : list[k] \in Packets
  BY <1>1, ElementOfSeq DEF Ready
<1>3. pdus \in [1 .. n -> PdusOf]
  BY <1>2 DEF PdusOf
<1> QED BY <1>1, <1>3, FunctionIsSeq

(* One more PDU is ready. *)
LEMMA ReadyMore ==
  ASSUME NEW list \in Seq(Packets), Ready(list), NEW p \in Packets, Delivery!Wanted(p),
         pdus' = pdus \o <<WholePdu(p)>>
  PROVE  Ready(Append(list, p))' /\ Len(pdus) \in Nat /\ Len(pdus') = Len(pdus) + 1
<1>1. PICK n \in Nat : n = Len(list)
  BY LenProperties
<1>2. pdus \in Seq(PdusOf) /\ Len(pdus) = n
  BY <1>1, ReadyTypes
<1>3. pdus = [k \in 1 .. n |-> WholePdu(list[k])] /\ \A k \in 1 .. n : list[k] \in Packets
  BY <1>1, ElementOfSeq DEF Ready
<1>6. PICK one : one = WholePdu(p) /\ one \in PdusOf
  BY DEF PdusOf
<1>7. pdus' = Append(pdus, one)
  BY <1>2, <1>6, AppendIsConcat
<1>8. pdus' \in Seq(PdusOf) /\ Len(pdus') = n + 1
  BY <1>2, <1>6, <1>7, AppendOne
<1>9. \A k \in 1 .. n : pdus'[k] = pdus[k]
  BY <1>2, <1>6, <1>7, AppendOne
<1>10. pdus'[n + 1] = WholePdu(p)
  BY <1>2, <1>6, <1>7, AppendOne
<1>11. PICK all : all = Append(list, p)
  OBVIOUS
<1>12. /\ Len(all) = n + 1 /\ \A k \in 1 .. n : all[k] = list[k]
       /\ all[n + 1] = p
  BY <1>1, <1>11, AppendOne
<1>13. \A k \in 1 .. n + 1 : k \in 1 .. n \/ k = n + 1
  OBVIOUS
<1>14. \A k \in 1 .. n + 1 : pdus'[k] = WholePdu(all[k]) /\ Delivery!Wanted(all[k])
  <2>1. ASSUME NEW k \in 1 .. n PROVE pdus'[k] = WholePdu(all[k]) /\ Delivery!Wanted(all[k])
    BY <1>1, <1>3, <1>9, <1>12, <2>1 DEF Ready
  <2> QED BY <1>10, <1>12, <1>13, <2>1
<1>15. PICK f : f = [k \in 1 .. n + 1 |-> WholePdu(all[k])]
  OBVIOUS
<1>16. pdus' = f
  <2>1. f \in [1 .. n + 1 -> PdusOf]
    <3>1. \A k \in 1 .. n + 1 : all[k] \in Packets
      BY <1>3, <1>12, <1>13
    <3> QED BY <1>15, <3>1 DEF PdusOf
  <2>2. f \in Seq(PdusOf) /\ Len(f) = n + 1
    <3>1. n + 1 \in Nat
      OBVIOUS
    <3> QED BY <2>1, <3>1, FunctionIsSeq
  <2>3. \A k \in 1 .. n + 1 : pdus'[k] = f[k]
    BY <1>14, <1>15
  <2> QED BY <1>8, <2>2, <2>3, SeqEqual
<1>17. Ready(all)'
  BY <1>12, <1>14, <1>15, <1>16 DEF Ready
<1> QED BY <1>1, <1>2, <1>8, <1>11, <1>17
(* The PDU of the first packet is not whole yet. *)
PduCollects(p, g, c) ==
  /\ c < Span("payload", p) - g
  /\ pdus' = pdus /\ user' = From(user, c)
  /\ pdu_remaining' = (Span("payload", p) - g) - c /\ pdu_index' = g + c
  /\ pdu_pdu' = PartPdu(p, g + c) /\ pdu_merged_tag' = <<>> /\ pdu_failed' = pdu_failed

(* The PDU of the first packet is whole, and sent. *)
PduPublishes(p, g, c) ==
  /\ c = Span("payload", p) - g
  /\ pdus' = pdus \o <<WholePdu(p)>> /\ user' = From(user, c)
  /\ pdu_remaining' = 0 /\ pdu_index' = g + c
  /\ pdu_pdu' = PDU!EmptyPdu /\ pdu_merged_tag' = <<>> /\ pdu_failed' = pdu_failed

(* What TaggedStreamToPdu finds in the first items of a chunk. *)
LEMMA PduFinds ==
  ASSUME NEW p \in Packets, NEW m \in Nat, m = Span("payload", p),
         NEW g \in Nat, g < m, pdu_merged_tag = <<>>, pdu_remaining \in Nat,
         pdu_remaining = 0 => g = 0 /\ pdu_pdu = PDU!EmptyPdu,
         pdu_remaining # 0 => /\ g > 0 /\ pdu_remaining = m - g
                              /\ pdu_index = g /\ pdu_pdu = PartPdu(p, g),
         NEW chunk \in Seq(Item), chunk[1] = Piece("payload", p, g + 1),
         NEW c \in Nat, c = PDU!Lesser(m - g, Len(chunk)),
         AreItems("payload", p, g, SubSeq(chunk, 1, c)), Len(SubSeq(chunk, 1, c)) = c
  PROVE  /\ PDU!Left(chunk) = m - g /\ PDU!Place = g
         /\ PDU!Collected(chunk) = PartPdu(p, g + c)
<1>1. PICK more : more = SubSeq(chunk, 1, c)
  OBVIOUS
<1>2. PartPdu(p, g).data \o more = PartPdu(p, g + c).data
  <2>1. AreItems("payload", p, g, more) /\ Len(more) = c
    BY <1>1
  <2>2. PartPdu(p, g).data \o more = PartPdu(p, g + Len(more)).data
    BY <2>1, GathersMore
  <2> QED BY <2>1, <2>2
<1>3. \A k \in Nat : PartPdu(p, k).tags = <<[index |-> 0, of |-> p]>>
  BY DEF PartPdu
<1>4. CASE pdu_remaining = 0
  <2>1. g = 0 /\ PDU!AtStart
    BY <1>4 DEF PDU!AtStart
  <2>2. PICK first : first = chunk[1]
    OBVIOUS
  <2>3. first.bits = m /\ first.of = p
    <3>1. first = Piece("payload", p, 1)
      BY <2>1, <2>2
    <3> QED BY <3>1 DEF Piece
  <2>4. PDU!Merged(chunk) = <<first>>
    <3>1. chunk[1].bits > 0
      BY <2>1, <2>2, <2>3
    <3> QED BY <2>2, <3>1 DEF PDU!Merged
  <2>5. PDU!Left(chunk) = m
    <3>1. <<first>> # <<>> /\ <<first>>[1] = first
      OBVIOUS
    <3> QED BY <2>1, <2>3, <2>4, <3>1 DEF PDU!Left
  <2>6. PDU!Place = 0
    BY <2>1 DEF PDU!Place
  <2>7. PDU!Noted(chunk) = <<[index |-> 0, of |-> p]>>
    <3>1. PICK tags : tags = <<first>>
      OBVIOUS
    <3>2. DOMAIN tags = {1} /\ tags[1] = first
      BY <3>1
    <3>3. PDU!Noted(chunk) = [i \in DOMAIN tags |-> [index |-> 0, of |-> tags[i].of]]
      BY <2>4, <2>6, <3>1 DEF PDU!Noted
    <3>4. PDU!Noted(chunk) = [i \in {1} |-> [index |-> 0, of |-> p]]
      BY <2>3, <3>2, <3>3
    <3>5. PICK r : r = [index |-> 0, of |-> p]
      OBVIOUS
    <3>6. [i \in {1} |-> r] = <<r>>
      OBVIOUS
    <3> QED BY <3>4, <3>5, <3>6
  <2>8. PDU!Collected(chunk) = [data |-> <<>> \o more, tags |-> <<>> \o <<[index |-> 0, of |-> p]>>]
    <3>1. PDU!Lesser(PDU!Left(chunk), Len(chunk)) = c
      BY <2>1, <2>5
    <3> QED BY <1>1, <2>1, <2>7, <3>1 DEF PDU!Collected, PDU!EmptyPdu
  <2>9. PartPdu(p, g).data = <<>>
    BY <2>1 DEF PartPdu
  <2>10. PICK r : r = <<[index |-> 0, of |-> p]>>
    OBVIOUS
  <2>11. <<>> \o r = r
    BY <2>10
  <2>12. PDU!Collected(chunk) = [data |-> PartPdu(p, g + c).data, tags |-> PartPdu(p, g + c).tags]
    <3>1. g + c \in Nat
      OBVIOUS
    <3> QED BY <1>2, <1>3, <2>8, <2>9, <2>10, <2>11, <3>1
  <2>13. PDU!Left(chunk) = m - g
    BY <2>1, <2>5
  <2> QED BY <2>1, <2>6, <2>12, <2>13 DEF PartPdu
<1>5. CASE pdu_remaining # 0
  <2>1. g > 0 /\ ~PDU!AtStart /\ pdu_pdu = PartPdu(p, g)
    BY <1>5 DEF PDU!AtStart
  <2>2. chunk[1].bits = 0
    <3>1. g + 1 # 1
      BY <2>1
    <3> QED BY <3>1 DEF Piece
  <2>3. PDU!Merged(chunk) = <<>>
    BY <2>2 DEF PDU!Merged
  <2>4. PDU!Left(chunk) = m - g /\ PDU!Place = g
    BY <1>5, <2>1 DEF PDU!Left, PDU!Place
  <2>5. PDU!Noted(chunk) = <<>>
    BY <2>3 DEF PDU!Noted
  <2>6. PDU!Collected(chunk) = [data |-> PartPdu(p, g).data \o more,
                                tags |-> PartPdu(p, g).tags \o <<>>]
    BY <1>1, <2>1, <2>4, <2>5 DEF PDU!Collected
  <2>7. PICK r : r = <<[index |-> 0, of |-> p]>>
    OBVIOUS
  <2>8. r \o <<>> = r
    BY <2>7
  <2>9. PDU!Collected(chunk) = [data |-> PartPdu(p, g + c).data, tags |-> PartPdu(p, g + c).tags]
    <3>1. g + c \in Nat
      OBVIOUS
    <3> QED BY <1>2, <1>3, <2>6, <2>7, <2>8, <3>1
  <2> QED BY <2>4, <2>9 DEF PartPdu
<1> QED BY <1>4, <1>5
(* A call of TaggedStreamToPdu does one of the two. *)
LEMMA PduCall ==
  ASSUME NoBlockFails, Passing \in Nat, pdus \in Seq(PdusOf), NEW list \in Seq(Packets), Collected(list),
         NEW n \in 1 .. PdusCapacity, ToPdu(n)
  PROVE  /\ Len(list) > 0 /\ list[1] \in Packets /\ Gathered(list) \in Nat
         /\ n <= Len(user) /\ Len(pdus) + n <= PdusCapacity
         /\ \E c \in 1 .. n :
              \/ PduCollects(list[1], Gathered(list), c)
              \/ PduPublishes(list[1], Gathered(list), c)
<1>1. user \in Seq(Item) /\ Len(user) \in Nat /\ pdu_remaining \in Nat /\ ~pdu_failed
  BY LenProperties DEF NoBlockFails, TypeOK
<1>2. n \in Nat /\ n > 0 /\ n <= Len(user) /\ Len(pdus) + n <= PdusCapacity
  BY Sizes DEF ToPdu, Chunk
<1>3. PICK p, g : p = list[1] /\ g = Gathered(list)
  OBVIOUS
<1>4. /\ Len(list) > 0 /\ p \in Packets /\ g \in Nat /\ g < Span("payload", p)
      /\ \A i \in 1 .. Span("payload", p) - g :
           i <= Len(user) => user[i] = Piece("payload", p, g + i)
  BY <1>1, <1>2, <1>3, FirstOfUser
<1>5. PICK m \in Nat : m = Span("payload", p) /\ g < m
  BY <1>4, Spans DEF Forms
<1>6. /\ pdu_merged_tag = <<>>
      /\ pdu_remaining = 0 => pdu_pdu = PDU!EmptyPdu
      /\ pdu_remaining # 0 =>
           pdu_remaining < m /\ pdu_index = g /\ pdu_pdu = PartPdu(p, g)
  BY <1>3, <1>5 DEF Collected, InPdu
<1>7. pdu_remaining = 0 => g = 0
  BY <1>3 DEF Gathered
<1>8. pdu_remaining # 0 => g > 0 /\ pdu_remaining = m - g
  <2>1. pdu_remaining # 0 => g = m - pdu_remaining
    BY <1>3, <1>5 DEF Gathered
  <2> QED BY <1>1, <1>4, <1>5, <1>6, <2>1
<1>9. PICK chunk : chunk = SubSeq(user, 1, n)
  OBVIOUS
<1>10. chunk \in Seq(Item) /\ Len(chunk) = n /\ \A i \in 1 .. n : chunk[i] = user[i]
  <2>1. n \in 0 .. Len(user)
    BY <1>1, <1>2
  <2> QED BY <1>1, <1>9, <2>1, FrontProperties
<1>11. PICK c : c = PDU!Lesser(m - g, n)
  OBVIOUS
<1>12. c \in 1 .. n /\ c <= m - g /\ c \in Nat /\ c = (IF m - g <= n THEN m - g ELSE n)
  BY <1>2, <1>4, <1>5, <1>11 DEF PDU!Lesser
<1>13. \A i \in 1 .. c : chunk[i] = Piece("payload", p, g + i)
  <2>1. ASSUME NEW i \in 1 .. c PROVE chunk[i] = Piece("payload", p, g + i)
    <3>1. i \in 1 .. n /\ i \in 1 .. m - g /\ i <= Len(user)
      BY <1>1, <1>2, <1>4, <1>5, <1>12, <2>1
    <3> QED BY <1>4, <1>5, <1>10, <3>1
  <2> QED BY <2>1
<1>14. PICK more : more = SubSeq(chunk, 1, c)
  OBVIOUS
<1>15. more \in Seq(Item) /\ Len(more) = c /\ \A i \in 1 .. c : more[i] = chunk[i]
  <2>1. c \in 0 .. Len(chunk)
    BY <1>2, <1>10, <1>12
  <2> QED BY <1>10, <1>14, <2>1, FrontProperties
<1>16. AreItems("payload", p, g, more)
  <2>1. g + c <= m
    BY <1>4, <1>5, <1>12
  <2> QED BY <1>5, <1>13, <1>15, <2>1 DEF AreItems
<1>17. /\ PDU!Left(chunk) = m - g /\ PDU!Place = g
       /\ PDU!Collected(chunk) = PartPdu(p, g + c)
  <2>1. chunk[1] = Piece("payload", p, g + 1)
    <3>1. 1 \in 1 .. c
      BY <1>12
    <3> QED BY <1>13, <3>1
  <2>2. pdu_remaining = 0 => g = 0 /\ pdu_pdu = PDU!EmptyPdu
    BY <1>6, <1>7
  <2>3. pdu_remaining # 0 => /\ g > 0 /\ pdu_remaining = m - g
                             /\ pdu_index = g /\ pdu_pdu = PartPdu(p, g)
    BY <1>6, <1>8
  <2>4. /\ c = PDU!Lesser(m - g, Len(chunk)) /\ c \in Nat
        /\ AreItems("payload", p, g, SubSeq(chunk, 1, c)) /\ Len(SubSeq(chunk, 1, c)) = c
    BY <1>10, <1>11, <1>12, <1>14, <1>15, <1>16
  <2>5. pdu_merged_tag = <<>> /\ chunk \in Seq(Item)
    BY <1>6, <1>10
  <2> QED BY <1>1, <1>4, <1>5, <2>1, <2>2, <2>3, <2>4, <2>5, PduFinds
<1>18. PICK consumed \in 0 .. n, published \in {<<>>, <<PDU!Collected(chunk)>>} :
         /\ PDU!ProcessBulk(chunk, consumed, published)
         /\ pdus' = pdus \o published
         /\ user' = From(user, consumed)
  BY <1>9 DEF ToPdu
<1>19. ~PDU!Fail(chunk, consumed, published)
  <2>1. m - g # 0
    BY <1>4, <1>5
  <2> QED BY <1>17, <2>1 DEF PDU!Fail
<1>20. CASE PDU!Collect(chunk, consumed, published)
  <2>1. /\ m - g > n /\ consumed = n /\ published = <<>>
        /\ pdu_remaining' = (m - g) - n /\ pdu_index' = g + n
        /\ pdu_pdu' = PartPdu(p, g + c) /\ pdu_merged_tag' = <<>> /\ pdu_failed' = pdu_failed
    BY <1>10, <1>17, <1>20 DEF PDU!Collect
  <2>2. c = n /\ n < m - g
    BY <1>2, <1>4, <1>5, <1>12, <2>1
  <2>3. pdus' = pdus
    <3>1. pdus \o <<>> = pdus
      BY ConcatEmptySeq
    <3> QED BY <1>18, <2>1, <3>1
  <2>4. PduCollects(p, g, c)
    BY <1>5, <1>18, <2>1, <2>2, <2>3 DEF PduCollects
  <2> QED BY <1>2, <1>3, <1>4, <1>12, <2>4
<1>21. CASE PDU!Publish(chunk, consumed, published)
  <2>1. /\ m - g \in 1 .. n /\ consumed = m - g /\ published = <<PartPdu(p, g + c)>>
        /\ pdu_remaining' = 0 /\ pdu_index' = g + consumed
        /\ pdu_pdu' = PDU!EmptyPdu /\ pdu_merged_tag' = <<>> /\ pdu_failed' = pdu_failed
    BY <1>10, <1>17, <1>21 DEF PDU!Publish
  <2>2. c = m - g /\ consumed = c /\ g + c = m
    BY <1>2, <1>4, <1>5, <1>12, <2>1
  <2>3. PartPdu(p, g + c) = WholePdu(p)
    BY <1>5, <2>2 DEF WholePdu
  <2>4. PduPublishes(p, g, c)
    BY <1>5, <1>18, <2>1, <2>2, <2>3 DEF PduPublishes
  <2> QED BY <1>2, <1>3, <1>4, <1>12, <2>4
<1> QED BY <1>18, <1>19, <1>20, <1>21 DEF PDU!ProcessBulk
LEMMA PduKeeps ==
  ASSUME Inv, NEW n \in 1 .. PdusCapacity, ToPdu(n)
  PROVE  Inv' /\ [Delivery!Next]_(Delivery!vars)
<1>1. PICK P, U, Q, R : Cut(P, U, Q, R)
  BY DEF Inv
<1>2. NoBlockFails /\ TypeOK /\ DifferentIds
  BY DEF Inv, NoBlockFails
<1>3. Lists(P, U, Q, R) /\ Ready(P) /\ Collected(U) /\ Checked(Q) /\ Arriving(R)
  BY <1>1 DEF Cut
<1>4. /\ P \in Seq(Packets) /\ U \in Seq(Packets) /\ Passing \in Nat
  BY <1>1, <1>2, CutTypes, SMTT(30)
<1>5. /\ user \in Seq(Item) /\ Len(user) \in Nat /\ Len(user) <= UserCapacity
      /\ pdu_remaining \in Nat /\ Len(pending) <= NumIds /\ Len(pdus) <= PdusCapacity
  BY <1>2, LenProperties DEF TypeOK
<1>6. UNCHANGED <<packet, place, bits, pack_failed, bytes, crc_vars, checked,
                  type_vars, pending, written>>
  BY DEF ToPdu
<1>7. UNCHANGED <<crc_packet_len, crc_failed, offered, type_remaining, type_valid, type_failed>>
  BY <1>6 DEF crc_vars, type_vars
<1>8. Checked(Q)' /\ Arriving(R)'
  <2>1. Checked(Q)'
    BY <1>3, <1>6, <1>7 DEF Checked, CheckedAt
  <2>2. Arriving(R)'
    BY <1>3, <1>6, <1>7
       DEF Arriving, LengthKnown, ComesLast, ArrivingAt, Coming, AllBits
  <2> QED BY <2>1, <2>2
<1>9. PICK p, g : p = U[1] /\ g = Gathered(U)
  OBVIOUS
<1>10. /\ Len(U) > 0 /\ p \in Packets /\ g \in Nat
       /\ n <= Len(user) /\ Len(pdus) + n <= PdusCapacity
       /\ \E c \in 1 .. n : PduCollects(p, g, c) \/ PduPublishes(p, g, c)
  <2>1. pdus \in Seq(PdusOf)
    BY <1>3, <1>4, ReadyTypes
  <2> QED BY <1>2, <1>3, <1>4, <1>9, <2>1, PduCall
<1>11. PICK c \in 1 .. n : PduCollects(p, g, c) \/ PduPublishes(p, g, c)
  BY <1>10
<1>12. n \in Nat /\ n > 0 /\ c \in Nat /\ c > 0 /\ c <= Len(user) /\ Len(user) > 0
  BY <1>5, <1>10, <1>11, Sizes
<1>13. From(user, c) \in Seq(Item) /\ Len(From(user, c)) <= UserCapacity
  <2>1. c \in 0 .. Len(user)
    BY <1>5, <1>12
  <2>2. From(user, c) \in Seq(Item) /\ Len(From(user, c)) = Len(user) - c
    BY <1>5, <2>1, FromProperties
  <2> QED BY <1>5, <1>12, <2>2, Sizes
<1>14. PICK m \in Nat : m = Span("payload", p) /\ g < m
  <2>1. g < Span("payload", p)
    BY <1>3, <1>4, <1>5, <1>9, <1>12, FirstOfUser
  <2> QED BY <1>10, <2>1, Spans DEF Forms
<1>15. DifferentIds' /\ Len(pending') <= NumIds
  BY <1>2, <1>5, <1>6 DEF DifferentIds
<1>16. ASSUME \E V, W : Lists(V, W, Q, R)' /\ Ready(V)' /\ Collected(W)',
              user' = From(user, c), Len(pdus') <= PdusCapacity,
              pdu_remaining' \in Nat, pdu_index' \in Nat, pdu_pdu'.data \in Seq(Item),
              pdu_merged_tag' = <<>>, pdu_failed' = pdu_failed
       PROVE  Inv'
  <2>1. pdu_merged_tag' \in Seq(Item)
    BY <1>16
  <2>2. NoBlockFails'
    BY <1>2, <1>6, <1>7, <1>13, <1>15, <1>16, <2>1 DEF NoBlockFails, TypeOK, AllBits
  <2>3. \E V, W : Cut(V, W, Q, R)'
    BY <1>8, <1>16 DEF Cut
  <2> QED BY <1>15, <2>2, <2>3 DEF Inv
<1>17. UNCHANGED Delivery!vars
  BY <1>6 DEF Delivery!vars
<1>18. CASE PduCollects(p, g, c)
  <2>1. /\ c < m - g /\ pdus' = pdus /\ user' = From(user, c)
        /\ pdu_remaining' = (m - g) - c /\ pdu_index' = g + c
        /\ pdu_pdu' = PartPdu(p, g + c) /\ pdu_merged_tag' = <<>> /\ pdu_failed' = pdu_failed
    BY <1>14, <1>18 DEF PduCollects
  <2>2. Collected(U)'
    BY <1>3, <1>4, <1>5, <1>6, <1>9, <1>12, <1>14, <2>1, PduGoesOn
  <2>3. Lists(P, U, Q, R)' /\ Ready(P)'
    BY <1>3, <1>6, <2>1 DEF Lists, Ready
  <2>4. pdu_remaining' \in Nat /\ pdu_index' \in Nat /\ g + c \in Nat
    BY <1>10, <1>12, <1>14, <2>1
  <2>5. pdu_pdu'.data \in Seq(Item)
    BY <1>10, <2>1, <2>4, PartTypes
  <2> QED BY <1>5, <1>16, <1>17, <2>1, <2>2, <2>3, <2>4, <2>5
<1>19. CASE PduPublishes(p, g, c)
  <2>1. /\ c = m - g /\ pdus' = pdus \o <<WholePdu(p)>> /\ user' = From(user, c)
        /\ pdu_remaining' = 0 /\ pdu_index' = g + c
        /\ pdu_pdu' = PDU!EmptyPdu /\ pdu_merged_tag' = <<>> /\ pdu_failed' = pdu_failed
    BY <1>14, <1>19 DEF PduPublishes
  <2>2. Collected(Tail(U))' /\ Delivery!Wanted(p)
    BY <1>3, <1>4, <1>5, <1>6, <1>9, <1>12, <1>14, <2>1, PduEnds
  <2>3. Ready(Append(P, p))' /\ Len(pdus) \in Nat /\ Len(pdus') = Len(pdus) + 1
    BY <1>3, <1>4, <1>10, <2>1, <2>2, ReadyMore
  <2>4. Lists(Append(P, p), Tail(U), Q, R)'
    BY <1>3, <1>6, <1>9, <1>10, ListsReady
  <2>5. Len(pdus') <= PdusCapacity
    BY <1>10, <1>12, <2>3, Sizes
  <2>6. pdu_remaining' \in Nat /\ pdu_index' \in Nat
    BY <1>10, <1>12, <2>1
  <2>7. pdu_pdu'.data \in Seq(Item)
    BY <2>1 DEF PDU!EmptyPdu
  <2> QED BY <1>16, <1>17, <2>1, <2>2, <2>3, <2>4, <2>5, <2>6, <2>7
<1> QED BY <1>11, <1>18, <1>19

-----------------------------------------------------------------------------
(* The step of TunSink.                                                    *)

(* The first PDU is that of the first packet that is ready. *)
LEMMA FirstIsReady ==
  ASSUME NEW list \in Seq(Packets), Ready(list), pdus # <<>>, pdus' = Tail(pdus)
  PROVE  /\ Len(list) > 0 /\ Delivery!Wanted(list[1])
         /\ Head(pdus) = WholePdu(list[1])
         /\ Ready(Tail(list))' /\ Len(pdus') <= Len(pdus) /\ Len(pdus) \in Nat
<1>1. PICK n \in Nat : n = Len(list)
  BY LenProperties
<1>2. pdus \in Seq(PdusOf) /\ Len(pdus) = n
  BY <1>1, ReadyTypes
<1>3. n > 0
  BY <1>2, EmptyLength
<1>4. pdus = [k \in 1 .. n |-> WholePdu(list[k])] /\ \A k \in 1 .. n : Delivery!Wanted(list[k])
  BY <1>1 DEF Ready
<1>5. 1 \in 1 .. n /\ n - 1 \in Nat
  BY <1>3
<1>6. Head(pdus) = pdus[1]
  BY <1>2, <1>3, HeadAndTail
<1>7. Head(pdus) = WholePdu(list[1]) /\ Delivery!Wanted(list[1])
  BY <1>4, <1>5, <1>6
<1>8. PICK rest : rest = Tail(list)
  OBVIOUS
<1>9. /\ rest \in Seq(Packets) /\ Len(rest) = n - 1
      /\ \A i \in 1 .. n - 1 : rest[i] = list[i + 1]
  BY <1>1, <1>3, <1>8, HeadAndTail
<1>10. /\ pdus' \in Seq(PdusOf) /\ Len(pdus') = n - 1
       /\ \A i \in 1 .. n - 1 : pdus'[i] = pdus[i + 1]
  BY <1>2, <1>3, HeadAndTail
<1>11. \A i \in 1 .. n - 1 : i + 1 \in 1 .. n
  BY <1>1
<1>12. \A i \in 1 .. n - 1 : pdus'[i] = WholePdu(rest[i]) /\ Delivery!Wanted(rest[i])
  BY <1>4, <1>9, <1>10, <1>11
<1>13. PICK f : f = [i \in 1 .. n - 1 |-> WholePdu(rest[i])]
  OBVIOUS
<1>14. pdus' = f
  <2>1. \A i \in 1 .. n - 1 : rest[i] \in Packets
    BY <1>9, ElementOfSeq
  <2>2. f \in [1 .. n - 1 -> PdusOf]
    BY <1>13, <2>1 DEF PdusOf
  <2>3. f \in Seq(PdusOf) /\ Len(f) = n - 1
    BY <1>5, <2>2, FunctionIsSeq
  <2>4. \A i \in 1 .. n - 1 : pdus'[i] = f[i]
    BY <1>12, <1>13
  <2> QED BY <1>10, <2>3, <2>4, SeqEqual
<1>15. Ready(rest)'
  BY <1>9, <1>12, <1>13, <1>14 DEF Ready
<1> QED BY <1>1, <1>2, <1>3, <1>7, <1>8, <1>10, <1>15

(* What is written of a whole packet is its PDU. *)
Plain(pdu) ==
  [pdu EXCEPT !.data = [i \in DOMAIN pdu.data |->
                         [of |-> pdu.data[i].of, place |-> pdu.data[i].place]]]

LEMMA WritesPdu ==
  ASSUME NEW p \in Packets
  PROVE  Plain(WholePdu(p)) = Delivery!PduOf(p)
<1> PICK pdu : pdu = WholePdu(p)
  OBVIOUS
<1>1. PICK m \in Nat : m = p.len - CrcSize /\ m = Span("payload", p)
  BY PacketSizes DEF Span
<1>2. PICK f : f = [j \in 1 .. m |-> Piece("payload", p, j)]
  OBVIOUS
<1>3. PICK tags : tags = <<[index |-> 0, of |-> p]>>
  OBVIOUS
<1>4. pdu = [data |-> f, tags |-> tags]
  BY <1>1, <1>2, <1>3 DEF WholePdu, PartPdu
<1>5. DOMAIN f = 1 .. m /\ \A j \in 1 .. m : f[j].of = p /\ f[j].place = j
  BY <1>2 DEF Piece
<1>6. PICK plain : plain = [i \in DOMAIN f |-> [of |-> f[i].of, place |-> f[i].place]]
  OBVIOUS
<1>7. plain = [k \in 1 .. m |-> [of |-> p, place |-> k]]
  BY <1>5, <1>6
<1>8. [pdu EXCEPT !.data = plain] = [data |-> plain, tags |-> tags]
  BY <1>4
<1>9. Delivery!PduOf(p) = [data |-> plain, tags |-> tags]
  BY <1>1, <1>3, <1>7 DEF Delivery!PduOf
<1>10. pdu.data = f
  BY <1>4
<1> QED BY <1>6, <1>8, <1>9, <1>10 DEF Plain

LEMMA WriteKeeps ==
  ASSUME Inv, Write
  PROVE  Inv' /\ [Delivery!Next]_(Delivery!vars)
<1>1. PICK P, U, Q, R : Cut(P, U, Q, R)
  BY DEF Inv
<1>2. NoBlockFails /\ TypeOK /\ DifferentIds
  BY DEF Inv, NoBlockFails
<1>3. Lists(P, U, Q, R) /\ Ready(P) /\ Collected(U) /\ Checked(Q) /\ Arriving(R)
  BY <1>1 DEF Cut
<1>4. P \in Seq(Packets) /\ U \in Seq(Packets)
  BY <1>3 DEF Lists
<1>5. Len(pending) <= NumIds /\ Len(pdus) <= PdusCapacity
  BY <1>2 DEF TypeOK
<1>6. PICK pdu : pdu = Head(pdus)
  OBVIOUS
<1>7. /\ pdus # <<>> /\ pdus' = Tail(pdus) /\ pending' = Tail(pending)
      /\ written' \in {written, Plain(pdu)}
  BY <1>6 DEF Write, Plain
<1>8. UNCHANGED <<packet, place, bits, pack_failed, bytes, crc_vars, checked,
                  type_vars, user, pdu_vars>>
  BY DEF Write
<1>9. UNCHANGED <<crc_packet_len, crc_failed, offered, type_remaining, type_valid, type_failed,
                  pdu_remaining, pdu_index, pdu_pdu, pdu_merged_tag, pdu_failed>>
  BY <1>8 DEF crc_vars, type_vars, pdu_vars
<1>10. PICK p : p = P[1]
  OBVIOUS
<1>11. /\ Len(P) > 0 /\ Delivery!Wanted(p) /\ pdu = WholePdu(p)
       /\ Ready(Tail(P))' /\ Len(pdus') <= Len(pdus) /\ Len(pdus) \in Nat
  BY <1>3, <1>4, <1>6, <1>7, <1>10, FirstIsReady
<1>12. p \in Packets
  BY <1>4, <1>10, <1>11, HeadAndTail
<1>13. /\ Lists(Tail(P), U, Q, R)'
       /\ pending # <<>> /\ Head(pending) = p
       /\ DifferentIds' /\ Len(pending') <= NumIds
  BY <1>2, <1>3, <1>5, <1>7, <1>10, <1>11, ListsWritten
<1>14. Checked(Q)' /\ Arriving(R)'
  <2>1. Checked(Q)'
    BY <1>3, <1>8, <1>9 DEF Checked, CheckedAt
  <2>2. Arriving(R)'
    BY <1>3, <1>8, <1>9
       DEF Arriving, LengthKnown, ComesLast, ArrivingAt, Coming, AllBits
  <2> QED BY <2>1, <2>2
<1>15. Collected(U)'
  <2>1. Passing' = Passing
    BY <1>9 DEF Passing
  <2> QED BY <1>3, <1>4, <1>8, <2>1, CollectedStays
<1>16. Len(pdus') <= PdusCapacity
  <2>1. Len(pdus') \in Nat
    <3>1. pdus \in Seq(PdusOf)
      BY <1>3, <1>4, ReadyTypes
    <3>2. pdus' \in Seq(PdusOf)
      BY <1>7, <3>1, HeadTailProperties
    <3> QED BY <3>2, LenProperties
  <2> QED BY <1>5, <1>11, <2>1, Sizes
<1>17. NoBlockFails'
  BY <1>2, <1>8, <1>9, <1>13, <1>16 DEF NoBlockFails, TypeOK, AllBits
<1>18. Inv'
  BY <1>11, <1>13, <1>14, <1>15, <1>17 DEF Inv, Cut
<1>19. written' = written \/ written' = Delivery!PduOf(p)
  BY <1>7, <1>11, <1>12, WritesPdu
<1>20. Delivery!Refuse \/ Delivery!Write
  BY <1>7, <1>11, <1>13, <1>19 DEF Delivery!Refuse, Delivery!Write
<1> QED BY <1>18, <1>20 DEF Delivery!Next
-----------------------------------------------------------------------------
(* The results.                                                            *)

(* There is a packet with every id. *)
LEMMA SomePacket ==
  \E p \in Packets : p.id = NumIds
<1>1. PICK len \in Lengths, kind \in Kinds : TRUE
  BY BranchAssumption
<1>2. NumIds \in 1 .. NumIds
  BY Sizes
<1>3. PICK p : p = [id |-> NumIds, len |-> len, good |-> kind # "corrupt", user |-> kind # "idle"]
  OBVIOUS
<1>4. p \in Packets
  BY <1>1, <1>2, <1>3 DEF Packets
<1> QED BY <1>3, <1>4

LEMMA InitHolds ==
  ASSUME Init
  PROVE  Inv /\ Delivery!Init
<1>1. /\ packet = (CHOOSE p \in Packets : p.id = NumIds) /\ place = AllBits(packet)
      /\ bits = <<>> /\ bytes = <<>> /\ checked = <<>> /\ user = <<>> /\ pdus = <<>>
      /\ pack_failed = FALSE /\ crc_packet_len = 0 /\ crc_failed = FALSE
      /\ type_remaining = 0 /\ type_valid \in BOOLEAN /\ type_failed = FALSE
      /\ pdu_remaining = 0 /\ pdu_index = 0 /\ pdu_pdu = PDU!EmptyPdu
      /\ pdu_merged_tag = <<>> /\ pdu_failed = FALSE /\ offered = FALSE
      /\ pending = <<>> /\ written = PDU!EmptyPdu
  BY DEF Init, PACK!Init, CRC!Init, TYPE!Init, PDU!Init
<1>2. packet \in Packets
  BY <1>1, SomePacket
<1>3. AllBits(packet) \in Nat /\ AllBits(packet) > 0 /\ place \in 1 .. AllBits(packet)
  BY <1>1, <1>2, PacketSizes
<1>4. PICK none : none = <<>>
  OBVIOUS
<1>5. none \in Seq(Packets) /\ Len(none) = 0 /\ none \in Seq(Item)
  BY <1>4
<1>6. PICK at : at = [k \in 1 .. 1 |-> 0]
  OBVIOUS
<1>7. Len(none) + 1 = 1 /\ 1 .. Len(none) = {} /\ 1 .. Len(none) + 1 = {1}
  BY <1>5
<1>8. at[1] = 0 /\ at \in [1 .. Len(none) + 1 -> Int]
  BY <1>5, <1>6
<1>9. /\ \A form : Places(form, none, at)
      /\ \A form, link : Holds(form, link, none, at)
  BY <1>7, <1>8 DEF Places, Holds
<1>10. Coming = 0
  BY <1>1, <1>3 DEF Coming
<1>11. Ready(none)
  BY <1>1, <1>4, <1>7 DEF Ready
<1>12. Passing = 0 /\ Gathered(none) = 0
  BY <1>1 DEF Passing, Gathered
<1>13. Collected(none)
  <2>1. CollectedAt(none, at)
    BY <1>1, <1>4, <1>5, <1>7, <1>8, <1>9, <1>12 DEF CollectedAt
  <2>2. PassesLast(none) /\ InPdu(none)
    BY <1>1, <1>12 DEF PassesLast, InPdu
  <2> QED BY <1>7, <2>1, <2>2 DEF Collected
<1>14. Checked(none)
  <2>1. CheckedAt(none, at)
    BY <1>1, <1>4, <1>5, <1>7, <1>8, <1>9 DEF CheckedAt
  <2> QED BY <1>7, <2>1 DEF Checked
<1>15. Arriving(none)
  <2>1. Len(bits) = 0 /\ Len(bytes) = 0
    BY <1>1, <1>4, <1>5
  <2>2. \A k \in 1 .. Len(none) + 1 : at[k] = (at[k] - Len(bytes)) * InputsPerOutput
    <3>1. (0 - 0) * InputsPerOutput = 0
      BY Sizes
    <3> QED BY <1>7, <1>8, <2>1, <3>1
  <2>3. ArrivingAt(none, at, at, 1)
    BY <1>5, <1>7, <1>8, <1>9, <1>10, <2>1, <2>2 DEF ArrivingAt
  <2>4. LengthKnown(none) /\ ComesLast(none)
    BY <1>1, <1>10 DEF LengthKnown, ComesLast
  <2> QED BY <2>3, <2>4 DEF Arriving
<1>16. Lists(none, none, none, none)
  <2>1. none \o none = none
    BY <1>5, ConcatEmptySeq, <1>4
  <2> QED BY <1>1, <1>4, <1>5, <2>1 DEF Lists
<1>17. NoBlockFails
  <2>1. pdu_pdu.data = <<>>
    BY <1>1 DEF PDU!EmptyPdu
  <2>2. /\ bits \in Seq(Item) /\ Len(bits) <= BitsCapacity
        /\ bytes \in Seq(Item) /\ Len(bytes) <= BytesCapacity
    BY <1>1, <1>4, <1>5, Sizes
  <2>3. /\ checked \in Seq(Item) /\ Len(checked) <= CheckedCapacity
        /\ user \in Seq(Item) /\ Len(user) <= UserCapacity
    BY <1>1, <1>4, <1>5, Sizes
  <2>4. /\ Len(pdus) <= PdusCapacity /\ Len(pending) <= NumIds
        /\ pdu_pdu.data \in Seq(Item) /\ pdu_merged_tag \in Seq(Item)
    BY <1>1, <1>4, <1>5, <2>1, Sizes
  <2>5. ~pack_failed /\ ~crc_failed /\ ~type_failed /\ ~pdu_failed
    BY <1>1
  <2>6. {pack_failed, crc_failed, type_failed, pdu_failed} \subseteq BOOLEAN
    BY <1>1
  <2>7. /\ crc_packet_len \in Lengths \cup {0} /\ offered \in BOOLEAN
        /\ type_remaining \in Nat /\ type_valid \in BOOLEAN
        /\ pdu_remaining \in Nat /\ pdu_index \in Nat
    BY <1>1
  <2> QED BY <1>2, <1>3, <2>2, <2>3, <2>4, <2>5, <2>6, <2>7 DEF NoBlockFails, TypeOK
<1>18. DifferentIds
  BY <1>1, <1>4, <1>5, <1>7 DEF DifferentIds
<1>19. \E P, U, Q, R : Cut(P, U, Q, R)
  BY <1>11, <1>13, <1>14, <1>15, <1>16 DEF Cut
<1>20. Delivery!Init
  BY <1>1 DEF Delivery!Init, PDU!EmptyPdu
<1> QED BY <1>17, <1>18, <1>19, <1>20 DEF Inv

(* Every step keeps the invariant, and is one of PacketDelivery, or one it *)
(* does not see.                                                           *)
LEMMA StepKeeps ==
  ASSUME Inv, [Next]_vars
  PROVE  Inv' /\ [Delivery!Next]_(Delivery!vars)
<1>1. CASE ReceiveStep
  BY <1>1, ReceiveKeeps DEF ReceiveStep
<1>2. CASE PackStep
  BY <1>2, PackKeeps DEF PackStep
<1>3. CASE CheckStep
  BY <1>3, CheckKeeps DEF CheckStep
<1>4. CASE FilterStep
  BY <1>4, FilterKeeps DEF FilterStep
<1>5. CASE PduStep
  BY <1>5, PduKeeps DEF PduStep
<1>6. CASE Write
  BY <1>6, WriteKeeps
<1>7. CASE UNCHANGED vars
  <2>1. UNCHANGED <<packet, place, bits, pack_failed, bytes, crc_vars, checked,
                    type_vars, user, pdu_vars, pdus, pending, written>>
    BY <1>7 DEF vars
  <2>2. UNCHANGED <<crc_packet_len, crc_failed, offered, type_remaining, type_valid, type_failed,
                    pdu_remaining, pdu_index, pdu_pdu, pdu_merged_tag, pdu_failed>>
    BY <2>1 DEF crc_vars, type_vars, pdu_vars
  <2>3. PICK P, U, Q, R : Cut(P, U, Q, R)
    BY DEF Inv
  <2>4. Lists(P, U, Q, R) /\ Ready(P) /\ Collected(U) /\ Checked(Q) /\ Arriving(R)
    BY <2>3 DEF Cut
  <2>5. Lists(P, U, Q, R)' /\ Ready(P)' /\ Checked(Q)'
    BY <2>1, <2>2, <2>4 DEF Lists, Ready, Checked, CheckedAt
  <2>6. Arriving(R)'
    BY <2>1, <2>2, <2>4
       DEF Arriving, LengthKnown, ComesLast, ArrivingAt, Coming, AllBits
  <2>7. Collected(U)'
    <3>1. U \in Seq(Packets) /\ Passing' = Passing
      BY <2>2, <2>4 DEF Lists, Passing
    <3> QED BY <2>1, <2>4, <3>1, CollectedStays
  <2>8. NoBlockFails' /\ DifferentIds'
    BY <2>1, <2>2 DEF Inv, NoBlockFails, TypeOK, DifferentIds, AllBits
  <2>9. UNCHANGED Delivery!vars
    BY <2>1 DEF Delivery!vars
  <2> QED BY <2>5, <2>6, <2>7, <2>8, <2>9 DEF Inv, Cut
<1> QED BY <1>1, <1>2, <1>3, <1>4, <1>5, <1>6, <1>7 DEF Next

(* The invariant, for all sizes of packets and links. *)
THEOREM BranchInv == Spec => []Inv
<1>1. Init => Inv
  BY InitHolds
<1>2. Inv /\ [Next]_vars => Inv'
  BY StepKeeps
<1> QED BY <1>1, <1>2, PTL DEF Spec

(* Every block finds a length where it looks for it, and never one that is *)
(* not whole bytes: none of them stops the graph.                          *)
THEOREM NoBlockFailsHolds == Spec => []NoBlockFails
<1>1. Inv => NoBlockFails
  BY DEF Inv
<1> QED BY <1>1, BranchInv, PTL

(* What is written are the packets of users with a right CRC, whole, in    *)
(* order and with their own tags; no other packet is written.              *)
THEOREM WritesWantedPacketsHolds == Spec => WritesWantedPackets
<1>1. Init => Delivery!Init
  BY InitHolds
<1>2. Inv /\ [Next]_vars => [Delivery!Next]_(Delivery!vars)
  BY StepKeeps
<1> QED BY <1>1, <1>2, BranchInv, PTL DEF Spec, WritesWantedPackets, Delivery!Spec
=============================================================================
