----------------------- MODULE BurstTransmitter_proofs ------------------------
(***************************************************************************)
(* Proofs about the back of the transmitter in burst mode: no block stops, *)
(* and what leaves is one whole burst for every packet, in order, for all  *)
(* filters, sizes of the parts, lengths of packets and capacities of the   *)
(* links.                                                                  *)
(*                                                                         *)
(* The invariant says where every burst of the queue lies: burst k begins  *)
(* behind place at[k] of the link muxed (0 - at[k] symbols of it are       *)
(* filtered if at[k] is negative), and from there its place in every other *)
(* link, in the multiplexer, in the filter and in the shaper follows.  A   *)
(* burst that a block has not reached lies beyond the end of its link.     *)
(***************************************************************************)
EXTENDS BurstTransmitter, SequenceTheorems, WellFoundedInduction, TLAPS

(* The packets accepted and not yet sent. *)
Q == Len(queue)

(* The symbols of a burst and its samples. *)
BurstSize(p) == SyncwordSize + p.len + RampDownSize + FlushSize

(* The symbol at place m of the burst of p; zeros behind it. *)
SymbolOf(p, m) ==
  CASE m <= SyncwordSize -> <<p.id, "syncword", m>>
    [] SyncwordSize < m /\ m <= SyncwordSize + p.len ->
         <<p.id, "packet", m - SyncwordSize>>
    [] SyncwordSize + p.len < m /\ m <= SyncwordSize + p.len + RampDownSize ->
         <<p.id, "ramp_down", m - SyncwordSize - p.len>>
    [] OTHER -> Zero

(* The number of items that the burst of p has in a form: the symbols of   *)
(* the packet, of the burst, its samples, and those with the length        *)
(* scaled.                                                                 *)
Span(form, p) ==
  CASE form = "packet"  -> p.len
    [] form = "symbols" -> BurstSize(p)
    [] OTHER            -> BurstSize(p) * Interpolation

(* Item m of them, with the length in the tag of the first. *)
Piece(form, p, m) ==
  CASE form = "packet"  -> Symbol(p.id, "packet", m, IF m = 1 THEN p.len ELSE 0)
    [] form = "symbols" -> [of |-> SymbolOf(p, m), bits |-> IF m = 1 THEN BurstSize(p) ELSE 0]
    [] form = "samples" -> [sum |-> Transmission!Sum(p, m),
                            bits |-> IF m = 1 THEN BurstSize(p) ELSE 0]
    [] OTHER            -> [sum |-> Transmission!Sum(p, m),
                            bits |-> IF m = 1 THEN BurstSize(p) * Interpolation ELSE 0]

(* The forms. *)
Forms == {"packet", "symbols", "samples", "scaled"}

(* Every item of a form. *)
Pieces(form) == {Piece(form, p, m) : p \in Packets, m \in Nat}

(* The bursts of list lie one behind the other. *)
Places(form, list, at) ==
  /\ at \in [1 .. Len(list) + 1 -> Int]
  /\ \A k \in 1 .. Len(list) : at[k + 1] = at[k] + Span(form, list[k])
  /\ \A k, l \in 1 .. Len(list) + 1 : k <= l => at[k] <= at[l]

(* Where a link holds an item of a burst, it is the right one; burst k     *)
(* begins behind place at[k] of the link, which may lie before or beyond   *)
(* it.                                                                     *)
Holds(form, link, list, at) ==
  \A k \in 1 .. Len(list) : \A m \in 1 .. Span(form, list[k]) :
    at[k] + m \in 1 .. Len(link) => link[at[k] + m] = Piece(form, list[k], m)

(* Item i of a row of packets of size items, of which the first has done   *)
(* items before it and is for burst id.                                    *)
RowItem(part, size, id, done, i) ==
  Symbol(IdOf(id, done, i, size), part, ((done + i - 1) % size) + 1,
         IF (done + i - 1) % size = 0 THEN size ELSE 0)

(* An item of the flush. *)
ZeroItem(done, i) ==
  [of |-> Zero, bits |-> IF (done + i - 1) % FlushSize = 0 THEN FlushSize ELSE 0]

(* A link holds such a row; its source is at next_id and count. *)
RowAt(link, part, size, id, done, next_id, count) ==
  /\ \A i \in 1 .. Len(link) : link[i] = RowItem(part, size, id, done, i)
  /\ next_id = IdOf(id, done, Len(link) + 1, size)
  /\ count = (done + Len(link)) % size

(* The same for the link of the flush. *)
ZerosAt(link, done, count) ==
  /\ \A i \in 1 .. Len(link) : link[i] = ZeroItem(done, i)
  /\ count = (done + Len(link)) % FlushSize

-----------------------------------------------------------------------------

(* What is assumed of the constants, one by one. *)
LEMMA Sizes ==
  /\ Interpolation \in Nat /\ Interpolation > 0
  /\ NumTaps \in Nat /\ NumTaps > 0
  /\ SyncwordSize \in Nat /\ SyncwordSize > 0
  /\ RampDownSize \in Nat /\ RampDownSize > 0
  /\ FlushSize \in Nat /\ FlushSize > 0
  /\ Leading \in Nat /\ Trailing \in Nat
  /\ NumIds \in Nat /\ NumIds > 0
  /\ SyncwordCapacity \in Nat /\ PacketsCapacity \in Nat /\ RampDownCapacity \in Nat
  /\ FlushCapacity \in Nat /\ MuxedCapacity \in Nat /\ ScaledCapacity \in Nat
  /\ FilteredCapacity \in Nat
  /\ \A len \in Lengths : len \in Nat /\ len > 0
<1>1. \A capacity \in {SyncwordCapacity, PacketsCapacity, RampDownCapacity,
                       FlushCapacity, MuxedCapacity, ScaledCapacity} :
        capacity \in Nat \ {0}
  BY BurstAssumption
<1>2. /\ SyncwordCapacity \in Nat /\ PacketsCapacity \in Nat /\ RampDownCapacity \in Nat
      /\ FlushCapacity \in Nat /\ MuxedCapacity \in Nat /\ ScaledCapacity \in Nat
  BY <1>1
<1>3. \A len \in Lengths : len \in Nat /\ len > 0
  BY BurstAssumption
<1>4. \A x \in Nat \ {0} : x \in Nat /\ x > 0
  OBVIOUS
<1>5. /\ Interpolation \in Nat /\ Interpolation > 0
      /\ NumTaps \in Nat /\ NumTaps > 0
      /\ SyncwordSize \in Nat /\ SyncwordSize > 0
      /\ RampDownSize \in Nat /\ RampDownSize > 0
      /\ FlushSize \in Nat /\ FlushSize > 0
      /\ NumIds \in Nat /\ NumIds > 0
  BY <1>4, BurstAssumption
<1>6. Leading \in Nat /\ Trailing \in Nat /\ FilteredCapacity \in Nat
  BY BurstAssumption
<1> QED BY <1>2, <1>3, <1>5, <1>6

(* The sizes of a packet. *)
LEMMA PacketSizes ==
  ASSUME NEW p \in Packets
  PROVE  /\ p.len \in Lengths /\ p.len \in Nat /\ p.len > 0
         /\ p.id \in Ids /\ p.id \in Nat /\ p.id > 0
         /\ BurstSize(p) \in Nat /\ BurstSize(p) > 0
         /\ BurstSize(p) = SyncwordSize + p.len + RampDownSize + FlushSize
         /\ BurstSize(p) * Interpolation \in Nat /\ BurstSize(p) * Interpolation > 0
<1>1. p.len \in Lengths /\ p.id \in Ids
  BY DEF Packets
<1>2. p.len \in Nat /\ p.len > 0 /\ p.id \in Nat /\ p.id > 0
  BY <1>1, Sizes DEF Ids
<1>3. /\ BurstSize(p) \in Nat /\ BurstSize(p) > 0
      /\ BurstSize(p) = SyncwordSize + p.len + RampDownSize + FlushSize
  BY <1>2, Sizes DEF BurstSize
<1>4. \A x, y \in Nat : x > 0 /\ y > 0 => x * y \in Nat /\ x * y > 0
  OBVIOUS
<1>5. BurstSize(p) * Interpolation \in Nat /\ BurstSize(p) * Interpolation > 0
  BY <1>3, <1>4, Sizes
<1> QED BY <1>1, <1>2, <1>3, <1>5

(* Every packet has items in every form. *)
LEMMA Spans ==
  ASSUME NEW form \in Forms, NEW p \in Packets
  PROVE  Span(form, p) \in Nat /\ Span(form, p) > 0
BY PacketSizes DEF Forms, Span

(* What is left of a link. *)
LEMMA FromProperties ==
  ASSUME NEW S, NEW seq \in Seq(S), NEW k \in 0 .. Len(seq)
  PROVE  /\ From(seq, k) \in Seq(S)
         /\ Len(From(seq, k)) = Len(seq) - k
         /\ \A i \in 1 .. Len(seq) - k : From(seq, k)[i] = seq[i + k]
<1>1. Len(seq) \in Nat /\ \A i \in 1 .. Len(seq) : seq[i] \in S
  BY LenProperties, ElementOfSeq
<1>2. \A i \in k + 1 .. Len(seq) : seq[i] \in S
  BY <1>1
<1>3. /\ From(seq, k) \in Seq(S)
      /\ Len(From(seq, k)) = IF k + 1 <= Len(seq) THEN Len(seq) - (k + 1) + 1 ELSE 0
      /\ \A i \in 1 .. Len(seq) - (k + 1) + 1 : From(seq, k)[i] = seq[k + 1 + i - 1]
  BY <1>1, <1>2, SubSeqProperties DEF From
<1> QED BY <1>1, <1>3

(* The first items of a link. *)
LEMMA FrontProperties ==
  ASSUME NEW S, NEW seq \in Seq(S), NEW k \in 0 .. Len(seq)
  PROVE  /\ SubSeq(seq, 1, k) \in Seq(S)
         /\ Len(SubSeq(seq, 1, k)) = k
         /\ \A i \in 1 .. k : SubSeq(seq, 1, k)[i] = seq[i]
<1>1. Len(seq) \in Nat /\ \A i \in 1 .. Len(seq) : seq[i] \in S
  BY LenProperties, ElementOfSeq
<1>2. \A i \in 1 .. k : seq[i] \in S
  BY <1>1
<1>3. /\ SubSeq(seq, 1, k) \in Seq(S)
      /\ Len(SubSeq(seq, 1, k)) = IF 1 <= k THEN k - 1 + 1 ELSE 0
      /\ \A i \in 1 .. k - 1 + 1 : SubSeq(seq, 1, k)[i] = seq[1 + i - 1]
  BY <1>1, <1>2, SubSeqProperties
<1> QED BY <1>1, <1>3

(* A function on the first numbers is a sequence. *)
LEMMA FunctionIsSeq ==
  ASSUME NEW S, NEW m \in Nat, NEW f \in [1 .. m -> S]
  PROVE  f \in Seq(S) /\ Len(f) = m
<1>1. f \in Seq(S)
  BY SeqDef
<1>2. Len(f) \in Nat /\ 1 .. Len(f) = 1 .. m
  BY <1>1, LenProperties
<1> QED BY <1>1, <1>2

(* Two sequences, one behind the other. *)
LEMMA JoinProperties ==
  ASSUME NEW S, NEW seq \in Seq(S), NEW f \in Seq(S)
  PROVE  /\ seq \o f \in Seq(S) /\ Len(seq \o f) = Len(seq) + Len(f)
         /\ \A i \in 1 .. Len(seq) : (seq \o f)[i] = seq[i]
         /\ \A i \in 1 .. Len(f) : (seq \o f)[Len(seq) + i] = f[i]
<1>1. Len(f) \in Nat /\ Len(seq) \in Nat
  BY LenProperties
<1>2. /\ seq \o f \in Seq(S) /\ Len(seq \o f) = Len(seq) + Len(f)
      /\ \A i \in 1 .. Len(seq) + Len(f) :
            (seq \o f)[i] = IF i <= Len(seq) THEN seq[i] ELSE f[i - Len(seq)]
  BY ConcatProperties
<1>3. ASSUME NEW i \in 1 .. Len(f)
      PROVE  (seq \o f)[Len(seq) + i] = f[i]
  <2>1. Len(seq) + i \in 1 .. Len(seq) + Len(f) /\ ~(Len(seq) + i <= Len(seq))
    BY <1>1
  <2>2. Len(seq) + i - Len(seq) = i
    BY <1>1
  <2> QED BY <1>2, <2>1, <2>2
<1>4. ASSUME NEW i \in 1 .. Len(seq)
      PROVE  (seq \o f)[i] = seq[i]
  BY <1>1, <1>2
<1> QED BY <1>2, <1>3, <1>4

(* A sequence is empty if its length is zero. *)
LEMMA EmptyLength ==
  ASSUME NEW S, NEW seq \in Seq(S)
  PROVE  Len(seq) \in Nat /\ (seq = <<>> <=> Len(seq) = 0)
BY EmptySeq, LenProperties

(* One more at the end. *)
LEMMA AppendOne ==
  ASSUME NEW S, NEW seq \in Seq(S), NEW e \in S
  PROVE  /\ Append(seq, e) \in Seq(S) /\ Len(Append(seq, e)) = Len(seq) + 1
         /\ \A i \in 1 .. Len(seq) : Append(seq, e)[i] = seq[i]
         /\ Append(seq, e)[Len(seq) + 1] = e
BY AppendProperties, LenProperties

(* The first element, and the others. *)
LEMMA HeadAndTail ==
  ASSUME NEW S, NEW seq \in Seq(S), Len(seq) > 0
  PROVE  /\ seq # <<>> /\ Head(seq) = seq[1] /\ seq[1] \in S
         /\ Tail(seq) \in Seq(S) /\ Len(Tail(seq)) = Len(seq) - 1
         /\ \A i \in 1 .. Len(seq) - 1 : Tail(seq)[i] = seq[i + 1]
<1>1. seq # <<>> /\ Len(seq) \in Nat
  BY EmptyLength
<1>2. Tail(seq) \in Seq(S) /\ Len(Tail(seq)) = Len(seq) - 1
  BY <1>1, HeadTailProperties
<1>3. \A i \in 1 .. Len(Tail(seq)) : Tail(seq)[i] = seq[i + 1]
  BY <1>1, HeadTailProperties
<1>4. 1 \in 1 .. Len(seq)
  BY <1>1
<1>5. Head(seq) = seq[1] /\ seq[1] \in S
  BY <1>1, <1>4, ElementOfSeq
<1> QED BY <1>1, <1>2, <1>3, <1>5

-----------------------------------------------------------------------------
(* Rows.                                                                   *)

(* Quotient and remainder are what they are. *)
LEMMA DivisionIs ==
  ASSUME NEW a \in Nat, NEW s \in Nat, s > 0, NEW q \in Int, NEW r \in Int,
         a = q * s + r, 0 <= r, r < s
  PROVE  a \div s = q /\ a % s = r
<1>1. PICK u, v : u = a \div s /\ v = a % s
  OBVIOUS
<1>2. u \in Int /\ v \in Int /\ a = u * s + v /\ 0 <= v /\ v < s
  BY <1>1, SMTT(20)
<1>3. (u - q) * s = r - v
  BY <1>2
<1>4. r - v < s /\ r - v > 0 - s
  BY <1>2
<1>5. u - q = 0
  <2>1. PICK w \in Int : w = u - q
    BY <1>2
  <2>2. w * s < s /\ w * s > 0 - s
    BY <1>3, <1>4, <2>1
  <2>3. ~(w >= 1)
    BY <2>2
  <2>4. ~(w <= 0 - 1)
    BY <2>2
  <2> QED BY <2>1, <2>3, <2>4
<1>6. u = q
  BY <1>2, <1>5
<1> QED BY <1>1, <1>2, <1>6

(* Every number is a multiple and a remainder. *)
LEMMA DivisionOf ==
  ASSUME NEW a \in Nat, NEW s \in Nat, s > 0
  PROVE  /\ a \div s \in Nat /\ a % s \in Nat /\ a % s < s
         /\ a = ((a \div s) * s) + (a % s)
BY SMTT(20)

(* Counting on from a remainder. *)
LEMMA DivisionGoesOn ==
  ASSUME NEW a \in Nat, NEW b \in Nat, NEW s \in Nat, s > 0
  PROVE  /\ ((a % s) + b) % s = (a + b) % s
         /\ (a \div s) + (((a % s) + b) \div s) = (a + b) \div s
<1>1. PICK q, r \in Nat : q = a \div s /\ r = a % s /\ r < s /\ a = q * s + r
  BY DivisionOf
<1>2. r + b \in Nat
  OBVIOUS
<1>3. PICK u, v \in Nat : u = (r + b) \div s /\ v = (r + b) % s /\ v < s /\ r + b = u * s + v
  BY <1>2, DivisionOf
<1>4. a + b = (q + u) * s + v
  BY <1>1, <1>3
<1>5. (a + b) \div s = q + u /\ (a + b) % s = v
  <2>1. a + b \in Nat /\ q + u \in Int /\ v \in Int /\ 0 <= v
    OBVIOUS
  <2> QED BY <1>3, <1>4, <2>1, DivisionIs
<1> QED BY <1>1, <1>3, <1>5

(* An item of a row has the identity of its packet. *)
LEMMA IdProperties ==
  ASSUME NEW id \in Ids, NEW d \in Nat, NEW i \in Nat, i > 0, NEW size \in Nat, size > 0
  PROVE  /\ (d + i) - 1 \in Nat
         /\ IdOf(id, d, i, size) = (((id - 1) + (((d + i) - 1) \div size)) % NumIds) + 1
         /\ IdOf(id, d, i, size) \in Ids
         /\ IdOf(id, d, i, size) - 1 = ((id - 1) + (((d + i) - 1) \div size)) % NumIds
<1>1. (d + i) - 1 \in Nat /\ id \in Nat /\ id > 0 /\ id - 1 \in Nat
  BY Sizes DEF Ids
<1>2. ((d + i) - 1) \div size \in Nat
  BY <1>1, DivisionOf
<1>3. PICK q \in Nat : q = ((d + i) - 1) \div size
  BY <1>2
<1>4. (id - 1) + q \in Nat
  BY <1>1
<1>5. PICK r \in Nat : r = ((id - 1) + q) % NumIds /\ r < NumIds
  BY <1>4, Sizes, DivisionOf
<1>6. IdOf(id, d, i, size) = r + 1
  BY <1>3, <1>5 DEF IdOf
<1>7. r + 1 \in Ids /\ (r + 1) - 1 = r
  BY <1>5, Sizes DEF Ids
<1> QED BY <1>1, <1>3, <1>5, <1>6, <1>7

(* The source of a row knows where it is by its count and identity. *)
LEMMA ItemGoesOn ==
  ASSUME NEW part, NEW id \in Ids, NEW d \in Nat, NEW n \in Nat,
         NEW i \in Nat, i > 0, NEW size \in Nat, size > 0
  PROVE  /\ IdOf(IdOf(id, d, n + 1, size), (d + n) % size, i, size)
              = IdOf(id, d, n + i, size)
         /\ RowItem(part, size, IdOf(id, d, n + 1, size), (d + n) % size, i)
              = RowItem(part, size, id, d, n + i)
         /\ ((((d + n) % size) + i) - 1) % size = (((d + n) + i) - 1) % size
<1>1. PICK a, b \in Nat : a = d + n /\ b = i - 1
  OBVIOUS
<1>2. PICK r, q \in Nat : r = a % size /\ q = a \div size /\ r < size
  BY DivisionOf
<1>3. /\ (r + b) % size = (a + b) % size
      /\ q + ((r + b) \div size) = (a + b) \div size
  BY <1>2, DivisionGoesOn
<1>4. /\ (d + (n + 1)) - 1 = a /\ (r + i) - 1 = r + b
      /\ (d + (n + i)) - 1 = a + b /\ ((d + n) + i) - 1 = a + b
  BY <1>1
<1>5. PICK w \in Nat : w = (r + b) \div size
  <2>1. r + b \in Nat
    OBVIOUS
  <2> QED BY <2>1, DivisionOf
<1>6. PICK first : first = IdOf(id, d, n + 1, size)
  OBVIOUS
<1>7. first \in Ids /\ first - 1 = ((id - 1) + q) % NumIds
  <2>1. PICK x \in Nat : x = n + 1 /\ x > 0
    OBVIOUS
  <2>2. /\ IdOf(id, d, x, size) \in Ids
        /\ IdOf(id, d, x, size) - 1 = ((id - 1) + (((d + x) - 1) \div size)) % NumIds
    BY <2>1, IdProperties
  <2>3. (d + x) - 1 = a
    BY <1>4, <2>1
  <2>4. ((d + x) - 1) \div size = q
    BY <1>2, <2>3
  <2> QED BY <1>6, <2>1, <2>2, <2>4
<1>8. IdOf(first, r, i, size) = (((((id - 1) + q) % NumIds) + w) % NumIds) + 1
  <2>1. IdOf(first, r, i, size) = (((first - 1) + (((r + i) - 1) \div size)) % NumIds) + 1
    BY <1>7, IdProperties
  <2>2. ((r + i) - 1) \div size = w
    BY <1>4, <1>5
  <2> QED BY <1>7, <2>1, <2>2
<1>9. ((((id - 1) + q) % NumIds) + w) % NumIds = (((id - 1) + q) + w) % NumIds
  <2>1. PICK x \in Nat : x = (id - 1) + q
    BY DEF Ids
  <2>2. NumIds \in Nat /\ NumIds > 0
    BY Sizes
  <2>3. ((x % NumIds) + w) % NumIds = (x + w) % NumIds
    BY <2>2, DivisionGoesOn, ZenonT(60)
  <2> QED BY <2>1, <2>3
<1>10. IdOf(id, d, n + i, size) = (((id - 1) + (q + w)) % NumIds) + 1
  <2>1. PICK x \in Nat : x = n + i /\ x > 0
    OBVIOUS
  <2>2. IdOf(id, d, x, size) = (((id - 1) + (((d + x) - 1) \div size)) % NumIds) + 1
    BY <2>1, IdProperties
  <2>3. (d + x) - 1 = a + b
    BY <1>4, <2>1
  <2>4. ((d + x) - 1) \div size = q + w
    BY <1>3, <1>5, <2>3
  <2> QED BY <2>1, <2>2, <2>4
<1>11. ((id - 1) + q) + w = (id - 1) + (q + w)
  BY DEF Ids
<1>12. IdOf(first, r, i, size) = IdOf(id, d, n + i, size)
  BY <1>8, <1>9, <1>10, <1>11
<1>13. RowItem(part, size, first, r, i) = RowItem(part, size, id, d, n + i)
  <2>1. ((r + i) - 1) % size = ((d + (n + i)) - 1) % size
    BY <1>3, <1>4
  <2> QED BY <1>12, <2>1 DEF RowItem
<1> QED BY <1>1, <1>2, <1>3, <1>4, <1>6, <1>12, <1>13

(* A packet that is done is the one before the next. *)
LEMMA RowTurns ==
  ASSUME NEW part, NEW size \in Nat, size > 0, NEW id \in Ids, NEW i \in Nat, i > 0
  PROVE  /\ NextId(id) \in Ids
         /\ IdOf(id, size, i, size) = IdOf(NextId(id), 0, i, size)
         /\ RowItem(part, size, id, size, i) = RowItem(part, size, NextId(id), 0, i)
         /\ ((size + i) - 1) % size = ((0 + i) - 1) % size
<1>1. PICK b \in Nat : b = i - 1
  OBVIOUS
<1>2. PICK w, r \in Nat : w = b \div size /\ r = b % size /\ r < size /\ b = (w * size) + r
  BY DivisionOf
<1>3. (size + b) \div size = w + 1 /\ (size + b) % size = r
  <2>1. size + b = ((w + 1) * size) + r
    BY <1>2
  <2>2. size + b \in Nat /\ w + 1 \in Int
    OBVIOUS
  <2> QED BY <1>2, <2>1, <2>2, DivisionIs
<1>4. (size + i) - 1 = size + b /\ (0 + i) - 1 = b
  BY <1>1
<1>5. id \in Nat /\ id > 0 /\ id - 1 \in Nat
  BY DEF Ids
<1>6. PICK m \in Nat : m = id % NumIds /\ m < NumIds
  BY <1>5, Sizes, DivisionOf
<1>7. NextId(id) = m + 1 /\ NextId(id) \in Ids
  BY <1>6, Sizes DEF NextId, Ids
<1>8. IdOf(id, size, i, size) = (((id - 1) + (w + 1)) % NumIds) + 1
  BY <1>3, <1>4, IdProperties
<1>9. IdOf(NextId(id), 0, i, size) = ((m + w) % NumIds) + 1
  <2>1. PICK x \in Ids : x = NextId(id)
    BY <1>7
  <2>2. IdOf(x, 0, i, size) = (((x - 1) + (((0 + i) - 1) \div size)) % NumIds) + 1
    BY IdProperties
  <2>3. x - 1 = m
    BY <1>7, <2>1
  <2>4. ((0 + i) - 1) \div size = w
    BY <1>2, <1>4
  <2> QED BY <2>1, <2>2, <2>3, <2>4
<1>10. (m + w) % NumIds = (id + w) % NumIds
  <2>1. NumIds \in Nat /\ NumIds > 0
    BY Sizes
  <2>2. PICK x \in Nat : x = id
    BY <1>5
  <2>3. ((x % NumIds) + w) % NumIds = (x + w) % NumIds
    BY <2>1, DivisionGoesOn, ZenonT(60)
  <2> QED BY <1>6, <2>2, <2>3
<1>11. (id - 1) + (w + 1) = id + w
  BY <1>5
<1>12. IdOf(id, size, i, size) = IdOf(NextId(id), 0, i, size)
  BY <1>8, <1>9, <1>10, <1>11
<1>13. RowItem(part, size, id, size, i) = RowItem(part, size, NextId(id), 0, i)
  BY <1>2, <1>3, <1>4, <1>12 DEF RowItem
<1> QED BY <1>2, <1>3, <1>4, <1>7, <1>12, <1>13

(* A whole packet more makes no difference to the remainder. *)
LEMMA TurnOver ==
  ASSUME NEW b \in Nat, NEW s \in Nat, s > 0
  PROVE  (s + b) % s = b % s
<1>1. PICK w, r \in Nat : w = b \div s /\ r = b % s /\ r < s /\ b = (w * s) + r
  BY DivisionOf
<1>2. s + b = ((w + 1) * s) + r
  BY <1>1
<1>3. s + b \in Nat /\ w + 1 \in Int
  OBVIOUS
<1>4. PICK x \in Nat, y \in Int : x = s + b /\ y = w + 1
  BY <1>3
<1>5. x = (y * s) + r
  BY <1>2, <1>4
<1>6. r \in Int /\ 0 <= r
  OBVIOUS
<1>7. x % s = r
  BY <1>1, <1>5, <1>6, DivisionIs
<1> QED BY <1>1, <1>4, <1>7

(* What is less than a packet is its own remainder. *)
LEMMA NoTurn ==
  ASSUME NEW b \in Nat, NEW s \in Nat, b < s
  PROVE  b % s = b /\ b \div s = 0
<1>1. b = 0 * s + b /\ s > 0
  OBVIOUS
<1> QED BY <1>1, DivisionIs

(* The items of a row are symbols. *)
LEMMA RowItems ==
  ASSUME NEW part \in {"syncword", "ramp_down"}, NEW size \in Nat, size > 0,
         NEW id \in Ids, NEW d \in Nat, NEW i \in Nat, i > 0
  PROVE  RowItem(part, size, id, d, i) \in SymbolType
<1>1. (d + i) - 1 \in Nat /\ IdOf(id, d, i, size) \in Ids
  BY IdProperties
<1>2. PICK x \in Ids : x = IdOf(id, d, i, size)
  BY <1>1
<1>3. PICK r \in Nat : r = ((d + i) - 1) % size
  BY <1>1, DivisionOf
<1>4. x \in 0 .. NumIds /\ r + 1 \in Nat
  BY Sizes DEF Ids
<1> QED BY <1>2, <1>3, <1>4 DEF RowItem, Symbol, SymbolType

(* Items of the packet that a row has begun. *)
LEMMA RowWithin ==
  ASSUME NEW part, NEW size \in Nat, NEW id \in Ids, NEW d \in Nat, NEW i \in Nat, i > 0,
         d + i <= size
  PROVE  RowItem(part, size, id, d, i)
           = Symbol(id, part, d + i, IF d + i = 1 THEN size ELSE 0)
<1>1. PICK c \in Nat : c = (d + i) - 1 /\ c < size
  OBVIOUS
<1>2. c % size = c /\ c \div size = 0
  BY <1>1, NoTurn
<1>3. PICK x \in Nat : x = id - 1 /\ x < NumIds /\ x + 1 = id
  BY Sizes DEF Ids
<1>4. x % NumIds = x
  BY <1>3, NoTurn, Sizes
<1>5. IdOf(id, d, i, size) = id
  <2>1. size > 0
    BY <1>1
  <2>2. IdOf(id, d, i, size) = (((id - 1) + (((d + i) - 1) \div size)) % NumIds) + 1
    BY <2>1, IdProperties
  <2>3. IdOf(id, d, i, size) = ((x + 0) % NumIds) + 1
    BY <1>1, <1>2, <1>3, <2>2
  <2>4. x + 0 = x
    OBVIOUS
  <2> QED BY <1>3, <1>4, <2>3, <2>4
<1>6. c + 1 = d + i /\ (c = 0 <=> d + i = 1)
  BY <1>1
<1> QED BY <1>1, <1>2, <1>5, <1>6 DEF RowItem

(* The source of a row is behind the first k items of it. *)
Behind(size, id, d, k, next_id, count) ==
  next_id = IdOf(id, d, k + 1, size) /\ count = (d + k) % size

(* The items of the source behind a link go on where the link ends. *)
LEMMA RowGoesOn ==
  ASSUME NEW size \in Nat, size > 0, NEW id \in Ids, NEW d \in Nat, NEW k \in Nat,
         NEW next_id, NEW count, Behind(size, id, d, k, next_id, count), NEW part
  PROVE  \A i \in Nat : i > 0 =>
           /\ IdOf(next_id, count, i, size) = IdOf(id, d, k + i, size)
           /\ RowItem(part, size, next_id, count, i) = RowItem(part, size, id, d, k + i)
<1>1. SUFFICES ASSUME NEW i \in Nat, i > 0
               PROVE  RowItem(part, size, next_id, count, i) = RowItem(part, size, id, d, k + i)
  <2>1. \A i \in Nat : /\ RowItem(part, size, next_id, count, i).of[1] = IdOf(next_id, count, i, size)
                       /\ RowItem(part, size, id, d, k + i).of[1] = IdOf(id, d, k + i, size)
    BY DEF RowItem, Symbol
  <2> QED BY <2>1
<1>2. RowItem(part, size, IdOf(id, d, k + 1, size), (d + k) % size, i)
        = RowItem(part, size, id, d, k + i)
  BY <1>1, ItemGoesOn
<1> QED BY <1>2 DEF Behind

(* The source of a row adds items. *)
LEMMA RowGrows ==
  ASSUME NEW part \in {"syncword", "ramp_down"}, NEW size \in Nat, size > 0,
         NEW id \in Ids, NEW d \in Nat, NEW next_id, NEW count,
         NEW link \in Seq(SymbolType), RowAt(link, part, size, id, d, next_id, count),
         NEW more, NEW n \in Nat,
         more = [i \in 1 .. n |-> RowItem(part, size, next_id, count, i)]
  PROVE  /\ link \o more \in Seq(SymbolType)
         /\ Len(link \o more) = Len(link) + n
         /\ RowAt(link \o more, part, size, id, d,
                  IdOf(next_id, count, n + 1, size), (count + n) % size)
<1>1. PICK k \in Nat : k = Len(link)
  BY LenProperties
<1>2. next_id = IdOf(id, d, k + 1, size) /\ count = (d + k) % size
  BY <1>1 DEF RowAt
<1>3. \A i \in Nat : i > 0 =>
        /\ IdOf(next_id, count, i, size) = IdOf(id, d, k + i, size)
        /\ RowItem(part, size, next_id, count, i) = RowItem(part, size, id, d, k + i)
  <2>1. Behind(size, id, d, k, next_id, count)
    BY <1>2 DEF Behind
  <2> QED BY <2>1, RowGoesOn
<1>4. \A i \in 1 .. n : more[i] = RowItem(part, size, id, d, k + i)
  BY <1>3
<1>5. \A i \in 1 .. n : RowItem(part, size, next_id, count, i) \in SymbolType
  <2>1. next_id \in Ids
    <3>1. PICK x \in Nat : x = k + 1 /\ x > 0
      OBVIOUS
    <3>2. IdOf(id, d, x, size) \in Ids
      BY <3>1, IdProperties
    <3> QED BY <1>2, <3>1, <3>2
  <2>2. count \in Nat
    <3>1. PICK x \in Nat : x = d + k
      OBVIOUS
    <3>2. x % size \in Nat
      BY DivisionOf
    <3> QED BY <1>2, <3>1, <3>2
  <2> QED BY <2>1, <2>2, RowItems
<1>6. more \in Seq(SymbolType) /\ Len(more) = n
  <2>1. more \in [1 .. n -> SymbolType]
    BY <1>5
  <2> QED BY <2>1, FunctionIsSeq
<1>7. /\ link \o more \in Seq(SymbolType) /\ Len(link \o more) = k + n
      /\ \A i \in 1 .. k : (link \o more)[i] = link[i]
      /\ \A i \in 1 .. n : (link \o more)[k + i] = more[i]
  BY <1>1, <1>6, JoinProperties
<1>8. ASSUME NEW i \in 1 .. k + n
      PROVE  (link \o more)[i] = RowItem(part, size, id, d, i)
  <2>1. CASE i <= k
    <3>1. i \in 1 .. k
      BY <2>1
    <3> QED BY <1>1, <1>7, <3>1 DEF RowAt
  <2>2. CASE ~(i <= k)
    <3>1. PICK l : l = i - k
      OBVIOUS
    <3>2. l \in 1 .. n /\ k + l = i
      BY <2>2, <3>1
    <3> QED BY <1>4, <1>7, <3>2
  <2> QED BY <2>1, <2>2
<1>9. IdOf(next_id, count, n + 1, size) = IdOf(id, d, (k + n) + 1, size)
  <2>1. PICK x \in Nat : x = n + 1 /\ x > 0 /\ k + x = (k + n) + 1
    OBVIOUS
  <2>2. IdOf(next_id, count, x, size) = IdOf(id, d, k + x, size)
    BY <1>3, <2>1
  <2> QED BY <2>1, <2>2
<1>10. (count + n) % size = (d + (k + n)) % size
  <2>1. PICK x \in Nat : x = d + k /\ x + n = d + (k + n)
    OBVIOUS
  <2>2. ((x % size) + n) % size = (x + n) % size
    BY DivisionGoesOn
  <2> QED BY <1>2, <2>1, <2>2
<1> QED BY <1>1, <1>7, <1>8, <1>9, <1>10 DEF RowAt

(* Items leave the front of a row. *)
LEMMA RowTaken ==
  ASSUME NEW part, NEW size \in Nat, NEW id, NEW d \in Nat, NEW next_id, NEW count,
         NEW link \in Seq(SymbolType), RowAt(link, part, size, id, d, next_id, count),
         NEW t \in 0 .. Len(link)
  PROVE  RowAt(From(link, t), part, size, id, d + t, next_id, count)
<1>1. PICK k \in Nat : k = Len(link)
  BY LenProperties
<1>2. /\ Len(From(link, t)) = k - t
      /\ \A i \in 1 .. k - t : From(link, t)[i] = link[i + t]
  BY <1>1, FromProperties
<1>3. ASSUME NEW i \in 1 .. k - t
      PROVE  From(link, t)[i] = RowItem(part, size, id, d + t, i)
  <2>1. i + t \in 1 .. k /\ (d + (i + t)) - 1 = ((d + t) + i) - 1
    BY <1>1
  <2>2. link[i + t] = RowItem(part, size, id, d, i + t)
    BY <1>1, <2>1 DEF RowAt
  <2>3. RowItem(part, size, id, d, i + t) = RowItem(part, size, id, d + t, i)
    BY <2>1 DEF RowItem, IdOf
  <2> QED BY <1>2, <2>2, <2>3
<1>4. (d + (k + 1)) - 1 = ((d + t) + ((k - t) + 1)) - 1 /\ d + k = (d + t) + (k - t)
  BY <1>1
<1>5. IdOf(id, d, k + 1, size) = IdOf(id, d + t, (k - t) + 1, size)
  BY <1>4 DEF IdOf
<1> QED BY <1>1, <1>2, <1>3, <1>4, <1>5 DEF RowAt

(* A packet of a row is done: the next one begins. *)
LEMMA RowTurn ==
  ASSUME NEW part, NEW size \in Nat, size > 0, NEW id \in Ids, NEW next_id, NEW count,
         NEW link \in Seq(SymbolType), RowAt(link, part, size, id, size, next_id, count)
  PROVE  RowAt(link, part, size, NextId(id), 0, next_id, count)
<1>1. PICK k \in Nat : k = Len(link)
  BY LenProperties
<1>2. \A i \in Nat : i > 0 =>
         /\ IdOf(id, size, i, size) = IdOf(NextId(id), 0, i, size)
         /\ RowItem(part, size, id, size, i) = RowItem(part, size, NextId(id), 0, i)
  BY RowTurns
<1>3. \A i \in 1 .. k : link[i] = RowItem(part, size, NextId(id), 0, i)
  BY <1>1, <1>2 DEF RowAt
<1>4. next_id = IdOf(NextId(id), 0, k + 1, size)
  <2>1. PICK x \in Nat : x = k + 1 /\ x > 0
    OBVIOUS
  <2>2. next_id = IdOf(id, size, x, size)
    BY <1>1, <2>1 DEF RowAt
  <2> QED BY <1>2, <2>1, <2>2
<1>5. count = (0 + k) % size
  <2>1. (size + k) % size = k % size
    BY TurnOver, ZenonT(60)
  <2>2. 0 + k = k
    OBVIOUS
  <2> QED BY <1>1, <2>1, <2>2 DEF RowAt
<1> QED BY <1>1, <1>3, <1>4, <1>5 DEF RowAt

(* Zeros are a row too, without identities. *)
MoreZeros(count, n) == [i \in 1 .. n |-> ZeroItem(count, i)]

(* A row of zeros grows by what its source makes. *)
LEMMA ZerosGrow ==
  ASSUME NEW d \in Nat, NEW count,
         NEW link \in Seq(SymbolType), ZerosAt(link, d, count), NEW n \in Nat
  PROVE  /\ link \o MoreZeros(count, n) \in Seq(SymbolType)
         /\ Len(link \o MoreZeros(count, n)) = Len(link) + n
         /\ ZerosAt(link \o MoreZeros(count, n), d, (count + n) % FlushSize)
<1>0. PICK more : more = MoreZeros(count, n) /\ more = [i \in 1 .. n |-> ZeroItem(count, i)]
  BY DEF MoreZeros
<1>1. PICK k \in Nat : k = Len(link)
  BY LenProperties
<1>2. PICK x \in Nat : x = d + k
  OBVIOUS
<1>3. count = x % FlushSize /\ count \in Nat /\ FlushSize \in Nat /\ FlushSize > 0
  <2>1. FlushSize \in Nat /\ FlushSize > 0
    BY Sizes
  <2>2. x % FlushSize \in Nat
    BY <2>1, DivisionOf
  <2> QED BY <1>1, <1>2, <2>1, <2>2 DEF ZerosAt
<1>4. \A b \in Nat : ((x % FlushSize) + b) % FlushSize = (x + b) % FlushSize
  BY <1>3, DivisionGoesOn, ZenonT(60)
<1>5. ASSUME NEW i \in 1 .. n
      PROVE  more[i] = ZeroItem(d, k + i) /\ more[i] \in SymbolType
  <2>1. PICK b \in Nat : b = i - 1
    OBVIOUS
  <2>2. (count + i) - 1 = count + b /\ (d + (k + i)) - 1 = x + b
    BY <1>2, <1>3, <2>1
  <2>3. (count + b) % FlushSize = (x + b) % FlushSize
    BY <1>3, <1>4
  <2>4. more[i] = ZeroItem(count, i)
    BY <1>0
  <2>5. more[i] = ZeroItem(d, k + i)
    <3>1. ((count + i) - 1) % FlushSize = ((d + (k + i)) - 1) % FlushSize
      BY <2>2, <2>3
    <3>2. ZeroItem(count, i)
            = [of |-> Zero, bits |-> IF ((count + i) - 1) % FlushSize = 0 THEN FlushSize ELSE 0]
      BY <1>3 DEF ZeroItem
    <3>3. ZeroItem(d, k + i)
            = [of |-> Zero,
               bits |-> IF ((d + (k + i)) - 1) % FlushSize = 0 THEN FlushSize ELSE 0]
      BY DEF ZeroItem
    <3> QED BY <2>4, <3>1, <3>2, <3>3
  <2>6. more[i] \in SymbolType
    BY <2>4, <1>3, Sizes DEF ZeroItem, SymbolType, Zero
  <2> QED BY <2>5, <2>6
<1>6. more \in Seq(SymbolType) /\ Len(more) = n
  <2>1. more \in [1 .. n -> SymbolType]
    BY <1>0, <1>5
  <2> QED BY <2>1, FunctionIsSeq
<1>7. /\ link \o more \in Seq(SymbolType) /\ Len(link \o more) = k + n
      /\ \A i \in 1 .. k : (link \o more)[i] = link[i]
      /\ \A i \in 1 .. n : (link \o more)[k + i] = more[i]
  <2>1. PICK f \in Seq(SymbolType) : f = more
    BY <1>6
  <2>2. /\ link \o f \in Seq(SymbolType) /\ Len(link \o f) = Len(link) + Len(f)
        /\ \A i \in 1 .. Len(link) : (link \o f)[i] = link[i]
        /\ \A i \in 1 .. Len(f) : (link \o f)[Len(link) + i] = f[i]
    BY JoinProperties
  <2> QED BY <1>1, <1>6, <2>1, <2>2
<1>8. ASSUME NEW i \in 1 .. k + n
      PROVE  (link \o more)[i] = ZeroItem(d, i)
  <2>1. CASE i <= k
    <3>1. i \in 1 .. k
      BY <2>1
    <3> QED BY <1>1, <1>7, <3>1 DEF ZerosAt
  <2>2. CASE ~(i <= k)
    <3>1. PICK l : l = i - k
      OBVIOUS
    <3>2. l \in 1 .. n /\ k + l = i
      BY <2>2, <3>1
    <3> QED BY <1>5, <1>7, <3>2
  <2> QED BY <2>1, <2>2
<1>9. (count + n) % FlushSize = (d + (k + n)) % FlushSize
  <2>1. x + n = d + (k + n)
    BY <1>2
  <2> QED BY <1>3, <1>4, <2>1
<1> QED BY <1>0, <1>1, <1>7, <1>8, <1>9 DEF ZerosAt

(* Zeros that are taken count for the current burst. *)
LEMMA ZerosTaken ==
  ASSUME NEW d \in Nat, NEW count,
         NEW link \in Seq(SymbolType), ZerosAt(link, d, count),
         NEW t \in 0 .. Len(link)
  PROVE  ZerosAt(From(link, t), d + t, count)
<1>1. PICK k \in Nat : k = Len(link)
  BY LenProperties
<1>2. /\ Len(From(link, t)) = k - t
      /\ \A i \in 1 .. k - t : From(link, t)[i] = link[i + t]
  BY <1>1, FromProperties
<1>3. ASSUME NEW i \in 1 .. k - t
      PROVE  From(link, t)[i] = ZeroItem(d + t, i)
  <2>1. i + t \in 1 .. k /\ (d + (i + t)) - 1 = ((d + t) + i) - 1
    BY <1>1
  <2>2. link[i + t] = ZeroItem(d, i + t)
    BY <1>1, <2>1 DEF ZerosAt
  <2>3. ZeroItem(d, i + t) = ZeroItem(d + t, i)
    BY <2>1 DEF ZeroItem
  <2> QED BY <1>2, <2>2, <2>3
<1>4. d + k = (d + t) + (k - t)
  BY <1>1
<1> QED BY <1>1, <1>2, <1>3, <1>4 DEF ZerosAt

(* After all the zeros of a burst come those of the next one. *)
LEMMA ZerosTurn ==
  ASSUME NEW count, NEW link \in Seq(SymbolType), ZerosAt(link, FlushSize, count)
  PROVE  ZerosAt(link, 0, count)
<1>1. PICK k \in Nat : k = Len(link)
  BY LenProperties
<1>2. FlushSize \in Nat /\ FlushSize > 0
  BY Sizes
<1>3. \A b \in Nat : (FlushSize + b) % FlushSize = b % FlushSize
  BY <1>2, TurnOver, ZenonT(60)
<1>4. ASSUME NEW i \in 1 .. k
      PROVE  link[i] = ZeroItem(0, i)
  <2>1. PICK b \in Nat : b = i - 1
    OBVIOUS
  <2>2. (FlushSize + i) - 1 = FlushSize + b /\ (0 + i) - 1 = b
    BY <1>2, <2>1
  <2>3. link[i] = ZeroItem(FlushSize, i)
    BY <1>1 DEF ZerosAt
  <2>4. (FlushSize + b) % FlushSize = b % FlushSize
    BY <1>3
  <2> QED BY <2>2, <2>3, <2>4 DEF ZeroItem
<1>5. count = (0 + k) % FlushSize
  <2>1. count = (FlushSize + k) % FlushSize
    BY <1>1 DEF ZerosAt
  <2>2. (FlushSize + k) % FlushSize = k % FlushSize /\ 0 + k = k
    BY <1>3
  <2> QED BY <2>1, <2>2
<1> QED BY <1>1, <1>4, <1>5 DEF ZerosAt

-----------------------------------------------------------------------------
(* The sources.                                                            *)

(* The tags that a stream of packets of size items leaves with.            *)
LEMMA TagsOfStream ==
  ASSUME NEW size \in Nat, size > 0, NEW count \in 0 .. size - 1, NEW n \in Nat,
         NEW i \in 1 .. n
  PROVE  LengthTags(count, n, size)[i] = IF (count + i - 1) % size = 0 THEN size ELSE 0
<1>1. PICK b \in Nat : b = i - 1
  OBVIOUS
<1>2. PICK first : first = FirstOfPacket(count, size)
  OBVIOUS
<1>3. LengthTags(count, n, size)[i] = IF b >= first /\ (b - first) % size = 0 THEN size ELSE 0
  BY <1>1, <1>2 DEF LengthTags
<1>4. (count + i) - 1 = count + b
  BY <1>1
<1>5. CASE count = 0
  <2>1. first = 0 /\ b - first = b /\ count + b = b
    BY <1>2, <1>5 DEF FirstOfPacket
  <2> QED BY <1>3, <1>4, <2>1
<1>6. CASE count # 0
  <2>1. first = size - count /\ first \in Nat
    BY <1>2, <1>6 DEF FirstOfPacket
  <2>2. CASE b >= first
    <3>1. PICK x \in Nat : x = b - first
      BY <2>1, <2>2
    <3>2. count + b = size + x
      BY <2>1, <3>1
    <3>3. (size + x) % size = x % size
      BY TurnOver
    <3> QED BY <1>3, <1>4, <2>2, <3>1, <3>2, <3>3
  <2>3. CASE ~(b >= first)
    <3>1. PICK x \in Nat : x = count + b /\ x < size /\ x # 0
      BY <1>6, <2>1, <2>3
    <3>2. x % size = x
      BY <3>1, NoTurn
    <3> QED BY <1>3, <1>4, <2>3, <3>1, <3>2
  <2> QED BY <2>2, <2>3
<1> QED BY <1>5, <1>6

(* A call of the source of the syncword. *)
Published(space, out_items, tagged) ==
  /\ out_items = IF SYNC!Ends(space) THEN SYNC!RestItems(space) \o SYNC!LoopItems(space)
                 ELSE SYNC!RestItems(space)
  /\ SYNC!ProcessBulk(space, out_items, tagged)

(* What it publishes. *)
LEMMA SyncwordPublishes ==
  ASSUME sync_position \in 0 .. SyncwordSize - 1, NEW space \in Nat, space > 0,
         NEW out_items, NEW tagged, Published(space, out_items, tagged)
  PROVE  /\ out_items \in Seq(Nat) /\ Len(out_items) = space
         /\ \A i \in 1 .. space :
              /\ out_items[i] = ((sync_position + i - 1) % SyncwordSize) + 1
              /\ i \in tagged <=> (sync_position + i - 1) % SyncwordSize = 0
         /\ sync_position' = (sync_position + space) % SyncwordSize
<1>1. PICK S \in Nat : S = SyncwordSize /\ S > 0
  BY Sizes
<1>2. PICK pos \in Nat : pos = sync_position /\ pos < S
  BY <1>1
<1>3. PICK rest \in Nat : rest = SYNC!Rest(space) /\ rest > 0 /\ rest <= space /\ pos + rest <= S
                          /\ (rest = space \/ pos + rest = S)
  <2>1. SYNC!Rest(space) = IF S - pos <= space THEN S - pos ELSE space
    BY <1>1, <1>2 DEF SYNC!Rest, SYNC!Lesser
  <2>2. CASE S - pos <= space
    <3>1. S - pos \in Nat /\ S - pos > 0 /\ pos + (S - pos) = S
      BY <1>2
    <3> QED BY <2>1, <2>2, <3>1
  <2>3. CASE ~(S - pos <= space)
    BY <1>2, <2>1, <2>3
  <2> QED BY <2>2, <2>3
<1>4. SYNC!RestItems(space) = [i \in 1 .. rest |-> pos + i]
  BY <1>2, <1>3 DEF SYNC!RestItems
<1>5. \A i \in 1 .. rest : i \in SYNC!RestTags(space) <=> pos + i = 1
  BY <1>2, <1>3 DEF SYNC!RestTags
<1>6. SYNC!RestTags(space) \subseteq 1 .. rest
  BY <1>2, <1>3 DEF SYNC!RestTags
<1>7. SYNC!RestItems(space) \in Seq(Nat) /\ Len(SYNC!RestItems(space)) = rest
  <2>1. [i \in 1 .. rest |-> pos + i] \in [1 .. rest -> Nat]
    OBVIOUS
  <2> QED BY <1>4, <2>1, FunctionIsSeq
<1>8. ASSUME NEW i \in 1 .. rest
      PROVE  /\ (sync_position + i - 1) % SyncwordSize = (pos + i) - 1
             /\ pos + i = ((sync_position + i - 1) % SyncwordSize) + 1
             /\ i \in SYNC!RestTags(space) <=> (sync_position + i - 1) % SyncwordSize = 0
  <2>1. PICK x \in Nat : x = (pos + i) - 1 /\ x < S
    BY <1>3
  <2>2. x % S = x
    BY <2>1, NoTurn
  <2> QED BY <1>1, <1>2, <1>5, <2>1, <2>2
<1>9. CASE ~SYNC!Ends(space)
  <2>1. rest = space /\ pos + space < S
    BY <1>1, <1>2, <1>3, <1>9 DEF SYNC!Ends
  <2>2. /\ out_items = SYNC!RestItems(space) /\ tagged = SYNC!RestTags(space)
        /\ sync_position' = pos + space
    BY <1>2, <1>3, <1>9, <2>1 DEF Published, SYNC!ProcessBulk
  <2>3. (pos + space) % S = pos + space
    <3>1. PICK x \in Nat : x = pos + space /\ x < S
      BY <2>1
    <3>2. x % S = x
      BY <3>1, NoTurn
    <3> QED BY <3>1, <3>2
  <2>4. sync_position' = (sync_position + space) % SyncwordSize
    BY <1>1, <1>2, <2>2, <2>3
  <2>5. \A i \in 1 .. rest : out_items[i] = pos + i
    BY <1>4, <2>2
  <2> QED BY <1>7, <1>8, <2>1, <2>2, <2>4, <2>5
<1>10. CASE SYNC!Ends(space)
  <2>1. pos + rest = S
    BY <1>1, <1>2, <1>3, <1>10 DEF SYNC!Ends
  <2>2. PICK more \in Nat : more = space - rest /\ space = rest + more
    BY <1>3
  <2>3. PICK full, part \in Nat : /\ full = more \div S /\ part = more % S /\ part < S
                                 /\ more = (full * S) + part
    BY <1>1, DivisionOf
  <2>4. /\ SYNC!FullLoops(space) = full /\ SYNC!Partial(space) = part
        /\ SYNC!LoopItems(space) = [i \in 1 .. more |-> ((i - 1) % S) + 1]
    BY <1>1, <1>3, <2>2, <2>3 DEF SYNC!FullLoops, SYNC!Partial, SYNC!LoopItems
  <2>5. /\ out_items = SYNC!RestItems(space) \o SYNC!LoopItems(space)
        /\ tagged = SYNC!RestTags(space) \cup SYNC!LoopTags(space)
        /\ sync_position' = part
    BY <1>10, <2>4 DEF Published, SYNC!ProcessBulk
  <2>6. SYNC!LoopItems(space) \in Seq(Nat) /\ Len(SYNC!LoopItems(space)) = more
    <3>1. ASSUME NEW i \in 1 .. more
          PROVE  ((i - 1) % S) + 1 \in Nat
      <4>1. PICK b \in Nat : b = i - 1
        OBVIOUS
      <4>2. b % S \in Nat
        BY <1>1, DivisionOf
      <4> QED BY <4>1, <4>2
    <3>2. [i \in 1 .. more |-> ((i - 1) % S) + 1] \in [1 .. more -> Nat]
      BY <3>1
    <3> QED BY <2>4, <3>2, FunctionIsSeq
  <2>7. /\ out_items \in Seq(Nat) /\ Len(out_items) = rest + more
        /\ \A i \in 1 .. rest : out_items[i] = SYNC!RestItems(space)[i]
        /\ \A i \in 1 .. more : out_items[rest + i] = SYNC!LoopItems(space)[i]
    <3>0. PICK N : N = Nat
      OBVIOUS
    <3>1. PICK front \in Seq(N) : front = SYNC!RestItems(space) /\ Len(front) = rest
      BY <1>7, <3>0
    <3>2. PICK loops \in Seq(N) : loops = SYNC!LoopItems(space) /\ Len(loops) = more
      BY <2>6, <3>0
    <3>3. /\ front \o loops \in Seq(N) /\ Len(front \o loops) = Len(front) + Len(loops)
          /\ \A i \in 1 .. Len(front) : (front \o loops)[i] = front[i]
          /\ \A i \in 1 .. Len(loops) : (front \o loops)[Len(front) + i] = loops[i]
      BY JoinProperties
    <3> QED BY <2>5, <3>0, <3>1, <3>2, <3>3
  <2>8. sync_position' = (sync_position + space) % SyncwordSize
    <3>1. (S + more) % S = more % S
      BY <1>1, TurnOver
    <3>2. pos + space = S + more
      BY <2>1, <2>2
    <3> QED BY <1>1, <1>2, <2>3, <2>5, <3>1, <3>2
  <2>9. SYNC!LoopTags(space) =
          {rest + (loop * S) + 1 : loop \in 0 .. full - 1}
            \cup {x \in {rest + (full * S) + 1} : 1 <= part}
    <3>1. {rest + loop * S + t : loop \in 0 .. full - 1, t \in {1}}
            = {rest + (loop * S) + 1 : loop \in 0 .. full - 1}
      OBVIOUS
    <3>2. {rest + full * S + t : t \in {t \in {1} : t <= part}}
            = {x \in {rest + (full * S) + 1} : 1 <= part}
      OBVIOUS
    <3> QED BY <1>1, <1>3, <2>4, <3>1, <3>2 DEF SYNC!LoopTags
  <2>10. ASSUME NEW i \in 1 .. more
         PROVE  rest + i \in SYNC!LoopTags(space) <=> (i - 1) % S = 0
    <3>1. PICK b \in Nat : b = i - 1 /\ b < more
      OBVIOUS
    <3>2. PICK u, v \in Nat : u = b \div S /\ v = b % S /\ v < S /\ b = (u * S) + v
      BY <1>1, DivisionOf
    <3>3. ASSUME v = 0
          PROVE  rest + i \in SYNC!LoopTags(space)
      <4>1. rest + i = rest + (u * S) + 1
        BY <3>1, <3>2, <3>3
      <4>2. CASE u < full
        <5>1. u \in 0 .. full - 1
          BY <4>2
        <5> QED BY <2>9, <4>1, <5>1
      <4>3. CASE u = full
        <5>1. 1 <= part
          BY <2>3, <3>1, <3>2, <3>3, <4>3
        <5> QED BY <2>9, <4>1, <4>3, <5>1
      <4>4. ~(u > full)
        <5>1. SUFFICES ASSUME u > full PROVE FALSE
          OBVIOUS
        <5>2. PICK w \in Nat : u = full + 1 + w
          <6>1. u - full - 1 \in Nat /\ u = full + 1 + (u - full - 1)
            BY <5>1
          <6> QED BY <6>1
        <5>3. u * S = (full * S) + S + (w * S)
          BY <5>2
        <5>4. w * S \in Nat /\ u * S \in Nat /\ full * S \in Nat
          OBVIOUS
        <5>5. PICK us, fs, ws \in Nat : us = u * S /\ fs = full * S /\ ws = w * S
          BY <5>4
        <5>6. us = fs + S + ws /\ us < fs + part
          BY <2>3, <3>1, <3>2, <5>3, <5>5
        <5> QED BY <2>3, <5>6
      <4> QED BY <4>2, <4>3, <4>4
    <3>4. ASSUME rest + i \in SYNC!LoopTags(space)
          PROVE  v = 0
      <4>1. PICK loop \in Nat : rest + i = rest + (loop * S) + 1
        <5>1. CASE rest + i \in {rest + (loop * S) + 1 : loop \in 0 .. full - 1}
          <6>1. PICK loop \in 0 .. full - 1 : rest + i = rest + (loop * S) + 1
            BY <5>1
          <6>2. loop \in Nat
            OBVIOUS
          <6> QED BY <6>1, <6>2
        <5>2. CASE rest + i = rest + (full * S) + 1
          BY <5>2
        <5> QED BY <2>9, <3>4, <5>1, <5>2
      <4>2. b = (loop * S) + 0
        <5>1. PICK ls \in Nat : ls = loop * S
          OBVIOUS
        <5>2. i = ls + 1
          BY <4>1, <5>1
        <5> QED BY <3>1, <5>1, <5>2
      <4>3. b % S = 0
        BY <1>1, <4>2, DivisionIs
      <4> QED BY <3>2, <4>3
    <3> QED BY <3>1, <3>2, <3>3, <3>4
  <2>11. \A i \in 1 .. more : rest + i \notin SYNC!RestTags(space)
    BY <1>6
  <2>12. ASSUME NEW i \in 1 .. rest
         PROVE  i \notin SYNC!LoopTags(space)
    <3>1. \A loop \in Nat : loop * S \in Nat
      OBVIOUS
    <3>2. \A loop \in Nat : i # rest + (loop * S) + 1
      BY <3>1
    <3>3. \A loop \in 0 .. full - 1 : loop \in Nat
      OBVIOUS
    <3> QED BY <2>9, <3>2, <3>3
  <2>13. ASSUME NEW i \in 1 .. more
         PROVE  (sync_position + (rest + i) - 1) % SyncwordSize = (i - 1) % S
    <3>1. PICK b \in Nat : b = i - 1
      OBVIOUS
    <3>2. (sync_position + (rest + i)) - 1 = S + b
      BY <1>2, <2>1, <3>1
    <3>3. (S + b) % S = b % S
      BY <1>1, TurnOver
    <3> QED BY <1>1, <3>1, <3>2, <3>3
  <2>14. ASSUME NEW i \in 1 .. space
         PROVE  /\ out_items[i] = ((sync_position + i - 1) % SyncwordSize) + 1
                /\ i \in tagged <=> (sync_position + i - 1) % SyncwordSize = 0
    <3>1. CASE i <= rest
      <4>1. i \in 1 .. rest
        BY <3>1
      <4> QED BY <1>4, <1>8, <2>5, <2>7, <2>12, <4>1
    <3>2. CASE ~(i <= rest)
      <4>1. PICK l \in 1 .. more : i = rest + l
        <5>1. i - rest \in 1 .. more /\ i = rest + (i - rest)
          BY <2>2, <3>2
        <5> QED BY <5>1
      <4>2. out_items[rest + l] = ((l - 1) % S) + 1
        BY <2>4, <2>7
      <4>3. rest + l \in tagged <=> (l - 1) % S = 0
        BY <2>5, <2>10, <2>11
      <4> QED BY <2>13, <4>1, <4>2, <4>3
    <3> QED BY <3>1, <3>2
  <2> QED BY <2>2, <2>7, <2>8, <2>14
<1> QED BY <1>9, <1>10

(* The places are integers, a span apart. *)
LEMMA PlaceTypes ==
  ASSUME NEW form \in Forms, NEW list \in Seq(Packets), NEW at, Places(form, list, at)
  PROVE  /\ Len(list) \in Nat
         /\ \A k \in 1 .. Len(list) + 1 : at[k] \in Int
         /\ \A k \in 1 .. Len(list) :
              /\ list[k] \in Packets
              /\ Span(form, list[k]) \in Nat /\ Span(form, list[k]) > 0
              /\ at[k] \in Int /\ at[k + 1] \in Int
              /\ at[k + 1] = at[k] + Span(form, list[k])
<1>1. Len(list) \in Nat
  BY LenProperties
<1>2. \A k \in 1 .. Len(list) + 1 : at[k] \in Int
  BY DEF Places
<1>3. ASSUME NEW k \in 1 .. Len(list)
      PROVE  /\ list[k] \in Packets
             /\ Span(form, list[k]) \in Nat /\ Span(form, list[k]) > 0
             /\ at[k] \in Int /\ at[k + 1] \in Int
             /\ at[k + 1] = at[k] + Span(form, list[k])
  <2>1. list[k] \in Packets
    BY ElementOfSeq
  <2>2. Span(form, list[k]) \in Nat /\ Span(form, list[k]) > 0
    BY <2>1, Spans
  <2>3. k \in 1 .. Len(list) + 1 /\ k + 1 \in 1 .. Len(list) + 1
    BY <1>1
  <2>4. at[k + 1] = at[k] + Span(form, list[k])
    BY DEF Places
  <2> QED BY <1>2, <2>1, <2>2, <2>3, <2>4
<1> QED BY <1>1, <1>2, <1>3

(* Items leave the front of a link. *)
LEMMA ItemsLeave ==
  ASSUME NEW form \in Forms, NEW list \in Seq(Packets), NEW at, Places(form, list, at),
         NEW S, NEW c \in Nat,
         NEW next, next = [k \in 1 .. Len(list) + 1 |-> at[k] - c]
  PROVE  /\ Places(form, list, next)
         /\ \A link \in Seq(S) :
              c <= Len(link) /\ Holds(form, link, list, at)
                => Holds(form, From(link, c), list, next)
<1>1. /\ Len(list) \in Nat
      /\ \A k \in 1 .. Len(list) + 1 : at[k] \in Int
  BY PlaceTypes
<1>2. \A k \in 1 .. Len(list) + 1 : next[k] = at[k] - c /\ next[k] \in Int
  BY <1>1
<1>3. Places(form, list, next)
  <2>1. next \in [1 .. Len(list) + 1 -> Int]
    BY <1>1
  <2>2. ASSUME NEW k \in 1 .. Len(list)
        PROVE  next[k + 1] = next[k] + Span(form, list[k])
    <3>1. /\ Span(form, list[k]) \in Nat /\ at[k] \in Int
          /\ at[k + 1] = at[k] + Span(form, list[k])
      BY PlaceTypes
    <3>2. k \in 1 .. Len(list) + 1 /\ k + 1 \in 1 .. Len(list) + 1
      BY <1>1
    <3>3. next[k] = at[k] - c /\ next[k + 1] = at[k + 1] - c
      BY <1>2, <3>2
    <3>4. \A x, y, z \in Int : (x + y) - z = (x - z) + y
      OBVIOUS
    <3> QED BY <3>1, <3>3, <3>4
  <2>3. ASSUME NEW k \in 1 .. Len(list) + 1, NEW l \in 1 .. Len(list) + 1, k <= l
        PROVE  next[k] <= next[l]
    <3>1. at[k] <= at[l]
      BY <2>3 DEF Places
    <3> QED BY <1>1, <1>2, <3>1
  <2> QED BY <2>1, <2>2, <2>3 DEF Places
<1>4. ASSUME NEW link \in Seq(S), c <= Len(link), Holds(form, link, list, at)
      PROVE  Holds(form, From(link, c), list, next)
  <2>1. Len(link) \in Nat /\ c \in 0 .. Len(link)
    BY <1>4, LenProperties
  <2>2. /\ Len(From(link, c)) = Len(link) - c
        /\ \A i \in 1 .. Len(link) - c : From(link, c)[i] = link[i + c]
    BY <2>1, FromProperties
  <2>3. ASSUME NEW k \in 1 .. Len(list), NEW j \in 1 .. Span(form, list[k]),
               next[k] + j \in 1 .. Len(From(link, c))
        PROVE  From(link, c)[next[k] + j] = Piece(form, list[k], j)
    <3>1. at[k] \in Int /\ next[k] = at[k] - c /\ Span(form, list[k]) \in Nat
      <4>1. k \in 1 .. Len(list) + 1
        BY <1>1
      <4> QED BY <1>2, <4>1, PlaceTypes
    <3>2. PICK i : i = next[k] + j
      OBVIOUS
    <3>3. i \in 1 .. Len(link) - c /\ i + c = at[k] + j
      <4>1. i \in 1 .. Len(link) - c
        BY <2>2, <2>3, <3>2
      <4>2. PICK x \in Int : x = at[k]
        BY <3>1
      <4>3. i = (x - c) + j /\ j \in Int /\ c \in Int
        BY <3>1, <3>2, <4>2
      <4>4. i + c = x + j
        BY <4>3
      <4> QED BY <4>1, <4>2, <4>4
    <3>4. at[k] + j \in 1 .. Len(link)
      BY <2>1, <3>3
    <3>5. link[at[k] + j] = Piece(form, list[k], j)
      BY <1>4, <3>4 DEF Holds
    <3> QED BY <2>2, <3>2, <3>3, <3>5
  <2> QED BY <2>3 DEF Holds
<1> QED BY <1>3, <1>4

(* A packet comes behind the others, without items so far. *)
LEMMA PacketComes ==
  ASSUME NEW form \in Forms, NEW list \in Seq(Packets), NEW at, Places(form, list, at),
         NEW S, NEW p \in Packets, NEW next,
         next = [k \in 1 .. Len(list) + 2 |->
                   IF k = Len(list) + 2 THEN at[Len(list) + 1] + Span(form, p) ELSE at[k]]
  PROVE  /\ Places(form, Append(list, p), next)
         /\ \A link \in Seq(S) :
              Len(link) <= at[Len(list) + 1] /\ Holds(form, link, list, at)
                => Holds(form, link, Append(list, p), next)
<1>1. /\ Len(list) \in Nat
      /\ \A k \in 1 .. Len(list) + 1 : at[k] \in Int
  BY PlaceTypes
<1>2. /\ Append(list, p) \in Seq(Packets) /\ Len(Append(list, p)) = Len(list) + 1
      /\ \A i \in 1 .. Len(list) : Append(list, p)[i] = list[i]
      /\ Append(list, p)[Len(list) + 1] = p
  BY AppendOne
<1>3. Span(form, p) \in Nat /\ Span(form, p) > 0
  BY Spans
<1>4. PICK n \in Nat : n = Len(list)
  BY <1>1
<1>5. PICK all : all = Append(list, p)
  OBVIOUS
<1>6. /\ \A k \in 1 .. n + 1 : next[k] = at[k] /\ next[k] \in Int
      /\ next[n + 2] = at[n + 1] + Span(form, p) /\ next[n + 2] \in Int
      /\ at[n + 1] \in Int /\ next[n + 1] = at[n + 1]
  <2>1. n + 1 \in 1 .. n + 1 /\ n + 2 \in 1 .. n + 2 /\ n + 1 \in 1 .. n + 2
    OBVIOUS
  <2>2. \A k \in 1 .. n + 1 : k \in 1 .. n + 2 /\ k # n + 2
    OBVIOUS
  <2>3. \A k \in 1 .. n + 1 : next[k] = at[k]
    BY <1>4, <2>2
  <2>4. next[n + 2] = at[n + 1] + Span(form, p)
    BY <1>4, <2>1
  <2>5. at[n + 1] \in Int
    BY <1>1, <1>4, <2>1
  <2> QED BY <1>1, <1>3, <1>4, <2>1, <2>3, <2>4, <2>5
<1>7. \A k \in 1 .. n : all[k] = list[k]
  BY <1>2, <1>4, <1>5
<1>8. all[n + 1] = p /\ Len(all) = n + 1
  BY <1>2, <1>4, <1>5
<1>9. Places(form, all, next)
  <2>1. next \in [1 .. n + 2 -> Int]
    <3>1. \A k \in 1 .. n + 2 : k \in 1 .. n + 1 \/ k = n + 2
      OBVIOUS
    <3> QED BY <1>4, <1>6, <3>1
  <2>2. ASSUME NEW k \in 1 .. n + 1
        PROVE  next[k + 1] = next[k] + Span(form, all[k])
    <3>1. CASE k = n + 1
      BY <1>6, <1>8, <3>1
    <3>2. CASE k # n + 1
      <4>1. k \in 1 .. n /\ k + 1 \in 1 .. n + 1
        BY <3>2
      <4>2. at[k + 1] = at[k] + Span(form, list[k])
        BY <1>4, <4>1, PlaceTypes
      <4> QED BY <1>6, <1>7, <4>1, <4>2
    <3> QED BY <3>1, <3>2
  <2>3. ASSUME NEW k \in 1 .. n + 2, NEW l \in 1 .. n + 2, k <= l
        PROVE  next[k] <= next[l]
    <3>1. CASE l # n + 2
      <4>1. k \in 1 .. n + 1 /\ l \in 1 .. n + 1
        BY <2>3, <3>1
      <4>2. at[k] <= at[l]
        BY <1>4, <2>3, <4>1 DEF Places
      <4> QED BY <1>6, <4>1, <4>2
    <3>2. CASE l = n + 2 /\ k = n + 2
      BY <1>6, <3>2
    <3>3. CASE l = n + 2 /\ k # n + 2
      <4>1. k \in 1 .. n + 1 /\ n + 1 \in 1 .. n + 1 /\ k <= n + 1
        BY <3>3
      <4>2. at[k] <= at[n + 1]
        BY <1>4, <4>1 DEF Places
      <4>3. at[k] \in Int /\ next[k] = at[k]
        BY <1>1, <1>4, <1>6, <4>1
      <4>4. \A x, y, z \in Int : z > 0 /\ x <= y => x <= y + z
        OBVIOUS
      <4> QED BY <1>3, <1>6, <3>3, <4>2, <4>3, <4>4
    <3> QED BY <3>1, <3>2, <3>3
  <2>4. n + 1 + 1 = n + 2
    OBVIOUS
  <2> QED BY <1>8, <2>1, <2>2, <2>3, <2>4 DEF Places
<1>10. ASSUME NEW link \in Seq(S), Len(link) <= at[n + 1], Holds(form, link, list, at)
       PROVE  Holds(form, link, all, next)
  <2>1. ASSUME NEW k \in 1 .. n + 1, NEW j \in 1 .. Span(form, all[k]),
               next[k] + j \in 1 .. Len(link)
        PROVE  link[next[k] + j] = Piece(form, all[k], j)
    <3>1. CASE k = n + 1
      <4>1. Len(link) \in Nat /\ Span(form, all[k]) \in Nat
        BY <1>3, <1>8, <3>1, LenProperties
      <4> QED BY <1>6, <1>10, <2>1, <3>1, <4>1
    <3>2. CASE k # n + 1
      <4>1. k \in 1 .. n /\ k \in 1 .. n + 1
        BY <3>2
      <4>2. next[k] = at[k] /\ all[k] = list[k]
        BY <1>6, <1>7, <4>1
      <4> QED BY <1>4, <1>10, <2>1, <4>1, <4>2 DEF Holds
    <3> QED BY <3>1, <3>2
  <2> QED BY <1>8, <2>1 DEF Holds
<1> QED BY <1>4, <1>5, <1>9, <1>10

(* The first packet leaves the list. *)
LEMMA PacketLeaves ==
  ASSUME NEW form \in Forms, NEW list \in Seq(Packets), NEW at, Places(form, list, at),
         Len(list) > 0, NEW next, next = [k \in 1 .. Len(list) |-> at[k + 1]]
  PROVE  /\ Places(form, Tail(list), next)
         /\ \A link : Holds(form, link, list, at) => Holds(form, link, Tail(list), next)
<1>1. /\ Len(list) \in Nat
      /\ \A k \in 1 .. Len(list) + 1 : at[k] \in Int
  BY PlaceTypes
<1>2. /\ Tail(list) \in Seq(Packets) /\ Len(Tail(list)) = Len(list) - 1
      /\ \A i \in 1 .. Len(list) - 1 : Tail(list)[i] = list[i + 1]
  BY HeadAndTail
<1>3. PICK n \in Nat : n = Len(list) - 1 /\ Len(list) = n + 1
  BY <1>1
<1>4. PICK rest : rest = Tail(list)
  OBVIOUS
<1>5. Len(rest) = n /\ \A k \in 1 .. n : rest[k] = list[k + 1]
  BY <1>2, <1>3, <1>4
<1>6. \A k \in 1 .. n + 1 : next[k] = at[k + 1] /\ k + 1 \in 1 .. Len(list) + 1
  BY <1>3
<1>7. Places(form, rest, next)
  <2>1. next \in [1 .. n + 1 -> Int]
    BY <1>1, <1>3, <1>6
  <2>2. ASSUME NEW k \in 1 .. n
        PROVE  next[k + 1] = next[k] + Span(form, rest[k])
    <3>1. k \in 1 .. n + 1 /\ k + 1 \in 1 .. n + 1 /\ k + 1 \in 1 .. Len(list)
      BY <1>3
    <3>2. at[(k + 1) + 1] = at[k + 1] + Span(form, list[k + 1])
      BY <3>1, PlaceTypes
    <3> QED BY <1>5, <1>6, <3>1, <3>2
  <2>3. ASSUME NEW k \in 1 .. n + 1, NEW l \in 1 .. n + 1, k <= l
        PROVE  next[k] <= next[l]
    <3>1. k + 1 \in 1 .. Len(list) + 1 /\ l + 1 \in 1 .. Len(list) + 1 /\ k + 1 <= l + 1
      BY <1>3, <2>3
    <3>2. at[k + 1] <= at[l + 1]
      BY <3>1 DEF Places
    <3> QED BY <1>6, <3>2
  <2> QED BY <1>5, <2>1, <2>2, <2>3 DEF Places
<1>8. ASSUME NEW link, Holds(form, link, list, at)
      PROVE  Holds(form, link, rest, next)
  <2>1. ASSUME NEW k \in 1 .. n, NEW j \in 1 .. Span(form, rest[k]),
               next[k] + j \in 1 .. Len(link)
        PROVE  link[next[k] + j] = Piece(form, rest[k], j)
    <3>1. k \in 1 .. n + 1 /\ k + 1 \in 1 .. Len(list)
      BY <1>3
    <3>2. next[k] = at[k + 1] /\ rest[k] = list[k + 1]
      BY <1>5, <1>6, <3>1
    <3> QED BY <1>8, <2>1, <3>1, <3>2 DEF Holds
  <2> QED BY <1>5, <2>1 DEF Holds
<1> QED BY <1>4, <1>7, <1>8

(* Items of packet k come to the end of a link. *)
LEMMA ItemsCome ==
  ASSUME NEW form \in Forms, NEW list \in Seq(Packets), NEW at, Places(form, list, at),
         NEW S, NEW link \in Seq(S), Holds(form, link, list, at),
         NEW more \in Seq(S), NEW k \in 1 .. Len(list), NEW g \in Nat,
         at[k] + g = Len(link), g + Len(more) <= Span(form, list[k]),
         \A i \in 1 .. Len(more) : more[i] = Piece(form, list[k], g + i)
  PROVE  Holds(form, link \o more, list, at)
<1>1. /\ Len(list) \in Nat /\ Len(link) \in Nat /\ Len(more) \in Nat
      /\ at[k] \in Int /\ Span(form, list[k]) \in Nat
      /\ at[k + 1] \in Int /\ at[k + 1] = at[k] + Span(form, list[k])
  BY PlaceTypes, LenProperties
<1>2. /\ Len(link \o more) = Len(link) + Len(more)
      /\ \A i \in 1 .. Len(link) : (link \o more)[i] = link[i]
      /\ \A i \in 1 .. Len(more) : (link \o more)[Len(link) + i] = more[i]
  BY JoinProperties
<1>3. PICK ak, lk, mr, sk \in Int :
        ak = at[k] /\ lk = Len(link) /\ mr = Len(more) /\ sk = Span(form, list[k])
  BY <1>1
<1>4. ak + g = lk /\ g + mr <= sk /\ at[k + 1] = ak + sk /\ g >= 0 /\ mr >= 0 /\ g \in Int
  BY <1>1, <1>3
<1>5. ASSUME NEW l \in 1 .. Len(list), NEW j \in 1 .. Span(form, list[l]),
             at[l] + j \in 1 .. Len(link) + Len(more)
      PROVE  (link \o more)[at[l] + j] = Piece(form, list[l], j)
  <2>1. /\ at[l] \in Int /\ Span(form, list[l]) \in Nat /\ j \in Nat
        /\ at[l + 1] \in Int /\ at[l + 1] = at[l] + Span(form, list[l])
    BY PlaceTypes
  <2>2. PICK al, sl \in Int : al = at[l] /\ sl = Span(form, list[l])
    BY <2>1
  <2>3. j \in 1 .. sl /\ at[l + 1] = al + sl /\ al + j \in 1 .. lk + mr
    BY <1>3, <1>5, <2>1, <2>2
  <2>4. CASE al + j <= lk
    <3>1. at[l] + j \in 1 .. Len(link)
      BY <1>3, <2>2, <2>3, <2>4
    <3>2. link[at[l] + j] = Piece(form, list[l], j)
      BY <3>1 DEF Holds
    <3> QED BY <1>2, <3>1, <3>2
  <2>5. CASE ~(al + j <= lk)
    <3>1. ~(l < k)
      <4>1. SUFFICES ASSUME l < k PROVE FALSE
        OBVIOUS
      <4>2. l + 1 \in 1 .. Len(list) + 1 /\ k \in 1 .. Len(list) + 1 /\ l + 1 <= k
        BY <1>1, <4>1
      <4>3. al + sl <= ak
        BY <1>3, <2>3, <4>2 DEF Places
      <4> QED BY <1>4, <2>3, <2>5, <4>3
    <3>2. ~(k < l)
      <4>1. SUFFICES ASSUME k < l PROVE FALSE
        OBVIOUS
      <4>2. k + 1 \in 1 .. Len(list) + 1 /\ l \in 1 .. Len(list) + 1 /\ k + 1 <= l
        BY <1>1, <4>1
      <4>3. ak + sk <= al
        BY <1>4, <2>2, <4>2 DEF Places
      <4> QED BY <1>4, <2>3, <4>3
    <3>3. l = k
      BY <1>1, <3>1, <3>2
    <3>4. al = ak /\ sl = sk
      BY <1>3, <2>2, <3>3
    <3>5. PICK i : i = j - g
      OBVIOUS
    <3>6. i \in 1 .. mr /\ g + i = j /\ al + j = lk + i
      BY <1>4, <2>3, <2>5, <3>4, <3>5
    <3>7. (link \o more)[Len(link) + i] = more[i] /\ more[i] = Piece(form, list[k], g + i)
      BY <1>2, <1>3, <3>6
    <3> QED BY <1>3, <2>2, <3>3, <3>6, <3>7
  <2> QED BY <2>4, <2>5
<1> QED BY <1>2, <1>5 DEF Holds
-----------------------------------------------------------------------------
(* The pending packets.                                                    *)

(* A sequence is its first element and the others. *)

-----------------------------------------------------------------------------
(* A set of numbers has a least one. *)
LEMMA Least ==
  ASSUME NEW T, T \subseteq Nat, T # {}
  PROVE  \E x \in T : \A y \in T : x <= y
<1>1. \A x, y : <<x, y>> \in OpToRel(<, Nat) <=> x \in Nat /\ y \in Nat /\ x < y
  BY DEF OpToRel
<1>2. PICK x \in T : \A y \in T : ~(<<y, x>> \in OpToRel(<, Nat))
  BY NatLessThanWellFounded, WFMin
<1>3. ASSUME NEW y \in T
      PROVE  x <= y
  <2>1. x \in Nat /\ y \in Nat
    OBVIOUS
  <2>2. ~(y < x)
    BY <1>1, <1>2, <2>1
  <2> QED BY <2>1, <2>2
<1> QED BY <1>3

(* The packet at a place. *)
LEMMA Located ==
  ASSUME NEW form \in Forms, NEW list \in Seq(Packets), NEW at, Places(form, list, at),
         NEW x \in Int, at[1] <= x, x < at[Len(list) + 1]
  PROVE  \E k \in 1 .. Len(list) : at[k] <= x /\ x < at[k + 1]
<1>1. PICK n \in Nat : n = Len(list)
  BY LenProperties
<1>2. \A k \in 1 .. n + 1 : at[k] \in Int
  BY <1>1, PlaceTypes
<1>3. n > 0
  <2>1. 1 \in 1 .. n + 1 /\ n + 1 \in 1 .. n + 1
    OBVIOUS
  <2>2. at[1] # at[n + 1]
    BY <1>1, <1>2, <2>1
  <2> QED BY <2>2
<1> DEFINE T == {k \in 1 .. n : x < at[k + 1]}
<1>4. n \in T /\ T \subseteq Nat
  BY <1>1, <1>3
<1>5. PICK k \in T : \A l \in T : k <= l
  <2> HIDE DEF T
  <2> QED BY <1>4, Least
<1>6. CASE k = 1
  BY <1>1, <1>5, <1>6
<1>7. CASE k # 1
  <2>1. k - 1 \in 1 .. n /\ (k - 1) + 1 = k /\ k \in 1 .. n + 1
    BY <1>7
  <2>2. k - 1 \notin T
    BY <1>5, <2>1
  <2>3. ~(x < at[k])
    BY <2>1, <2>2
  <2>4. at[k] <= x
    BY <1>2, <2>1, <2>3
  <2> QED BY <1>1, <2>4
<1> QED BY <1>6, <1>7

(* The first of a burst is tagged: a chunk does not go on in the next.     *)
LEMMA ChunkInOne ==
  ASSUME NEW form \in {"symbols", "samples", "scaled"},
         NEW list \in Seq(Packets), NEW at, Places(form, list, at),
         NEW S, NEW link \in Seq(S), Holds(form, link, list, at),
         NEW n \in Nat, n > 0, Chunk(link, n), Len(link) <= at[Len(list) + 1],
         NEW k \in 1 .. Len(list), at[k] <= 0, 0 < at[k + 1]
  PROVE  n <= at[k + 1]
<1>1. SUFFICES ASSUME ~(n <= at[k + 1])
               PROVE  FALSE
  OBVIOUS
<1>2. PICK q, m \in Nat : q = Len(list) /\ m = Len(link)
  BY LenProperties
<1>3. form \in Forms
  BY DEF Forms
<1>4. PICK b \in Int : b = at[k + 1]
  BY <1>3, PlaceTypes
<1>5. n <= m /\ \A i \in 2 .. n : link[i].bits = 0
  BY <1>2 DEF Chunk
<1>6. b + 1 \in 2 .. n /\ b + 1 \in 1 .. m
  BY <1>1, <1>4, <1>5
<1>7. k # q
  BY <1>1, <1>2, <1>4, <1>5
<1>8. k + 1 \in 1 .. Len(list) /\ 1 \in Nat
  BY <1>2, <1>7
<1>9. list[k + 1] \in Packets /\ Span(form, list[k + 1]) \in Nat /\ Span(form, list[k + 1]) > 0
  BY <1>3, <1>8, PlaceTypes
<1>10. 1 \in 1 .. Span(form, list[k + 1])
  BY <1>9
<1>11. link[b + 1] = Piece(form, list[k + 1], 1)
  BY <1>2, <1>4, <1>6, <1>8, <1>10 DEF Holds
<1>12. Piece(form, list[k + 1], 1).bits # 0
  <2>1. PICK p \in Packets : p = list[k + 1]
    BY <1>9
  <2>2. BurstSize(p) # 0 /\ BurstSize(p) * Interpolation # 0
    BY PacketSizes
  <2>3. Piece(form, p, 1).bits = BurstSize(p) \/ Piece(form, p, 1).bits = BurstSize(p) * Interpolation
    BY DEF Piece
  <2> QED BY <2>1, <2>2, <2>3
<1> QED BY <1>5, <1>6, <1>11, <1>12

(* The places of samples follow those of the symbols. *)
LEMMA SamplePlaces ==
  ASSUME NEW form \in {"samples", "scaled"}, NEW list \in Seq(Packets),
         NEW at, Places("symbols", list, at), NEW c \in Int,
         NEW next, next = [k \in 1 .. Len(list) + 1 |-> at[k] * Interpolation + c]
  PROVE  Places(form, list, next)
<1>1. PICK n \in Nat : n = Len(list)
  BY LenProperties
<1>2. PICK I \in Nat : I = Interpolation /\ I > 0
  BY Sizes
<1>3. "symbols" \in Forms
  BY DEF Forms
<1>4. \A k \in 1 .. n + 1 : at[k] \in Int /\ next[k] = (at[k] * I) + c /\ next[k] \in Int
  <2>1. \A k \in 1 .. n + 1 : at[k] \in Int
    BY <1>1, <1>3, PlaceTypes
  <2>2. \A k \in 1 .. n + 1 : next[k] = (at[k] * I) + c
    BY <1>1, <1>2
  <2>3. \A x \in Int : (x * I) + c \in Int
    OBVIOUS
  <2> QED BY <2>1, <2>2, <2>3
<1>5. next \in [1 .. n + 1 -> Int]
  <2>1. \A k \in 1 .. n + 1 : (at[k] * I) + c \in Int
    BY <1>4
  <2> QED BY <1>1, <1>2, <2>1
<1>6. ASSUME NEW k \in 1 .. n
      PROVE  next[k + 1] = next[k] + Span(form, list[k])
  <2>1. k \in 1 .. n + 1 /\ k + 1 \in 1 .. n + 1
    OBVIOUS
  <2>2. /\ list[k] \in Packets /\ at[k + 1] = at[k] + Span("symbols", list[k])
    BY <1>1, <1>3, PlaceTypes
  <2>3. PICK s \in Int : s = BurstSize(list[k])
    BY <2>2, PacketSizes
  <2>4. Span("symbols", list[k]) = s /\ Span(form, list[k]) = s * I
    BY <1>2, <2>3 DEF Span
  <2>5. PICK x \in Int : x = at[k] /\ at[k + 1] = x + s
    BY <1>4, <2>1, <2>2, <2>4
  <2>6. ((x + s) * I) + c = ((x * I) + c) + (s * I)
    OBVIOUS
  <2> QED BY <1>4, <2>1, <2>4, <2>5, <2>6
<1>7. ASSUME NEW k \in 1 .. n + 1, NEW l \in 1 .. n + 1, k <= l
      PROVE  next[k] <= next[l]
  <2>1. at[k] <= at[l]
    BY <1>1, <1>7 DEF Places
  <2>2. PICK x, y \in Int : x = at[k] /\ y = at[l] /\ x <= y
    BY <1>4, <2>1
  <2>3. PICK d \in Nat : y = x + d
    <3>1. y - x \in Nat /\ y = x + (y - x)
      BY <2>2
    <3> QED BY <3>1
  <2>4. (y * I) + c = ((x * I) + c) + (d * I) /\ d * I \in Nat
    BY <2>3
  <2>5. PICK u, v, w \in Int : u = (x * I) + c /\ v = (y * I) + c /\ w = d * I /\ w >= 0 /\ v = u + w
    BY <2>4
  <2>6. next[k] = u /\ next[l] = v
    BY <1>4, <2>2, <2>5
  <2> QED BY <2>5, <2>6
<1> QED BY <1>1, <1>5, <1>6, <1>7 DEF Places

-----------------------------------------------------------------------------
(* The invariant.                                                          *)

(* Samples of the first burst that are sent. *)
Sent == IF shaper_remaining = 0 THEN 0 ELSE shaper_packet_len - shaper_remaining

(* Items of input i of the current burst that have left the multiplexer. *)
MuxPart(i) ==
  IF mux_packet_lens = <<>> \/ i > mux_current_input THEN 0
  ELSE IF i < mux_current_input THEN mux_packet_lens[i]
  ELSE mux_packet_lens[i] - mux_remaining

(* All of them together. *)
MuxSent == MuxPart(1) + MuxPart(2) + MuxPart(3) + MuxPart(4)

(* The lengths of the four parts. *)
PartSizes(p) == <<SyncwordSize, p.len, RampDownSize, FlushSize>>

(* The identity of the packet at a place of the queue, or that comes next. *)
IdAt(k) == IF k <= Q THEN queue[k].id ELSE NextId(packet.id)

(* Symbols of the last packet that are to come. *)
Coming == packet.len - place

(* The places of the bursts in samples, if c samples of what was filtered  *)
(* lie before the shaper.                                                  *)
SampleAt(at, c) == [k \in 1 .. Q + 1 |-> at[k] * Interpolation + c]

(* The bursts of the queue lie from the shaper back to the multiplexer. *)
BurstsAt(at) ==
  /\ Places("symbols", queue, at)
  /\ at[1] * Interpolation + (Len(filtered) + Len(scaled)) = 0 - Sent
  /\ Holds("symbols", muxed, queue, at)
  /\ Holds("samples", filtered, queue, SampleAt(at, Len(filtered)))
  /\ Holds("scaled", scaled, queue, SampleAt(at, Len(filtered) + Len(scaled)))

(* The filter is in burst k, or between it and the one before. *)
Filtering(at, k) == at[k] <= 0 /\ (IF k <= Q THEN at[k + 1] > 0 ELSE at[k] = 0)

(* The last items of a burst of which x symbols have come: nothing of the  *)
(* burst before.                                                           *)
Remembers(past, p, x) ==
  \A i \in 1 .. FIR!Depth - 1 : past[i] = IF i <= x THEN SymbolOf(p, x - i + 1) ELSE Zero

(* So the history of the filter is right wherever it is. *)
HistoryAt(at) ==
  \A k \in 1 .. Q + 1 : Filtering(at, k) => Remembers(history, queue[k], 0 - at[k])

(* The multiplexer is in the burst at place j of the queue, or before it. *)
MuxAt(at, j) ==
  /\ j \in 1 .. Q + 1
  /\ at[j] + MuxSent = Len(muxed)
  /\ mux_packet_lens # <<>> =>
       /\ j <= Q /\ mux_packet_lens = PartSizes(queue[j])
       /\ mux_current_input \in 1 .. 4
       /\ mux_remaining \in 1 .. mux_packet_lens[mux_current_input]
       /\ MuxSent > 0

(* The packets from there on are in the link of the packets. *)
PacketsAt(pat, j) ==
  /\ Places("packet", queue, pat)
  /\ pat[j] = 0 - MuxPart(2)
  /\ Len(packets) = pat[Q + 1] - Coming
  /\ Holds("packet", packets, queue, pat)

(* So are their other parts, as many as have come. *)
RowsAt(j) ==
  /\ RowAt(syncword, "syncword", SyncwordSize, IdAt(j), MuxPart(1), sync_id, sync_position)
  /\ RowAt(ramp_down, "ramp_down", RampDownSize, IdAt(j), MuxPart(3), ramp_id, ramp_count)
  /\ ZerosAt(flush, MuxPart(4), flush_count)

(* The identities are given in order. *)
Chain ==
  /\ \A k \in 1 .. Q - 1 : queue[k + 1].id = NextId(queue[k].id)
  /\ Q > 0 => queue[Q] = packet
  /\ Coming > 0 => Q > 0

(* Within a burst the shaper knows the length of the first of the queue. *)
ShaperInBurst ==
  shaper_remaining # 0 =>
    /\ Q > 0 /\ shaper_packet_len = BurstSize(queue[1]) * Interpolation
    /\ shaper_remaining < shaper_packet_len

(* The types, with the items of the links of samples. *)
Types ==
  /\ NoBlockFails /\ queue \in Seq(Packets)
  /\ filtered \in Seq(Pieces("samples")) /\ scaled \in Seq(Pieces("scaled"))

(* Everything is where it has to be. *)
InPlace(at, pat, j) ==
  /\ BurstsAt(at) /\ HistoryAt(at) /\ MuxAt(at, j) /\ PacketsAt(pat, j) /\ RowsAt(j)

(* The inductive invariant: for some places of the bursts, the links, the  *)
(* history, the multiplexer and the sources agree with the queue.          *)
BurstInv ==
  /\ Types /\ Chain /\ ShaperInBurst
  /\ \E at, pat, j : InPlace(at, pat, j)

-----------------------------------------------------------------------------
(* The types that the invariant gives. *)
LEMMA TypeFacts ==
  ASSUME Types
  PROVE  /\ Q \in Nat
         /\ \A k \in 1 .. Q : queue[k] \in Packets
         /\ Len(muxed) \in Nat /\ Len(filtered) \in Nat /\ Len(scaled) \in Nat
         /\ Len(packets) \in Nat /\ Len(syncword) \in Nat
         /\ Len(ramp_down) \in Nat /\ Len(flush) \in Nat
         /\ packet \in Packets /\ packet.len \in Nat /\ place \in Nat /\ Coming \in Nat
         /\ shaper_remaining \in Nat /\ shaper_packet_len \in Nat
<1>1. TypeOK
  BY DEF Types, NoBlockFails
<1>2. packet \in Packets /\ place \in 1 .. packet.len
  BY <1>1 DEF TypeOK
<1>3. packet.len \in Nat
  BY <1>2, PacketSizes
<1>4. place \in Nat /\ Coming \in Nat
  BY <1>2, <1>3 DEF Coming
<1>5. Q \in Nat /\ \A k \in 1 .. Q : queue[k] \in Packets
  BY LenProperties, ElementOfSeq DEF Types, Q
<1>6. Len(filtered) \in Nat /\ Len(scaled) \in Nat
  BY LenProperties DEF Types
<1>7. /\ Len(muxed) \in Nat /\ Len(packets) \in Nat /\ Len(syncword) \in Nat
      /\ Len(ramp_down) \in Nat /\ Len(flush) \in Nat
  BY <1>1, LenProperties DEF TypeOK
<1> QED BY <1>1, <1>2, <1>3, <1>4, <1>5, <1>6, <1>7 DEF TypeOK

(* What has left the multiplexer of the current burst. *)
LEMMA MuxParts ==
  ASSUME Types, NEW at, NEW j, MuxAt(at, j)
  PROVE  /\ MuxPart(1) \in Nat /\ MuxPart(2) \in Nat /\ MuxPart(3) \in Nat /\ MuxPart(4) \in Nat
         /\ MuxSent \in Nat
         /\ mux_packet_lens = <<>> =>
              MuxPart(1) = 0 /\ MuxPart(2) = 0 /\ MuxPart(3) = 0 /\ MuxPart(4) = 0 /\ MuxSent = 0
         /\ mux_packet_lens # <<>> =>
              /\ j \in 1 .. Q /\ queue[j] \in Packets
              /\ MuxPart(1) <= SyncwordSize /\ MuxPart(2) <= queue[j].len
              /\ MuxPart(3) <= RampDownSize /\ MuxPart(4) <= FlushSize
              /\ MuxSent < BurstSize(queue[j])
              /\ MuxPart(2) > 0 => MuxPart(1) = SyncwordSize
              /\ MuxPart(3) > 0 => MuxPart(2) = queue[j].len
              /\ MuxPart(4) > 0 => MuxPart(3) = RampDownSize
<1>1. CASE mux_packet_lens = <<>>
  BY <1>1 DEF MuxPart, MuxSent
<1>2. CASE mux_packet_lens # <<>>
  <2>1. j \in 1 .. Q /\ queue[j] \in Packets
    BY <1>2, TypeFacts DEF MuxAt
  <2>2. PICK s, l, r, f \in Nat :
          /\ s = SyncwordSize /\ l = queue[j].len /\ r = RampDownSize /\ f = FlushSize
          /\ s > 0 /\ l > 0 /\ r > 0 /\ f > 0
    BY <2>1, PacketSizes, Sizes
  <2>3. /\ mux_packet_lens = <<s, l, r, f>>
        /\ mux_current_input \in 1 .. 4
        /\ mux_remaining \in 1 .. mux_packet_lens[mux_current_input]
    BY <1>2, <2>2 DEF MuxAt, PartSizes
  <2>4. BurstSize(queue[j]) = s + l + r + f
    BY <2>2 DEF BurstSize
  <2> DEFINE Right(a, b, c, d) ==
        /\ a = MuxPart(1) /\ b = MuxPart(2) /\ c = MuxPart(3) /\ d = MuxPart(4)
        /\ a <= s /\ b <= l /\ c <= r /\ d <= f /\ (a + b) + (c + d) < (s + l) + (r + f)
        /\ (b > 0 => a = s) /\ (c > 0 => b = l) /\ (d > 0 => c = r)
  <2>5. ASSUME mux_current_input = 1
        PROVE  \E a, b, c, d \in Nat : Right(a, b, c, d)
    <3>1. PICK x \in Nat : x = s - mux_remaining /\ x < s
      BY <2>3, <2>5
    <3>2. MuxPart(1) = x /\ MuxPart(2) = 0 /\ MuxPart(3) = 0 /\ MuxPart(4) = 0
      BY <1>2, <2>3, <2>5, <3>1 DEF MuxPart
    <3>3. Right(x, 0, 0, 0)
      BY <2>2, <3>1, <3>2
    <3> QED BY <3>3
  <2>6. ASSUME mux_current_input = 2
        PROVE  \E a, b, c, d \in Nat : Right(a, b, c, d)
    <3>1. PICK x \in Nat : x = l - mux_remaining /\ x < l
      BY <2>3, <2>6
    <3>2. MuxPart(1) = s /\ MuxPart(2) = x /\ MuxPart(3) = 0 /\ MuxPart(4) = 0
      BY <1>2, <2>3, <2>6, <3>1 DEF MuxPart
    <3>3. Right(s, x, 0, 0)
      BY <2>2, <3>1, <3>2
    <3> QED BY <3>3
  <2>7. ASSUME mux_current_input = 3
        PROVE  \E a, b, c, d \in Nat : Right(a, b, c, d)
    <3>1. PICK x \in Nat : x = r - mux_remaining /\ x < r
      BY <2>3, <2>7
    <3>2. MuxPart(1) = s /\ MuxPart(2) = l /\ MuxPart(3) = x /\ MuxPart(4) = 0
      BY <1>2, <2>3, <2>7, <3>1 DEF MuxPart
    <3>3. Right(s, l, x, 0)
      BY <2>2, <3>1, <3>2
    <3> QED BY <3>3
  <2>8. ASSUME mux_current_input = 4
        PROVE  \E a, b, c, d \in Nat : Right(a, b, c, d)
    <3>1. PICK x \in Nat : x = f - mux_remaining /\ x < f
      BY <2>3, <2>8
    <3>2. MuxPart(1) = s /\ MuxPart(2) = l /\ MuxPart(3) = r /\ MuxPart(4) = x
      BY <1>2, <2>3, <2>8, <3>1 DEF MuxPart
    <3>3. Right(s, l, r, x)
      BY <2>2, <3>1, <3>2
    <3> QED BY <3>3
  <2>9. PICK a, b, c, d \in Nat : Right(a, b, c, d)
    BY <2>3, <2>5, <2>6, <2>7, <2>8
  <2>10. MuxSent = (a + b) + (c + d) /\ MuxSent \in Nat
    BY <2>9 DEF MuxSent
  <2>11. MuxSent < BurstSize(queue[j])
    BY <2>4, <2>9, <2>10
  <2> QED BY <1>2, <2>1, <2>2, <2>9, <2>10, <2>11
<1> QED BY <1>1, <1>2

(* Where the bursts lie. *)
LEMMA BurstPlaces ==
  ASSUME Types, ShaperInBurst, NEW at, BurstsAt(at), NEW j, MuxAt(at, j)
  PROVE  /\ \A k \in 1 .. Q + 1 : at[k] \in Int
         /\ \A k, l \in 1 .. Q + 1 : k <= l => at[k] <= at[l]
         /\ \A k \in 1 .. Q : /\ at[k + 1] = at[k] + BurstSize(queue[k])
                              /\ BurstSize(queue[k]) \in Nat /\ BurstSize(queue[k]) > 0
         /\ Sent \in Nat
         /\ Sent > 0 => Q > 0 /\ Sent < BurstSize(queue[1]) * Interpolation
         /\ at[1] <= 0
         /\ Len(muxed) <= at[Q + 1] /\ at[Q + 1] >= 0
<1>1. Q \in Nat /\ \A k \in 1 .. Q : queue[k] \in Packets
  BY TypeFacts
<1>2. "symbols" \in Forms /\ queue \in Seq(Packets)
  BY DEF Forms, Types
<1>3. Places("symbols", queue, at)
  BY DEF BurstsAt
<1>4. /\ \A k \in 1 .. Q + 1 : at[k] \in Int
      /\ \A k, l \in 1 .. Q + 1 : k <= l => at[k] <= at[l]
  BY <1>2, <1>3, PlaceTypes DEF Q, Places
<1>5. ASSUME NEW k \in 1 .. Q
      PROVE  /\ at[k + 1] = at[k] + BurstSize(queue[k])
             /\ BurstSize(queue[k]) \in Nat /\ BurstSize(queue[k]) > 0
  <2>1. at[k + 1] = at[k] + Span("symbols", queue[k])
    BY <1>3 DEF Places, Q
  <2> QED BY <1>1, <2>1, PacketSizes DEF Span
<1>6. Sent \in Nat /\ (Sent > 0 => Q > 0 /\ Sent < BurstSize(queue[1]) * Interpolation)
  <2>1. CASE shaper_remaining = 0
    BY <2>1 DEF Sent
  <2>2. CASE shaper_remaining # 0
    <3>1. shaper_remaining \in Nat /\ shaper_packet_len \in Nat
      BY TypeFacts
    <3>2. /\ Q > 0 /\ shaper_packet_len = BurstSize(queue[1]) * Interpolation
          /\ shaper_remaining < shaper_packet_len
      BY <2>2 DEF ShaperInBurst
    <3>3. Sent = shaper_packet_len - shaper_remaining
      BY <2>2 DEF Sent
    <3>4. Sent \in Nat /\ Sent < shaper_packet_len
      BY <2>2, <3>1, <3>2, <3>3
    <3> QED BY <3>2, <3>4
  <2> QED BY <2>1, <2>2
<1>7. at[1] <= 0
  <2>1. PICK x \in Int : x = at[1]
    BY <1>1, <1>4
  <2>2. PICK I \in Nat : I = Interpolation /\ I > 0
    BY Sizes
  <2>3. PICK s, c, d \in Nat : s = Sent /\ c = Len(filtered) /\ d = Len(scaled)
    BY <1>6, TypeFacts
  <2>4. (x * I) + (c + d) = 0 - s
    BY <2>1, <2>2, <2>3 DEF BurstsAt
  <2>5. ~(x > 0)
    <3>1. \A a, b \in Nat : a > 0 /\ b > 0 => a * b > 0 /\ a * b \in Nat
      OBVIOUS
    <3>2. SUFFICES ASSUME x > 0 PROVE FALSE
      OBVIOUS
    <3>3. x * I > 0 /\ x * I \in Nat
      BY <2>2, <3>1, <3>2
    <3> QED BY <2>4, <3>3
  <2> QED BY <2>1, <2>5
<1>8. Len(muxed) <= at[Q + 1]
  <2>1. PICK m, n \in Nat : m = MuxSent /\ n = Len(muxed)
    BY MuxParts, TypeFacts
  <2>2. j \in 1 .. Q + 1 /\ at[j] + m = n
    BY <2>1 DEF MuxAt
  <2>3. Q + 1 \in 1 .. Q + 1
    BY <1>1
  <2>4. at[j] \in Int /\ at[Q + 1] \in Int /\ at[j] <= at[Q + 1]
    BY <1>1, <1>4, <2>2, <2>3
  <2>5. CASE mux_packet_lens = <<>>
    <3>1. m = 0
      BY <2>1, <2>5, MuxParts
    <3> QED BY <2>1, <2>2, <2>4, <3>1
  <2>6. CASE mux_packet_lens # <<>>
    <3>1. j \in 1 .. Q /\ m < BurstSize(queue[j])
      BY <2>1, <2>6, MuxParts
    <3>2. j + 1 \in 1 .. Q + 1 /\ j + 1 <= Q + 1
      BY <1>1, <3>1
    <3>3. at[j + 1] <= at[Q + 1] /\ at[j + 1] \in Int
      BY <1>4, <2>3, <3>2
    <3>4. at[j + 1] = at[j] + BurstSize(queue[j]) /\ BurstSize(queue[j]) \in Nat
      BY <1>5, <3>1
    <3> QED BY <2>1, <2>2, <2>4, <3>1, <3>3, <3>4
  <2> QED BY <2>5, <2>6
<1>9. at[Q + 1] >= 0
  <2>1. Q + 1 \in 1 .. Q + 1
    BY <1>1
  <2>2. at[Q + 1] \in Int /\ Len(muxed) \in Nat
    BY <1>4, <2>1, TypeFacts
  <2> QED BY <1>8, <2>2
<1> QED BY <1>4, <1>5, <1>6, <1>7, <1>8, <1>9

(* What nothing touches stays as it is. *)
LEMMA PartsStay ==
  ASSUME UNCHANGED mux_vars
  PROVE  /\ \A i \in 1 .. 4 : MuxPart(i)' = MuxPart(i)
         /\ MuxPart(1)' = MuxPart(1) /\ MuxPart(2)' = MuxPart(2)
         /\ MuxPart(3)' = MuxPart(3) /\ MuxPart(4)' = MuxPart(4) /\ MuxSent' = MuxSent
BY DEF mux_vars, MuxPart, MuxSent

(* The parts of the invariant depend on no more than what they name. *)
LEMMA BurstsStay ==
  ASSUME NEW at, BurstsAt(at),
         UNCHANGED <<muxed, filtered, scaled, queue, shaper_remaining, shaper_packet_len>>
  PROVE  BurstsAt(at)'
<1>1. Sent' = Sent /\ Q' = Q
  BY DEF Sent, Q
<1>2. /\ SampleAt(at, Len(filtered))' = SampleAt(at, Len(filtered))
      /\ SampleAt(at, Len(filtered) + Len(scaled))' = SampleAt(at, Len(filtered) + Len(scaled))
  BY <1>1 DEF SampleAt
<1> QED BY <1>1, <1>2 DEF BurstsAt

(* The history, the same. *)
LEMMA HistoryStays ==
  ASSUME NEW at, HistoryAt(at), UNCHANGED <<history, queue>>
  PROVE  HistoryAt(at)'
BY DEF HistoryAt, Filtering, Q

(* The multiplexer, the same. *)
LEMMA MuxStays ==
  ASSUME NEW at, NEW j, MuxAt(at, j), UNCHANGED <<mux_vars, muxed, queue>>
  PROVE  MuxAt(at, j)'
<1>1. MuxSent' = MuxSent /\ UNCHANGED <<mux_packet_lens, mux_current_input, mux_remaining>>
  BY PartsStay DEF mux_vars
<1> QED BY <1>1 DEF MuxAt, Q

(* The link of the packets, the same. *)
LEMMA PacketsStay ==
  ASSUME NEW pat, NEW j, PacketsAt(pat, j), UNCHANGED <<mux_vars, packet_vars, queue>>
  PROVE  PacketsAt(pat, j)'
<1>1. MuxPart(2)' = MuxPart(2) /\ UNCHANGED <<packet, place, packets>>
  BY PartsStay DEF packet_vars
<1> QED BY <1>1 DEF PacketsAt, Q, Coming

(* The identity of a burst, the same. *)
LEMMA IdStays ==
  ASSUME NEW j, UNCHANGED <<packet, queue>>
  PROVE  IdAt(j)' = IdAt(j)
BY DEF IdAt, Q

(* The rows of the other parts, the same. *)
LEMMA RowsStay ==
  ASSUME NEW j, RowsAt(j),
         UNCHANGED <<mux_vars, sync_vars, ramp_vars, flush_vars, packet, queue>>
  PROVE  RowsAt(j)'
<1>1. /\ MuxPart(1)' = MuxPart(1) /\ MuxPart(3)' = MuxPart(3) /\ MuxPart(4)' = MuxPart(4)
      /\ IdAt(j)' = IdAt(j)
  BY PartsStay, IdStays
<1> QED BY <1>1 DEF RowsAt, sync_vars, ramp_vars, flush_vars

(* The order of the identities, the same. *)
LEMMA ChainStays ==
  ASSUME Chain, UNCHANGED <<queue, packet, place>>
  PROVE  Chain'
BY DEF Chain, Q, Coming

(* The shaper, the same. *)
LEMMA ShaperStays ==
  ASSUME ShaperInBurst, UNCHANGED <<queue, shaper_remaining, shaper_packet_len>>
  PROVE  ShaperInBurst'
BY DEF ShaperInBurst, Q

(* The identity for which the parts of the current burst are. *)
LEMMA IdIs ==
  ASSUME Types, NEW j \in 1 .. Q + 1
  PROVE  IdAt(j) \in Ids
<1>1. CASE j <= Q
  <2>1. queue[j] \in Packets
    BY <1>1, TypeFacts
  <2> QED BY <1>1, <2>1, PacketSizes DEF IdAt
<1>2. CASE ~(j <= Q)
  <2>1. packet \in Packets
    BY TypeFacts
  <2>2. PICK x \in Nat : x = packet.id
    BY <2>1, PacketSizes
  <2>3. x % NumIds \in Nat /\ x % NumIds < NumIds
    BY Sizes, DivisionOf
  <2>4. (x % NumIds) + 1 \in Ids
    BY <2>3, Sizes DEF Ids
  <2> QED BY <1>2, <2>2, <2>4 DEF IdAt, NextId
<1> QED BY <1>1, <1>2

(* The identity of a packet that a row has begun. *)
LEMMA IdWithin ==
  ASSUME NEW size \in Nat, NEW id \in Ids, NEW d \in Nat, NEW i \in Nat, i > 0, d + i <= size
  PROVE  IdOf(id, d, i, size) = id
<1>1. RowItem("syncword", size, id, d, i)
        = Symbol(id, "syncword", d + i, IF d + i = 1 THEN size ELSE 0)
  BY RowWithin
<1> QED BY <1>1 DEF RowItem, Symbol

-----------------------------------------------------------------------------
(* In the beginning nothing has come. *)
LEMMA EmptyRow ==
  ASSUME NEW part, NEW size \in Nat, size > 0
  PROVE  RowAt(<<>>, part, size, 1, 0, 1, 0)
<1>1. 1 \in Ids /\ 1 \in Nat /\ 1 > 0 /\ 0 \in Nat
  BY Sizes DEF Ids
<1>2. IdOf(1, 0, 1, size) = 1
  BY <1>1, IdWithin
<1>3. 0 % size = 0
  BY <1>1, NoTurn
<1>4. Len(<<>>) = 0 /\ 0 + 1 = 1 /\ 0 + 0 = 0
  OBVIOUS
<1> QED BY <1>2, <1>3, <1>4 DEF RowAt

(* The types hold initially. *)
LEMMA InitTypes ==
  ASSUME Init
  PROVE  Types
<1>1. packet \in Packets /\ place \in 1 .. packet.len
  <2>1. PICK len \in Lengths : len = CHOOSE l \in Lengths : TRUE
    BY BurstAssumption
  <2>2. packet = [id |-> NumIds, len |-> len] /\ place = packet.len
    BY <2>1 DEF Init
  <2>3. NumIds \in Ids /\ len \in Nat /\ len > 0
    BY Sizes DEF Ids
  <2> QED BY <2>2, <2>3 DEF Packets
<1>2. /\ sync_position = 0 /\ sync_id = 1 /\ ramp_count = 0 /\ ramp_id = 1 /\ flush_count = 0
      /\ syncword = <<>> /\ packets = <<>> /\ ramp_down = <<>> /\ flush = <<>> /\ muxed = <<>>
      /\ filtered = <<>> /\ scaled = <<>> /\ queue = <<>>
  BY DEF Init, SYNC!Init
<1>3. /\ mux_failed = FALSE /\ shaper_failed = FALSE
      /\ shaper_remaining = 0 /\ shaper_packet_len = 0
  BY DEF Init, MUX!Init, SHAPER!StreamInit
<1>4. 1 \in Ids /\ 0 \in 0 .. SyncwordSize - 1 /\ 0 \in 0 .. RampDownSize - 1
      /\ 0 \in 0 .. FlushSize - 1
  BY Sizes DEF Ids
<1>5. \A S : <<>> \in Seq(S)
  BY EmptySeq
<1>6. Len(<<>>) = 0 /\ \A x \in Nat : 0 <= x
  OBVIOUS
<1>7. TypeOK
  BY <1>1, <1>2, <1>3, <1>4, <1>5, <1>6, Sizes DEF TypeOK
<1> QED BY <1>2, <1>3, <1>5, <1>7 DEF Types, NoBlockFails

(* The invariant holds initially. *)
LEMMA InitHolds ==
  ASSUME Init
  PROVE  BurstInv
<1>1. Types
  BY InitTypes
<1>2. /\ sync_position = 0 /\ sync_id = 1 /\ ramp_count = 0 /\ ramp_id = 1 /\ flush_count = 0
      /\ syncword = <<>> /\ packets = <<>> /\ ramp_down = <<>> /\ flush = <<>> /\ muxed = <<>>
      /\ filtered = <<>> /\ scaled = <<>> /\ queue = <<>>
      /\ mux_packet_lens = <<>> /\ shaper_remaining = 0 /\ packet.id = NumIds
      /\ place = packet.len
  BY DEF Init, SYNC!Init, MUX!Init, SHAPER!StreamInit
<1>3. Q = 0 /\ Len(<<>>) = 0
  BY <1>2 DEF Q
<1>4. Sent = 0 /\ MuxPart(1) = 0 /\ MuxPart(2) = 0 /\ MuxPart(3) = 0 /\ MuxPart(4) = 0
      /\ MuxSent = 0
  BY <1>2 DEF Sent, MuxPart, MuxSent
<1>5. Coming = 0
  BY <1>1, <1>2, TypeFacts DEF Coming
<1>6. Chain /\ ShaperInBurst
  BY <1>2, <1>3, <1>5 DEF Chain, ShaperInBurst
<1>7. PICK at : at = [k \in 1 .. 1 |-> 0]
  OBVIOUS
<1>8. at[1] = 0 /\ \A form : Places(form, queue, at)
  BY <1>2, <1>3, <1>7 DEF Places
<1>9. \A form, link, next : Holds(form, link, queue, next)
  BY <1>2, <1>3 DEF Holds
<1>10. BurstsAt(at)
  <2>1. at[1] * Interpolation + (Len(filtered) + Len(scaled)) = 0 - Sent
    BY <1>2, <1>3, <1>4, <1>8, Sizes
  <2> QED BY <1>8, <1>9, <2>1 DEF BurstsAt
<1>11. HistoryAt(at)
  <2>1. history = [i \in 1 .. FIR!Depth |-> Zero]
    BY DEF Init, FIR!Init
  <2>2. PICK D \in Int : D = FIR!Depth
    BY Sizes DEF FIR!Depth
  <2>3. \A p : Remembers(history, p, 0)
    BY <2>1, <2>2 DEF Remembers
  <2>4. \A k \in 1 .. Q + 1 : 0 - at[k] = 0
    BY <1>3, <1>8
  <2> QED BY <2>3, <2>4 DEF HistoryAt
<1>12. MuxAt(at, 1)
  BY <1>2, <1>3, <1>4, <1>8 DEF MuxAt
<1>13. PacketsAt(at, 1)
  BY <1>2, <1>3, <1>4, <1>5, <1>8, <1>9 DEF PacketsAt
<1>14. IdAt(1) = 1
  <2>1. NumIds % NumIds = 0
    <3>1. NumIds = 1 * NumIds + 0 /\ NumIds \in Nat /\ NumIds > 0
      BY Sizes
    <3> QED BY <3>1, DivisionIs
  <2> QED BY <1>2, <1>3, <2>1 DEF IdAt, NextId
<1>15. RowsAt(1)
  <2>1. /\ RowAt(<<>>, "syncword", SyncwordSize, 1, 0, 1, 0)
        /\ RowAt(<<>>, "ramp_down", RampDownSize, 1, 0, 1, 0)
    BY EmptyRow, Sizes
  <2>2. ZerosAt(<<>>, 0, 0)
    <3>1. 0 % FlushSize = 0
      BY Sizes, NoTurn
    <3> QED BY <1>3, <3>1 DEF ZerosAt
  <2> QED BY <1>2, <1>4, <1>14, <2>1, <2>2 DEF RowsAt
<1> QED BY <1>1, <1>6, <1>10, <1>11, <1>12, <1>13, <1>15 DEF BurstInv, InPlace

-----------------------------------------------------------------------------
(* The sources keep the invariant.                                         *)
LEMMA SourceKeeps ==
  ASSUME BurstInv, TypeOK',
         UNCHANGED <<packet_vars, mux_vars, muxed, history, filtered, scaled,
                     shaper_vars, queue>>,
         \A j \in 1 .. Q + 1 :
           IdAt(j) \in Ids /\ MuxPart(1) \in Nat /\ MuxPart(3) \in Nat /\ MuxPart(4) \in Nat
             /\ RowsAt(j) => RowsAt(j)'
  PROVE  BurstInv'
<1>1. PICK at, pat, j : InPlace(at, pat, j)
  BY DEF BurstInv
<1>2. /\ BurstsAt(at) /\ HistoryAt(at) /\ MuxAt(at, j) /\ PacketsAt(pat, j) /\ RowsAt(j)
      /\ Types /\ Chain /\ ShaperInBurst
  BY <1>1 DEF InPlace, BurstInv
<1>3. UNCHANGED <<packet, place, packets, mux_failed, shaper_remaining, shaper_packet_len,
                  shaper_failed>>
  BY DEF packet_vars, mux_vars, shaper_vars
<1>4. BurstsAt(at)' /\ HistoryAt(at)' /\ MuxAt(at, j)' /\ PacketsAt(pat, j)'
  BY <1>2, <1>3, BurstsStay, HistoryStays, MuxStays, PacketsStay
<1>5. j \in 1 .. Q + 1
  BY <1>2 DEF MuxAt
<1>6. IdAt(j) \in Ids /\ MuxPart(1) \in Nat /\ MuxPart(3) \in Nat /\ MuxPart(4) \in Nat
  BY <1>2, <1>5, IdIs, MuxParts
<1>7. RowsAt(j)'
  BY <1>2, <1>5, <1>6
<1>8. Chain' /\ ShaperInBurst'
  BY <1>2, <1>3, ChainStays, ShaperStays
<1>9. Types'
  BY <1>2, <1>3 DEF Types, NoBlockFails
<1> QED BY <1>4, <1>7, <1>8, <1>9 DEF InPlace, BurstInv

(* The source of the syncword keeps the invariant. *)
LEMMA SyncwordKeeps ==
  ASSUME BurstInv, NEW space \in 1 .. SyncwordCapacity, Syncword(space)
  PROVE  BurstInv'
<1>1. TypeOK
  BY DEF BurstInv, Types, NoBlockFails
<1>2. /\ sync_position \in 0 .. SyncwordSize - 1 /\ sync_id \in Ids
      /\ syncword \in Seq(SymbolType)
  BY <1>1 DEF TypeOK
<1>3. PICK S \in Nat : S = SyncwordSize /\ S > 0
  BY Sizes
<1>4. space \in Nat /\ space > 0
  BY Sizes
<1>5. PICK out_items, tagged :
        /\ Published(space, out_items, tagged)
        /\ syncword' = syncword
             \o [i \in DOMAIN out_items |->
                  Symbol(IdOf(sync_id, sync_position, i, SyncwordSize), "syncword",
                         out_items[i], IF i \in tagged THEN SyncwordSize ELSE 0)]
        /\ sync_id' = IdOf(sync_id, sync_position, Len(out_items) + 1, SyncwordSize)
  BY DEF Syncword, Published
<1>6. /\ Len(syncword) + space <= SyncwordCapacity
      /\ UNCHANGED <<packet_vars, ramp_vars, flush_vars, mux_vars, muxed, history,
                     filtered, scaled, shaper_vars, queue, out>>
  BY DEF Syncword
<1>7. /\ out_items \in Seq(Nat) /\ Len(out_items) = space
      /\ \A i \in 1 .. space :
           /\ out_items[i] = ((sync_position + i - 1) % SyncwordSize) + 1
           /\ i \in tagged <=> (sync_position + i - 1) % SyncwordSize = 0
      /\ sync_position' = (sync_position + space) % SyncwordSize
  BY <1>2, <1>4, <1>5, SyncwordPublishes
<1>8. DOMAIN out_items = 1 .. space
  BY <1>7, LenProperties
<1>9. PICK more : more = [i \in 1 .. space |->
                            RowItem("syncword", SyncwordSize, sync_id, sync_position, i)]
  OBVIOUS
<1>10. syncword' = syncword \o more
  <2>1. ASSUME NEW i \in 1 .. space
        PROVE  Symbol(IdOf(sync_id, sync_position, i, SyncwordSize), "syncword",
                      out_items[i], IF i \in tagged THEN SyncwordSize ELSE 0)
                 = RowItem("syncword", SyncwordSize, sync_id, sync_position, i)
    BY <1>7 DEF RowItem
  <2>2. [i \in DOMAIN out_items |->
          Symbol(IdOf(sync_id, sync_position, i, SyncwordSize), "syncword",
                 out_items[i], IF i \in tagged THEN SyncwordSize ELSE 0)] = more
    BY <1>8, <1>9, <2>1
  <2> QED BY <1>5, <2>2
<1>11. /\ sync_id' = IdOf(sync_id, sync_position, space + 1, SyncwordSize)
       /\ sync_position' = (sync_position + space) % SyncwordSize
  BY <1>5, <1>7
<1>12. ASSUME NEW id \in Ids, NEW d \in Nat,
              RowAt(syncword, "syncword", SyncwordSize, id, d, sync_id, sync_position)
       PROVE  /\ syncword' \in Seq(SymbolType) /\ Len(syncword') = Len(syncword) + space
              /\ RowAt(syncword', "syncword", SyncwordSize, id, d, sync_id', sync_position')
  <2>1. /\ syncword \o more \in Seq(SymbolType)
        /\ Len(syncword \o more) = Len(syncword) + space
        /\ RowAt(syncword \o more, "syncword", SyncwordSize, id, d,
                 IdOf(sync_id, sync_position, space + 1, SyncwordSize),
                 (sync_position + space) % SyncwordSize)
    BY <1>2, <1>3, <1>4, <1>9, <1>12, RowGrows
  <2> QED BY <1>10, <1>11, <2>1
<1>13. PICK at, pat, j : InPlace(at, pat, j) /\ Types
  BY DEF BurstInv
<1>14. /\ RowAt(syncword, "syncword", SyncwordSize, IdAt(j), MuxPart(1), sync_id, sync_position)
       /\ IdAt(j) \in Ids /\ MuxPart(1) \in Nat
  <2>1. MuxAt(at, j) /\ j \in 1 .. Q + 1 /\ RowsAt(j)
    BY <1>13 DEF InPlace, MuxAt
  <2> QED BY <1>13, <2>1, IdIs, MuxParts DEF RowsAt
<1>15. syncword' \in Seq(SymbolType) /\ Len(syncword') <= SyncwordCapacity
  BY <1>6, <1>12, <1>14
<1>16. sync_position' \in 0 .. SyncwordSize - 1
  <2>1. PICK x \in Nat : x = sync_position + space
    BY <1>2, <1>4
  <2>2. x % S \in Nat /\ x % S < S
    BY <1>3, DivisionOf
  <2> QED BY <1>3, <1>11, <2>1, <2>2
<1>17. sync_id' \in Ids
  <2>1. sync_position \in Nat /\ space + 1 \in Nat /\ space + 1 > 0
    BY <1>2, <1>4
  <2>2. PICK d, x \in Nat : d = sync_position /\ x = space + 1 /\ x > 0
    BY <2>1
  <2>3. IdOf(sync_id, d, x, SyncwordSize) \in Ids
    BY <1>2, <1>3, <2>2, IdProperties
  <2> QED BY <1>11, <2>2, <2>3
<1>18. TypeOK'
  BY <1>1, <1>6, <1>15, <1>16, <1>17
     DEF TypeOK, packet_vars, ramp_vars, flush_vars, mux_vars, shaper_vars
<1>19. ASSUME NEW k \in 1 .. Q + 1, IdAt(k) \in Ids, MuxPart(1) \in Nat, RowsAt(k)
       PROVE  RowsAt(k)'
  <2>1. IdAt(k)' = IdAt(k) /\ MuxPart(1)' = MuxPart(1) /\ MuxPart(3)' = MuxPart(3)
        /\ MuxPart(4)' = MuxPart(4)
    BY <1>6, PartsStay, IdStays DEF packet_vars
  <2>2. RowAt(syncword', "syncword", SyncwordSize, IdAt(k), MuxPart(1), sync_id', sync_position')
    BY <1>12, <1>19 DEF RowsAt
  <2>3. UNCHANGED <<ramp_down, ramp_id, ramp_count, flush, flush_count>>
    BY <1>6 DEF ramp_vars, flush_vars
  <2> QED BY <1>19, <2>1, <2>2, <2>3 DEF RowsAt
<1> QED BY <1>6, <1>18, <1>19, SourceKeeps

(* The source of the ramp-down keeps the invariant. *)
LEMMA RampDownKeeps ==
  ASSUME BurstInv, NEW n \in 1 .. RampDownCapacity, RampDown(n)
  PROVE  BurstInv'
<1>1. TypeOK
  BY DEF BurstInv, Types, NoBlockFails
<1>2. /\ ramp_count \in 0 .. RampDownSize - 1 /\ ramp_id \in Ids
      /\ ramp_down \in Seq(SymbolType)
  BY <1>1 DEF TypeOK
<1>3. PICK S \in Nat : S = RampDownSize /\ S > 0
  BY Sizes
<1>4. n \in Nat /\ n > 0
  BY Sizes
<1>5. /\ ramp_down' = ramp_down
          \o [i \in 1 .. n |->
               Symbol(IdOf(ramp_id, ramp_count, i, RampDownSize), "ramp_down",
                      ((ramp_count + i - 1) % RampDownSize) + 1,
                      LengthTags(ramp_count, n, RampDownSize)[i])]
      /\ ramp_id' = IdOf(ramp_id, ramp_count, n + 1, RampDownSize)
      /\ ramp_count' = (ramp_count + n) % RampDownSize
  BY DEF RampDown, CountAfter
<1>6. /\ Len(ramp_down) + n <= RampDownCapacity
      /\ UNCHANGED <<sync_vars, packet_vars, flush_vars, mux_vars, muxed, history,
                     filtered, scaled, shaper_vars, queue, out>>
  BY DEF RampDown
<1>9. PICK more : more = [i \in 1 .. n |->
                            RowItem("ramp_down", RampDownSize, ramp_id, ramp_count, i)]
  OBVIOUS
<1>10. ramp_down' = ramp_down \o more
  <2>1. ASSUME NEW i \in 1 .. n
        PROVE  Symbol(IdOf(ramp_id, ramp_count, i, RampDownSize), "ramp_down",
                      ((ramp_count + i - 1) % RampDownSize) + 1,
                      LengthTags(ramp_count, n, RampDownSize)[i])
                 = RowItem("ramp_down", RampDownSize, ramp_id, ramp_count, i)
    <3>1. LengthTags(ramp_count, n, RampDownSize)[i]
            = IF (ramp_count + i - 1) % RampDownSize = 0 THEN RampDownSize ELSE 0
      BY <1>2, <1>3, <1>4, TagsOfStream
    <3> QED BY <3>1 DEF RowItem
  <2>2. [i \in 1 .. n |->
          Symbol(IdOf(ramp_id, ramp_count, i, RampDownSize), "ramp_down",
                 ((ramp_count + i - 1) % RampDownSize) + 1,
                 LengthTags(ramp_count, n, RampDownSize)[i])] = more
    BY <1>9, <2>1
  <2> QED BY <1>5, <2>2
<1>12. ASSUME NEW id \in Ids, NEW d \in Nat,
              RowAt(ramp_down, "ramp_down", RampDownSize, id, d, ramp_id, ramp_count)
       PROVE  /\ ramp_down' \in Seq(SymbolType) /\ Len(ramp_down') = Len(ramp_down) + n
              /\ RowAt(ramp_down', "ramp_down", RampDownSize, id, d, ramp_id', ramp_count')
  <2>1. /\ ramp_down \o more \in Seq(SymbolType)
        /\ Len(ramp_down \o more) = Len(ramp_down) + n
        /\ RowAt(ramp_down \o more, "ramp_down", RampDownSize, id, d,
                 IdOf(ramp_id, ramp_count, n + 1, RampDownSize),
                 (ramp_count + n) % RampDownSize)
    BY <1>2, <1>3, <1>4, <1>9, <1>12, RowGrows
  <2> QED BY <1>5, <1>10, <2>1
<1>13. PICK at, pat, j : InPlace(at, pat, j) /\ Types
  BY DEF BurstInv
<1>14. /\ RowAt(ramp_down, "ramp_down", RampDownSize, IdAt(j), MuxPart(3), ramp_id, ramp_count)
       /\ IdAt(j) \in Ids /\ MuxPart(3) \in Nat
  <2>1. MuxAt(at, j) /\ j \in 1 .. Q + 1 /\ RowsAt(j)
    BY <1>13 DEF InPlace, MuxAt
  <2> QED BY <1>13, <2>1, IdIs, MuxParts DEF RowsAt
<1>15. ramp_down' \in Seq(SymbolType) /\ Len(ramp_down') <= RampDownCapacity
  BY <1>6, <1>12, <1>14
<1>16. ramp_count' \in 0 .. RampDownSize - 1
  <2>1. PICK x \in Nat : x = ramp_count + n
    BY <1>2, <1>4
  <2>2. x % S \in Nat /\ x % S < S
    BY <1>3, DivisionOf
  <2> QED BY <1>3, <1>5, <2>1, <2>2
<1>17. ramp_id' \in Ids
  <2>1. ramp_count \in Nat /\ n + 1 \in Nat /\ n + 1 > 0
    BY <1>2, <1>4
  <2>2. PICK d, x \in Nat : d = ramp_count /\ x = n + 1 /\ x > 0
    BY <2>1
  <2>3. IdOf(ramp_id, d, x, RampDownSize) \in Ids
    BY <1>2, <1>3, <2>2, IdProperties
  <2> QED BY <1>5, <2>2, <2>3
<1>18. TypeOK'
  BY <1>1, <1>6, <1>15, <1>16, <1>17
     DEF TypeOK, packet_vars, sync_vars, flush_vars, mux_vars, shaper_vars
<1>19. ASSUME NEW k \in 1 .. Q + 1, IdAt(k) \in Ids, MuxPart(3) \in Nat, RowsAt(k)
       PROVE  RowsAt(k)'
  <2>1. IdAt(k)' = IdAt(k) /\ MuxPart(1)' = MuxPart(1) /\ MuxPart(3)' = MuxPart(3)
        /\ MuxPart(4)' = MuxPart(4)
    BY <1>6, PartsStay, IdStays DEF packet_vars
  <2>2. RowAt(ramp_down', "ramp_down", RampDownSize, IdAt(k), MuxPart(3), ramp_id', ramp_count')
    BY <1>12, <1>19 DEF RowsAt
  <2>3. UNCHANGED <<syncword, sync_id, sync_position, flush, flush_count>>
    BY <1>6 DEF sync_vars, flush_vars
  <2> QED BY <1>19, <2>1, <2>2, <2>3 DEF RowsAt
<1> QED BY <1>6, <1>18, <1>19, SourceKeeps

(* The source of the flush keeps the invariant. *)
LEMMA FlushKeeps ==
  ASSUME BurstInv, NEW n \in 1 .. FlushCapacity, Flush(n)
  PROVE  BurstInv'
<1>1. TypeOK
  BY DEF BurstInv, Types, NoBlockFails
<1>2. flush_count \in 0 .. FlushSize - 1 /\ flush \in Seq(SymbolType)
  BY <1>1 DEF TypeOK
<1>3. PICK S \in Nat : S = FlushSize /\ S > 0
  BY Sizes
<1>4. n \in Nat /\ n > 0
  BY Sizes
<1>5. /\ flush' = flush
          \o [i \in 1 .. n |-> [of |-> Zero, bits |-> LengthTags(flush_count, n, FlushSize)[i]]]
      /\ flush_count' = (flush_count + n) % FlushSize
  BY DEF Flush, CountAfter
<1>6. /\ Len(flush) + n <= FlushCapacity
      /\ UNCHANGED <<sync_vars, packet_vars, ramp_vars, mux_vars, muxed, history,
                     filtered, scaled, shaper_vars, queue, out>>
  BY DEF Flush
<1>9. PICK more : /\ more = MoreZeros(flush_count, n)
                  /\ more = [i \in 1 .. n |-> ZeroItem(flush_count, i)]
  BY DEF MoreZeros
<1>10. flush' = flush \o more
  <2>1. ASSUME NEW i \in 1 .. n
        PROVE  [of |-> Zero, bits |-> LengthTags(flush_count, n, FlushSize)[i]]
                 = ZeroItem(flush_count, i)
    <3>1. LengthTags(flush_count, n, FlushSize)[i]
            = IF (flush_count + i - 1) % FlushSize = 0 THEN FlushSize ELSE 0
      BY <1>2, <1>3, <1>4, TagsOfStream
    <3> QED BY <3>1 DEF ZeroItem
  <2>2. [i \in 1 .. n |-> [of |-> Zero, bits |-> LengthTags(flush_count, n, FlushSize)[i]]] = more
    BY <1>9, <2>1
  <2> QED BY <1>5, <2>2
<1>12. ASSUME NEW d \in Nat, ZerosAt(flush, d, flush_count)
       PROVE  /\ flush' \in Seq(SymbolType) /\ Len(flush') = Len(flush) + n
              /\ ZerosAt(flush', d, flush_count')
  <2>1. /\ flush \o more \in Seq(SymbolType)
        /\ Len(flush \o more) = Len(flush) + n
        /\ ZerosAt(flush \o more, d, (flush_count + n) % FlushSize)
    <3>1. PICK c : c = flush_count
      OBVIOUS
    <3>2. ZerosAt(flush, d, c)
      BY <1>12, <3>1
    <3>3. /\ flush \o MoreZeros(c, n) \in Seq(SymbolType)
          /\ Len(flush \o MoreZeros(c, n)) = Len(flush) + n
          /\ ZerosAt(flush \o MoreZeros(c, n), d, (c + n) % FlushSize)
      BY <1>2, <1>4, <3>2, ZerosGrow
    <3> QED BY <1>9, <3>1, <3>3
  <2> QED BY <1>5, <1>10, <2>1
<1>13. PICK at, pat, j : InPlace(at, pat, j) /\ Types
  BY DEF BurstInv
<1>14. ZerosAt(flush, MuxPart(4), flush_count) /\ MuxPart(4) \in Nat
  <2>1. MuxAt(at, j) /\ RowsAt(j)
    BY <1>13 DEF InPlace
  <2> QED BY <1>13, <2>1, MuxParts DEF RowsAt
<1>15. flush' \in Seq(SymbolType) /\ Len(flush') <= FlushCapacity
  BY <1>6, <1>12, <1>14
<1>16. flush_count' \in 0 .. FlushSize - 1
  <2>1. PICK x \in Nat : x = flush_count + n
    BY <1>2, <1>4
  <2>2. x % S \in Nat /\ x % S < S
    BY <1>3, DivisionOf
  <2> QED BY <1>3, <1>5, <2>1, <2>2
<1>18. TypeOK'
  BY <1>1, <1>6, <1>15, <1>16
     DEF TypeOK, packet_vars, sync_vars, ramp_vars, mux_vars, shaper_vars
<1>19. ASSUME NEW k \in 1 .. Q + 1, MuxPart(4) \in Nat, RowsAt(k)
       PROVE  RowsAt(k)'
  <2>1. IdAt(k)' = IdAt(k) /\ MuxPart(1)' = MuxPart(1) /\ MuxPart(3)' = MuxPart(3)
        /\ MuxPart(4)' = MuxPart(4)
    BY <1>6, PartsStay, IdStays DEF packet_vars
  <2>2. ZerosAt(flush', MuxPart(4), flush_count')
    BY <1>12, <1>19 DEF RowsAt
  <2>3. UNCHANGED <<syncword, sync_id, sync_position, ramp_down, ramp_id, ramp_count>>
    BY <1>6 DEF sync_vars, ramp_vars
  <2> QED BY <1>19, <2>1, <2>2, <2>3 DEF RowsAt
<1> QED BY <1>6, <1>18, <1>19, SourceKeeps

-----------------------------------------------------------------------------
(* The packets keep the invariant.                                         *)

(* The symbols of a packet have the type of a symbol. *)
LEMMA PacketItems ==
  ASSUME NEW p \in Packets, NEW m \in Nat
  PROVE  Piece("packet", p, m) \in SymbolType
<1>1. p.id \in 0 .. NumIds /\ p.len \in Nat
  BY PacketSizes, Sizes DEF Ids
<1> QED BY <1>1 DEF Piece, Symbol, SymbolType

(* One item more in a link. *)
LEMMA OneComes ==
  ASSUME NEW form \in Forms, NEW list \in Seq(Packets), NEW at, Places(form, list, at),
         NEW S, NEW link \in Seq(S), Holds(form, link, list, at),
         NEW e \in S, NEW k \in 1 .. Len(list), NEW g \in Nat,
         at[k] + g = Len(link), g < Span(form, list[k]),
         e = Piece(form, list[k], g + 1)
  PROVE  /\ Append(link, e) \in Seq(S) /\ Len(Append(link, e)) = Len(link) + 1
         /\ Holds(form, Append(link, e), list, at)
<1>1. Append(link, e) \in Seq(S) /\ Len(Append(link, e)) = Len(link) + 1
  BY AppendOne
<1>2. PICK more \in Seq(S) : more = <<e>> /\ Len(more) = 1 /\ more[1] = e
  <2>1. <<e>> \in Seq(S) /\ Len(<<e>>) = 1 /\ <<e>>[1] = e
    OBVIOUS
  <2> QED BY <2>1
<1>3. Append(link, e) = link \o more
  BY <1>2, AppendIsConcat
<1>4. Span(form, list[k]) \in Nat
  BY PlaceTypes
<1>5. g + Len(more) <= Span(form, list[k])
  BY <1>2, <1>4
<1>6. \A i \in 1 .. Len(more) : more[i] = Piece(form, list[k], g + i)
  BY <1>2
<1>7. Holds(form, link \o more, list, at)
  BY <1>5, <1>6, ItemsCome
<1> QED BY <1>1, <1>3, <1>7

(* Nothing is remembered of any burst before it begins. *)
LEMMA NothingYet ==
  ASSUME NEW past, NEW p, NEW q, Remembers(past, p, 0)
  PROVE  Remembers(past, q, 0)
<1>1. PICK D \in Int : D = FIR!Depth
  BY Sizes DEF FIR!Depth
<1>2. \A i \in 1 .. D - 1 : past[i] = Zero
  <2>1. \A i \in 1 .. D - 1 : ~(i <= 0)
    OBVIOUS
  <2> QED BY <1>1, <2>1 DEF Remembers
<1>3. \A i \in 1 .. D - 1 : ~(i <= 0)
  OBVIOUS
<1> QED BY <1>1, <1>2, <1>3 DEF Remembers

(* The next symbol of a packet. *)
LEMMA PacketGoesOn ==
  ASSUME BurstInv, NEW len \in Lengths, Packet(len), place # packet.len
  PROVE  BurstInv' /\ UNCHANGED queue
<1>1. PICK at, pat, j : InPlace(at, pat, j)
  BY DEF BurstInv
<1>2. /\ BurstsAt(at) /\ HistoryAt(at) /\ MuxAt(at, j) /\ PacketsAt(pat, j) /\ RowsAt(j)
      /\ Types /\ Chain /\ ShaperInBurst
  BY <1>1 DEF InPlace, BurstInv
<1>3. /\ Len(packets) < PacketsCapacity
      /\ place' = place + 1
      /\ packets' = Append(packets, Symbol(packet.id, "packet", place + 1, 0))
      /\ UNCHANGED <<packet, queue>>
      /\ UNCHANGED <<sync_vars, ramp_vars, flush_vars, mux_vars, muxed, history,
                     filtered, scaled, shaper_vars, out>>
  BY DEF Packet
<1>4. /\ packet \in Packets /\ packet.len \in Nat /\ place \in Nat /\ place > 0
      /\ place < packet.len /\ TypeOK /\ packets \in Seq(SymbolType) /\ Len(packets) \in Nat
  <2>1. TypeOK
    BY <1>2 DEF Types, NoBlockFails
  <2>2. packet \in Packets /\ place \in 1 .. packet.len /\ packets \in Seq(SymbolType)
    BY <2>1 DEF TypeOK
  <2> QED BY <1>2, <2>1, <2>2, TypeFacts
<1>5. Coming > 0 /\ Q > 0 /\ queue[Q] = packet /\ Q \in Nat
  BY <1>2, <1>4, TypeFacts DEF Coming, Chain
<1>6. Symbol(packet.id, "packet", place + 1, 0) = Piece("packet", packet, place + 1)
  BY <1>4 DEF Piece
<1>7. PICK e \in SymbolType : e = Piece("packet", packet, place + 1)
  <2>1. place + 1 \in Nat
    BY <1>4
  <2> QED BY <1>4, <2>1, PacketItems
<1>8. Q \in 1 .. Len(queue) /\ queue \in Seq(Packets) /\ "packet" \in Forms
  BY <1>2, <1>5 DEF Q, Types, Forms
<1>9. Places("packet", queue, pat) /\ Holds("packet", packets, queue, pat)
  BY <1>2 DEF PacketsAt
<1>10. pat[Q + 1] = pat[Q] + packet.len /\ pat[Q] \in Int /\ pat[Q + 1] \in Int
  <2>1. pat[Q + 1] = pat[Q] + Span("packet", queue[Q]) /\ pat[Q] \in Int /\ pat[Q + 1] \in Int
    BY <1>8, <1>9, PlaceTypes
  <2> QED BY <1>5, <2>1 DEF Span
<1>11. PICK x, y, l, g, c \in Int :
         x = pat[Q] /\ y = pat[Q + 1] /\ l = packet.len /\ g = place /\ c = Len(packets)
  BY <1>4, <1>10
<1>12. c = y - (l - g) /\ y = x + l
  BY <1>2, <1>10, <1>11 DEF PacketsAt, Coming
<1>13. x + g = c
  BY <1>12
<1>14. /\ Append(packets, e) \in Seq(SymbolType) /\ Len(Append(packets, e)) = Len(packets) + 1
       /\ Holds("packet", Append(packets, e), queue, pat)
  <2>1. pat[Q] + place = Len(packets) /\ place < Span("packet", queue[Q])
    BY <1>4, <1>5, <1>11, <1>13 DEF Span
  <2>2. e = Piece("packet", queue[Q], place + 1)
    BY <1>5, <1>7
  <2> QED BY <1>4, <1>8, <1>9, <2>1, <2>2, OneComes
<1>15. packets' = Append(packets, e)
  BY <1>3, <1>6, <1>7
<1>16. TypeOK'
  <2>1. packets' \in Seq(SymbolType) /\ Len(packets') <= PacketsCapacity
    BY <1>3, <1>4, <1>14, <1>15, Sizes
  <2>2. place' \in 1 .. packet'.len
    BY <1>3, <1>4
  <2> QED BY <1>3, <1>4, <2>1, <2>2
          DEF TypeOK, sync_vars, ramp_vars, flush_vars, mux_vars, shaper_vars
<1>17. UNCHANGED <<mux_failed, shaper_remaining, shaper_packet_len, shaper_failed>>
  BY <1>3 DEF mux_vars, shaper_vars
<1>18. BurstsAt(at)' /\ HistoryAt(at)' /\ MuxAt(at, j)'
  BY <1>2, <1>3, <1>17, BurstsStay, HistoryStays, MuxStays
<1>19. RowsAt(j)' /\ ShaperInBurst'
  BY <1>2, <1>3, <1>17, RowsStay, ShaperStays
<1>20. Q' = Q /\ Coming' = l - (g + 1)
  BY <1>3, <1>11 DEF Q, Coming
<1>21. PacketsAt(pat, j)'
  <2>1. MuxPart(2)' = MuxPart(2)
    BY <1>3, PartsStay
  <2>2. Len(packets') = c + 1 /\ pat[Q + 1] - Coming' = y - (l - (g + 1))
    BY <1>11, <1>14, <1>15, <1>20
  <2>3. c + 1 = y - (l - (g + 1))
    BY <1>12
  <2> QED BY <1>2, <1>3, <1>14, <1>15, <1>20, <2>1, <2>2, <2>3 DEF PacketsAt
<1>22. Chain'
  BY <1>2, <1>3, <1>5, <1>20 DEF Chain
<1>23. Types'
  BY <1>2, <1>3, <1>16, <1>17 DEF Types, NoBlockFails
<1> QED BY <1>3, <1>18, <1>19, <1>21, <1>22, <1>23 DEF BurstInv, InPlace

(* The places of samples when a packet comes. *)
LEMMA SamplesWait ==
  ASSUME Types, NEW form \in {"samples", "scaled"}, NEW S, NEW link \in Seq(S),
         NEW at, Places("symbols", queue, at), NEW c \in Int,
         Holds(form, link, queue, SampleAt(at, c)), NEW p \in Packets,
         Len(link) <= SampleAt(at, c)[Q + 1],
         NEW next, next = [k \in 1 .. Q + 2 |->
                             IF k = Q + 2 THEN at[Q + 1] + BurstSize(p) ELSE at[k]]
  PROVE  Holds(form, link, Append(queue, p), [k \in 1 .. Q + 2 |-> next[k] * Interpolation + c])
<1>1. Q \in Nat /\ Q = Len(queue) /\ queue \in Seq(Packets) /\ "symbols" \in Forms /\ form \in Forms
  BY TypeFacts DEF Q, Types, Forms
<1>2. PICK I \in Nat : I = Interpolation
  BY Sizes
<1>3. PICK s \in Nat : s = BurstSize(p)
  BY PacketSizes
<1>4. PICK sat : sat = SampleAt(at, c)
  OBVIOUS
<1>5. sat = [k \in 1 .. Len(queue) + 1 |-> at[k] * Interpolation + c]
  BY <1>1, <1>4 DEF SampleAt
<1>6. Places(form, queue, sat)
  BY <1>1, <1>5, SamplePlaces
<1>7. PICK a : a = [k \in 1 .. Len(queue) + 2 |->
                      IF k = Len(queue) + 2 THEN sat[Len(queue) + 1] + Span(form, p) ELSE sat[k]]
  OBVIOUS
<1>8. Holds(form, link, Append(queue, p), a)
  <2>1. Len(link) <= sat[Len(queue) + 1] /\ Holds(form, link, queue, sat)
    BY <1>1, <1>4
  <2> QED BY <1>1, <1>6, <1>7, <2>1, PacketComes
<1>9. [k \in 1 .. Q + 2 |-> next[k] * Interpolation + c] = a
  <2>1. ASSUME NEW k \in 1 .. Q + 2
        PROVE  next[k] * Interpolation + c = a[k]
    <3>1. CASE k = Q + 2
      <4>1. Q + 1 \in 1 .. Q + 1
        BY <1>1
      <4>2. PICK x \in Int : x = at[Q + 1]
        BY <1>1, <4>1, PlaceTypes
      <4>3. sat[Q + 1] = (x * I) + c
        BY <1>1, <1>2, <1>5, <4>1, <4>2
      <4>4. Span(form, p) = s * I
        BY <1>2, <1>3 DEF Span
      <4>5. a[k] = ((x * I) + c) + (s * I)
        BY <1>1, <1>7, <3>1, <4>3, <4>4
      <4>6. next[k] = x + s
        BY <1>3, <3>1, <4>2
      <4>7. ((x + s) * I) + c = ((x * I) + c) + (s * I)
        OBVIOUS
      <4> QED BY <1>2, <4>5, <4>6, <4>7
    <3>2. CASE k # Q + 2
      <4>1. k \in 1 .. Q + 1
        BY <1>1, <3>2
      <4>2. next[k] = at[k] /\ a[k] = sat[k]
        BY <1>1, <1>7, <3>2
      <4> QED BY <1>1, <1>5, <4>1, <4>2
    <3> QED BY <3>1, <3>2
  <2> QED BY <1>1, <1>7, <2>1
<1> QED BY <1>8, <1>9

(* The first symbol of the next packet. *)
LEMMA PacketBegins ==
  ASSUME BurstInv, NEW len \in Lengths, Packet(len), place = packet.len
  PROVE  BurstInv' /\ packet' \in Packets /\ queue' = Append(queue, packet')
<1>1. PICK at, pat, j : InPlace(at, pat, j)
  BY DEF BurstInv
<1>2. /\ BurstsAt(at) /\ HistoryAt(at) /\ MuxAt(at, j) /\ PacketsAt(pat, j) /\ RowsAt(j)
      /\ Types /\ Chain /\ ShaperInBurst
  BY <1>1 DEF InPlace, BurstInv
<1>3. PICK p : p = [id |-> NextId(packet.id), len |-> len]
  OBVIOUS
<1>4. /\ Len(packets) < PacketsCapacity
      /\ packet' = p /\ place' = 1
      /\ packets' = Append(packets, Symbol(p.id, "packet", 1, len))
      /\ queue' = Append(queue, p)
      /\ UNCHANGED <<sync_vars, ramp_vars, flush_vars, mux_vars, muxed, history,
                     filtered, scaled, shaper_vars, out>>
  BY <1>3 DEF Packet
<1>5. TypeOK /\ packets \in Seq(SymbolType) /\ queue \in Seq(Packets)
  BY <1>2 DEF Types, NoBlockFails, TypeOK
<1>6. p \in Packets /\ p.len = len /\ len \in Nat /\ len > 0 /\ p.id = NextId(packet.id)
  <2>1. packet \in Packets /\ packet.len \in Nat /\ packet.id \in Ids
    BY <1>2, TypeFacts, PacketSizes
  <2>2. NextId(packet.id) \in Ids
    <3>1. PICK x \in Nat : x = packet.id
      BY <2>1, PacketSizes
    <3>2. x % NumIds \in Nat /\ x % NumIds < NumIds
      BY Sizes, DivisionOf
    <3> QED BY <3>1, <3>2, Sizes DEF Ids, NextId
  <2> QED BY <1>3, <2>2, Sizes DEF Packets
<1>7. Q \in Nat /\ Q = Len(queue) /\ Coming = 0 /\ Len(packets) \in Nat
  <2>1. packet.len \in Nat
    BY <1>2, TypeFacts
  <2> QED BY <1>2, <2>1, TypeFacts DEF Q, Coming
<1>8. /\ Q' = Q + 1 /\ queue' \in Seq(Packets)
      /\ \A k \in 1 .. Q : queue'[k] = queue[k]
      /\ queue'[Q + 1] = p
  BY <1>4, <1>5, <1>6, <1>7, AppendOne DEF Q
<1>9. UNCHANGED <<mux_packet_lens, mux_current_input, mux_remaining, mux_failed,
                  shaper_remaining, shaper_packet_len, shaper_failed,
                  sync_position, syncword, sync_id, ramp_count, ramp_down, ramp_id,
                  flush_count, flush, muxed, history, filtered, scaled>>
  BY <1>4 DEF mux_vars, shaper_vars, sync_vars, ramp_vars, flush_vars
<1>10. /\ MuxPart(1)' = MuxPart(1) /\ MuxPart(2)' = MuxPart(2) /\ MuxPart(3)' = MuxPart(3)
       /\ MuxPart(4)' = MuxPart(4) /\ MuxSent' = MuxSent /\ Sent' = Sent
  BY <1>4, <1>9, PartsStay DEF Sent
<1>11. j \in 1 .. Q + 1 /\ j \in Nat
  BY <1>2, <1>7 DEF MuxAt
(* The bursts. *)
<1>bursts. PICK nx : nx = [k \in 1 .. Q + 2 |-> IF k = Q + 2 THEN at[Q + 1] + BurstSize(p) ELSE at[k]]
  OBVIOUS
<1>12. /\ \A k \in 1 .. Q + 1 : at[k] \in Int
       /\ Len(muxed) <= at[Q + 1] /\ at[Q + 1] >= 0 /\ Sent \in Nat
  BY <1>2, BurstPlaces
<1>13. \A k \in 1 .. Q + 1 : nx[k] = at[k]
  BY <1>7, <1>bursts
<1>14. BurstsAt(nx)'
  <2>1. "symbols" \in Forms /\ Places("symbols", queue, at) /\ Holds("symbols", muxed, queue, at)
        /\ muxed \in Seq(SymbolType)
    BY <1>2, <1>5 DEF Forms, BurstsAt, TypeOK
  <2>2. nx = [k \in 1 .. Len(queue) + 2 |->
                IF k = Len(queue) + 2 THEN at[Len(queue) + 1] + Span("symbols", p) ELSE at[k]]
    BY <1>7, <1>bursts DEF Span
  <2>3. /\ Places("symbols", Append(queue, p), nx)
        /\ Holds("symbols", muxed, Append(queue, p), nx)
    <3>1. Len(muxed) <= at[Len(queue) + 1]
      BY <1>7, <1>12
    <3> QED BY <1>5, <1>6, <2>1, <2>2, <3>1, PacketComes
  <2>4. nx[1] = at[1]
    BY <1>7, <1>13
  <2>5. PICK f, s \in Nat : f = Len(filtered) /\ s = Len(scaled)
    BY <1>2, TypeFacts
  <2>6. filtered \in Seq(Pieces("samples")) /\ scaled \in Seq(Pieces("scaled"))
    BY <1>2 DEF Types
  <2>7. /\ Holds("samples", filtered, queue, SampleAt(at, f))
        /\ Holds("scaled", scaled, queue, SampleAt(at, f + s))
        /\ at[1] * Interpolation + (f + s) = 0 - Sent
    BY <1>2, <2>5 DEF BurstsAt
  <2>8. Len(filtered) <= SampleAt(at, f)[Q + 1] /\ Len(scaled) <= SampleAt(at, f + s)[Q + 1]
    <3>1. Q + 1 \in 1 .. Q + 1
      BY <1>7
    <3>2. PICK y \in Nat : y = at[Q + 1]
      BY <1>12, <3>1
    <3>3. PICK I \in Nat : I = Interpolation
      BY Sizes
    <3>4. SampleAt(at, f)[Q + 1] = (y * I) + f /\ SampleAt(at, f + s)[Q + 1] = (y * I) + (f + s)
      BY <3>1, <3>2, <3>3 DEF SampleAt
    <3>5. y * I \in Nat
      OBVIOUS
    <3>6. PICK z \in Nat : z = y * I
      BY <3>5
    <3> QED BY <2>5, <3>4, <3>6
  <2>10. /\ Holds("samples", filtered, Append(queue, p), [k \in 1 .. Q + 2 |-> nx[k] * Interpolation + f])
         /\ Holds("scaled", scaled, Append(queue, p), [k \in 1 .. Q + 2 |-> nx[k] * Interpolation + (f + s)])
    <3>1. f + s \in Int /\ f \in Int
      OBVIOUS
    <3>3. Holds("samples", filtered, Append(queue, p), [k \in 1 .. Q + 2 |-> nx[k] * Interpolation + f])
      BY <1>2, <1>6, <2>1, <2>6, <2>7, <2>8, <3>1, <1>bursts, SamplesWait
    <3>4. Holds("scaled", scaled, Append(queue, p), [k \in 1 .. Q + 2 |-> nx[k] * Interpolation + (f + s)])
      BY <1>2, <1>6, <2>1, <2>6, <2>7, <2>8, <3>1, <1>bursts, SamplesWait
    <3> QED BY <3>3, <3>4
  <2>11. Q' + 1 = Q + 2
    BY <1>7, <1>8
  <2>12. /\ SampleAt(nx, f)' = [k \in 1 .. Q + 2 |-> nx[k] * Interpolation + f]
         /\ SampleAt(nx, f + s)' = [k \in 1 .. Q + 2 |-> nx[k] * Interpolation + (f + s)]
    BY <2>11 DEF SampleAt
  <2>13. /\ SampleAt(nx, Len(filtered))' = [k \in 1 .. Q + 2 |-> nx[k] * Interpolation + f]
         /\ SampleAt(nx, Len(filtered) + Len(scaled))'
              = [k \in 1 .. Q + 2 |-> nx[k] * Interpolation + (f + s)]
    BY <1>9, <2>5, <2>11 DEF SampleAt
  <2>14. nx[1] * Interpolation + (Len(filtered) + Len(scaled)) = 0 - Sent
    BY <2>4, <2>5, <2>7
  <2>15. Places("symbols", queue', nx) /\ Holds("symbols", muxed', queue', nx)
    BY <1>4, <1>9, <2>3
  <2>16. /\ Holds("samples", filtered', queue', [k \in 1 .. Q + 2 |-> nx[k] * Interpolation + f])
         /\ Holds("scaled", scaled', queue', [k \in 1 .. Q + 2 |-> nx[k] * Interpolation + (f + s)])
    BY <1>4, <1>9, <2>10
  <2>17. (nx[1] * Interpolation + (Len(filtered) + Len(scaled)) = 0 - Sent)'
    BY <1>9, <1>10, <2>14
  <2> QED BY <2>13, <2>15, <2>16, <2>17 DEF BurstsAt
(* What the filter remembers, and the multiplexer. *)
<1>15. HistoryAt(nx)'
  <2>1. ASSUME NEW k \in 1 .. Q + 2, Filtering(nx, k)'
        PROVE  Remembers(history, queue'[k], 0 - nx[k])
    <3>1. CASE k <= Q
      <4>1. k \in 1 .. Q + 1 /\ k + 1 \in 1 .. Q + 1 /\ k <= Q'
        BY <1>7, <1>8, <3>1
      <4>2. Filtering(at, k)
        BY <1>13, <2>1, <3>1, <4>1 DEF Filtering
      <4>3. Remembers(history, queue[k], 0 - at[k])
        BY <1>2, <4>1, <4>2 DEF HistoryAt
      <4> QED BY <1>8, <1>13, <3>1, <4>1, <4>3
    <3>2. CASE k = Q + 1
      <4>1. Q + 1 \in 1 .. Q + 1
        BY <1>7
      <4>2. nx[k] = at[Q + 1] /\ at[Q + 1] \in Int /\ at[Q + 1] >= 0
        BY <1>12, <1>13, <3>2, <4>1
      <4>3. nx[k] <= 0
        BY <2>1 DEF Filtering
      <4>4. at[Q + 1] = 0
        BY <4>2, <4>3
      <4>5. Filtering(at, Q + 1)
        BY <1>7, <4>4 DEF Filtering
      <4>6. Remembers(history, queue[Q + 1], 0 - at[Q + 1])
        BY <1>2, <4>1, <4>5 DEF HistoryAt
      <4>7. Remembers(history, queue[Q + 1], 0)
        BY <4>4, <4>6
      <4>8. Remembers(history, p, 0)
        BY <4>7, NothingYet
      <4>9. queue'[k] = p /\ 0 - nx[k] = 0
        BY <1>8, <3>2, <4>2, <4>4
      <4> QED BY <4>8, <4>9
    <3>3. CASE k = Q + 2
      <4>1. Q + 1 \in 1 .. Q + 1
        BY <1>7
      <4>2. PICK x, b \in Nat : x = at[Q + 1] /\ b = BurstSize(p) /\ b > 0
        BY <1>6, <1>12, <4>1, PacketSizes
      <4>3. nx[k] = x + b
        BY <1>7, <1>bursts, <3>3, <4>2
      <4>4. nx[k] <= 0
        BY <2>1 DEF Filtering
      <4> QED BY <4>2, <4>3, <4>4
    <3> QED BY <1>7, <3>1, <3>2, <3>3
  <2>2. Q' + 1 = Q + 2
    BY <1>7, <1>8
  <2> QED BY <1>9, <2>1, <2>2 DEF HistoryAt
<1>16. MuxAt(nx, j)'
  <2>1. j \in 1 .. Q' + 1 /\ nx[j] + MuxSent' = Len(muxed')
    BY <1>2, <1>7, <1>8, <1>9, <1>10, <1>11, <1>13 DEF MuxAt
  <2>2. ASSUME mux_packet_lens # <<>>
        PROVE  j <= Q' /\ mux_packet_lens = PartSizes(queue'[j]) /\ MuxSent' > 0
    <3>1. j <= Q /\ mux_packet_lens = PartSizes(queue[j]) /\ MuxSent > 0
      BY <1>2, <2>2 DEF MuxAt
    <3>2. queue'[j] = queue[j]
      BY <1>8, <1>11, <3>1
    <3> QED BY <1>7, <1>8, <1>10, <1>11, <3>1, <3>2
  <2> QED BY <1>2, <1>9, <2>1, <2>2 DEF MuxAt
<1>17. RowsAt(j)'
  <2>1. IdAt(j)' = IdAt(j)
    <3>1. CASE j <= Q
      BY <1>7, <1>8, <1>11, <3>1 DEF IdAt
    <3>2. CASE j = Q + 1
      <4>1. ~(j <= Q) /\ j <= Q'
        BY <1>7, <1>8, <3>2
      <4>2. IdAt(j) = NextId(packet.id) /\ IdAt(j)' = queue'[j].id
        BY <4>1 DEF IdAt
      <4> QED BY <1>6, <1>8, <3>2, <4>2
    <3> QED BY <1>7, <1>11, <3>1, <3>2
  <2> QED BY <1>2, <1>9, <1>10, <2>1 DEF RowsAt
<1>18. Chain' /\ ShaperInBurst'
  <2>1. \A k \in 1 .. Q' - 1 : queue'[k + 1].id = NextId(queue'[k].id)
    <3>1. SUFFICES ASSUME NEW k \in 1 .. Q
                   PROVE  queue'[k + 1].id = NextId(queue'[k].id)
      BY <1>7, <1>8
    <3>2. CASE k = Q
      <4>1. Q > 0 /\ queue[Q] = packet
        BY <1>2, <1>7, <3>1, <3>2 DEF Chain
      <4> QED BY <1>6, <1>7, <1>8, <3>2, <4>1
    <3>3. CASE k # Q
      <4>1. k \in 1 .. Q - 1 /\ k + 1 \in 1 .. Q
        BY <1>7, <3>3
      <4> QED BY <1>2, <1>8, <4>1 DEF Chain
    <3> QED BY <3>2, <3>3
  <2>2. Q' > 0 /\ queue'[Q'] = packet'
    BY <1>4, <1>7, <1>8
  <2>3. Chain'
    BY <2>1, <2>2 DEF Chain
  <2>4. ShaperInBurst'
    BY <1>2, <1>7, <1>8, <1>9 DEF ShaperInBurst
  <2> QED BY <2>3, <2>4
(* The packets. *)
<1>packets. PICK px : px = [k \in 1 .. Q + 2 |-> IF k = Q + 2 THEN pat[Q + 1] + p.len ELSE pat[k]]
  OBVIOUS
<1>19. /\ packets' \in Seq(SymbolType) /\ Len(packets') = Len(packets) + 1
       /\ PacketsAt(px, j)'
  <2>1. "packet" \in Forms /\ Places("packet", queue, pat) /\ Holds("packet", packets, queue, pat)
        /\ pat[j] = 0 - MuxPart(2) /\ Len(packets) = pat[Q + 1] - Coming
    BY <1>2 DEF Forms, PacketsAt
  <2>2. Q + 1 \in 1 .. Q + 1 /\ \A k \in 1 .. Q + 1 : px[k] = pat[k] /\ pat[k] \in Int
    BY <1>5, <1>7, <1>packets, <2>1, PlaceTypes
  <2>3. pat[Q + 1] = Len(packets)
    BY <1>7, <2>1, <2>2
  <2>4. px = [k \in 1 .. Len(queue) + 2 |->
                IF k = Len(queue) + 2 THEN pat[Len(queue) + 1] + Span("packet", p) ELSE pat[k]]
    BY <1>7, <1>packets DEF Span
  <2>5. Places("packet", queue', px) /\ Holds("packet", packets, queue', px)
    <3>1. Len(packets) <= pat[Len(queue) + 1]
      BY <1>7, <2>3
    <3> QED BY <1>4, <1>5, <1>6, <2>1, <2>4, <3>1, PacketComes
  <2>6. PICK e \in SymbolType : e = Piece("packet", p, 1) /\ e = Symbol(p.id, "packet", 1, len)
    <3>1. Piece("packet", p, 1) \in SymbolType
      BY <1>6, PacketItems
    <3>2. Piece("packet", p, 1) = Symbol(p.id, "packet", 1, len)
      BY <1>6 DEF Piece
    <3> QED BY <3>1, <3>2
  <2>7. /\ Append(packets, e) \in Seq(SymbolType) /\ Len(Append(packets, e)) = Len(packets) + 1
        /\ Holds("packet", Append(packets, e), queue', px)
    <3>1. Q + 1 \in 1 .. Len(queue') /\ queue'[Q + 1] = p
      BY <1>7, <1>8 DEF Q
    <3>2. px[Q + 1] + 0 = Len(packets) /\ 0 \in Nat /\ 0 + 1 = 1
      BY <1>7, <2>2, <2>3
    <3>3. 0 < Span("packet", queue'[Q + 1]) /\ e = Piece("packet", queue'[Q + 1], 0 + 1)
      BY <1>6, <2>6, <3>1, <3>2 DEF Span
    <3> QED BY <1>5, <1>8, <2>1, <2>5, <2>6, <3>1, <3>2, <3>3, OneComes
  <2>8. packets' = Append(packets, e)
    BY <1>4, <2>6
  <2>9. px[j] = 0 - MuxPart(2)'
    BY <1>10, <1>11, <2>1, <2>2
  <2>10. Len(packets') = px[Q' + 1] - Coming'
    <3>1. Coming' = len - 1
      BY <1>4, <1>6 DEF Coming
    <3>2. px[Q' + 1] = Len(packets) + len
      BY <1>6, <1>7, <1>8, <1>packets, <2>3
    <3> QED BY <1>6, <1>7, <2>7, <2>8, <3>1, <3>2
  <2> QED BY <2>5, <2>7, <2>8, <2>9, <2>10 DEF PacketsAt
<1>20. Types'
  <2>1. Len(packets') <= PacketsCapacity
    BY <1>4, <1>7, <1>19, Sizes
  <2>2. packet' \in Packets /\ place' \in 1 .. packet'.len
    BY <1>4, <1>6
  <2>3. TypeOK'
    BY <1>5, <1>9, <1>19, <2>1, <2>2 DEF TypeOK
  <2> QED BY <1>2, <1>8, <1>9, <2>3 DEF Types, NoBlockFails
<1> QED BY <1>4, <1>6, <1>14, <1>15, <1>16, <1>17, <1>18, <1>19, <1>20 DEF BurstInv, InPlace

-----------------------------------------------------------------------------
(* The sums of the multiplexer, over some of its four inputs.              *)

(* The sum of f over the inputs of a set. *)
Total(s, f) ==
  ((IF 1 \in s THEN f[1] ELSE 0) + (IF 2 \in s THEN f[2] ELSE 0))
    + ((IF 3 \in s THEN f[3] ELSE 0) + (IF 4 \in s THEN f[4] ELSE 0))

(* A function that adds f up element by element. *)
AddsUp(it, S, f) ==
  it = [s \in SUBSET S |->
          IF s = {} THEN 0
          ELSE f[CHOOSE x \in s : TRUE] + it[s \ {CHOOSE x \in s : TRUE}]]

(* One element less. *)
LEMMA TotalWithout ==
  ASSUME NEW f, f[1] \in Int, f[2] \in Int, f[3] \in Int, f[4] \in Int,
         NEW s \in SUBSET (1 .. 4), NEW x \in s
  PROVE  Total(s, f) = f[x] + Total(s \ {x}, f)
<1>1. x = 1 \/ x = 2 \/ x = 3 \/ x = 4
  OBVIOUS
<1>2. PICK a, b, c, d \in Int : a = f[1] /\ b = f[2] /\ c = f[3] /\ d = f[4]
  OBVIOUS
<1>3. CASE x = 1
  BY <1>2, <1>3 DEF Total
<1>4. CASE x = 2
  BY <1>2, <1>4 DEF Total
<1>5. CASE x = 3
  BY <1>2, <1>5 DEF Total
<1>6. CASE x = 4
  BY <1>2, <1>6 DEF Total
<1> QED BY <1>1, <1>3, <1>4, <1>5, <1>6

(* There is such a function. *)
LEMMA AddsUpExists ==
  ASSUME NEW f, f[1] \in Int, f[2] \in Int, f[3] \in Int, f[4] \in Int,
         NEW S \in SUBSET (1 .. 4)
  PROVE  \E it : AddsUp(it, S, f)
<1>1. PICK w : w = [s \in SUBSET S |-> Total(s, f)]
  OBVIOUS
<1>2. ASSUME NEW s \in SUBSET S
      PROVE  w[s] = IF s = {} THEN 0
                    ELSE f[CHOOSE x \in s : TRUE] + w[s \ {CHOOSE x \in s : TRUE}]
  <2>1. CASE s = {}
    BY <1>1, <2>1 DEF Total
  <2>2. CASE s # {}
    <3>1. PICK y \in s : y = CHOOSE x \in s : TRUE
      BY <2>2
    <3>2. Total(s, f) = f[y] + Total(s \ {y}, f)
      BY TotalWithout
    <3>3. w[s] = Total(s, f) /\ w[s \ {y}] = Total(s \ {y}, f)
      BY <1>1
    <3>4. w[s] = f[y] + w[s \ {y}]
      BY <3>2, <3>3
    <3> QED BY <2>2, <3>1, <3>4
  <2> QED BY <2>1, <2>2
<1>3. AddsUp(w, S, f)
  BY <1>1, <1>2 DEF AddsUp
<1> QED BY <1>3

(* One element of the sum, or none. *)
OneLess(it, S, f, s) ==
  IF s = {} THEN it[s] = 0 /\ Total(s, f) = 0
  ELSE \E x \in s : /\ it[s] = f[x] + it[s \ {x}]
                    /\ Total(s, f) = f[x] + Total(s \ {x}, f)
                    /\ s \ {x} \in SUBSET S

(* Such a function and the total go down alike. *)
LEMMA AddsOne ==
  ASSUME NEW f, f[1] \in Int, f[2] \in Int, f[3] \in Int, f[4] \in Int,
         NEW S \in SUBSET (1 .. 4), NEW it, AddsUp(it, S, f), NEW s \in SUBSET S
  PROVE  OneLess(it, S, f, s)
<1>1. CASE s = {}
  BY <1>1 DEF AddsUp, Total, OneLess
<1>2. CASE s # {}
  <2>1. PICK y \in s : y = CHOOSE x \in s : TRUE
    BY <1>2
  <2>2. it[s] = f[y] + it[s \ {y}]
    BY <1>2, <2>1 DEF AddsUp
  <2>3. Total(s, f) = f[y] + Total(s \ {y}, f)
    BY TotalWithout
  <2> QED BY <1>2, <2>2, <2>3 DEF OneLess
<1> QED BY <1>1, <1>2

(* It gives the sum. *)
LEMMA AddsUpIs ==
  ASSUME NEW f, f[1] \in Int, f[2] \in Int, f[3] \in Int, f[4] \in Int,
         NEW S \in SUBSET (1 .. 4), NEW it, AddsUp(it, S, f)
  PROVE  it[S] = Total(S, f)
<1>0. \A x \in 1 .. 4 : f[x] \in Int
  <2>1. \A x \in 1 .. 4 : x = 1 \/ x = 2 \/ x = 3 \/ x = 4
    OBVIOUS
  <2> QED BY <2>1
<1>1. \A s \in SUBSET S : OneLess(it, S, f, s)
  BY AddsOne
<1>2. ASSUME S = {}
      PROVE  it[S] = Total(S, f)
  <2>1. it[S] = 0 /\ Total(S, f) = 0
    BY <1>2, <1>1 DEF OneLess
  <2> QED BY <2>1
<1>3. SUFFICES ASSUME S # {} PROVE it[S] = Total(S, f)
  BY <1>2
<1>4. PICK a \in S : /\ it[S] = f[a] + it[S \ {a}] /\ S \ {a} \in SUBSET S
                     /\ Total(S, f) = f[a] + Total(S \ {a}, f)
  BY <1>3, <1>1 DEF OneLess
<1>5. PICK A : A = S \ {a} /\ A \in SUBSET S /\ A \in SUBSET (1 .. 4)
  BY <1>4
<1>6. SUFFICES ASSUME A # {} PROVE it[A] = Total(A, f)
  <2>1. A = {} => it[A] = Total(A, f)
    BY <1>5, <1>1 DEF OneLess
  <2> QED BY <1>4, <1>5, <2>1
<1>7. PICK b \in A : /\ it[A] = f[b] + it[A \ {b}] /\ A \ {b} \in SUBSET S
                     /\ Total(A, f) = f[b] + Total(A \ {b}, f)
  BY <1>5, <1>6, <1>1 DEF OneLess
<1>8. PICK B : B = A \ {b} /\ B \in SUBSET S /\ B \in SUBSET (1 .. 4)
  BY <1>5, <1>7
<1>9. SUFFICES ASSUME B # {} PROVE it[B] = Total(B, f)
  <2>1. B = {} => it[B] = Total(B, f)
    BY <1>8, <1>1 DEF OneLess
  <2> QED BY <1>7, <1>8, <2>1
<1>10. PICK c \in B : /\ it[B] = f[c] + it[B \ {c}] /\ B \ {c} \in SUBSET S
                      /\ Total(B, f) = f[c] + Total(B \ {c}, f)
  BY <1>8, <1>9, <1>1 DEF OneLess
<1>11. PICK C : C = B \ {c} /\ C \in SUBSET S /\ C \in SUBSET (1 .. 4)
  BY <1>8, <1>10
<1>12. SUFFICES ASSUME C # {} PROVE it[C] = Total(C, f)
  <2>1. C = {} => it[C] = Total(C, f)
    BY <1>11, <1>1 DEF OneLess
  <2> QED BY <1>10, <1>11, <2>1
<1>13. PICK d \in C : /\ it[C] = f[d] + it[C \ {d}] /\ C \ {d} \in SUBSET S
                      /\ Total(C, f) = f[d] + Total(C \ {d}, f)
  BY <1>11, <1>12, <1>1 DEF OneLess
<1>14. C \ {d} = {}
  <2>1. a \in 1 .. 4 /\ b \in 1 .. 4 /\ c \in 1 .. 4 /\ d \in 1 .. 4
    BY <1>5, <1>8, <1>11
  <2>2. b # a /\ c # a /\ c # b /\ d # a /\ d # b /\ d # c
    BY <1>5, <1>8, <1>11
  <2>3. \A x \in 1 .. 4 : x = a \/ x = b \/ x = c \/ x = d
    BY <2>1, <2>2
  <2>4. \A x \in C \ {d} : x \in 1 .. 4 /\ x # a /\ x # b /\ x # c /\ x # d
    BY <1>5, <1>8, <1>11
  <2> QED BY <2>3, <2>4
<1>15. it[C \ {d}] = 0 /\ Total(C \ {d}, f) = 0
  BY <1>13, <1>14, <1>1 DEF OneLess
<1> QED BY <1>13, <1>15

(* What stands before an input is what the others before it give. *)
LEMMA SumBefore ==
  ASSUME NEW bits, NEW f, f = [i \in 1 .. 4 |-> MUX!Needs(bits, i)],
         f[1] \in Int, f[2] \in Int, f[3] \in Int, f[4] \in Int, NEW j \in 1 .. 4
  PROVE  MUX!Before(bits, j) = Total(1 .. j - 1, f)
<1> DEFINE S == 1 .. j - 1
           pick(s) == CHOOSE x \in s : TRUE
           op(it, s) == IF s = {} THEN 0 ELSE MUX!Needs(bits, pick(s)) + it[s \ {pick(s)}]
           iter == CHOOSE it : it = [s \in SUBSET S |-> op(it, s)]
<1>1. MUX!Before(bits, j) = iter[S]
  BY DEF MUX!Before, MUX!MapThenSumSet, MUX!MapThenFoldSet
<1>2. S \in SUBSET (1 .. 4)
  OBVIOUS
<1>3. ASSUME NEW it
      PROVE  AddsUp(it, S, f) <=> it = [s \in SUBSET S |-> op(it, s)]
  <2>1. ASSUME NEW s \in SUBSET S
        PROVE  op(it, s) = IF s = {} THEN 0
                           ELSE f[CHOOSE x \in s : TRUE] + it[s \ {CHOOSE x \in s : TRUE}]
    <3>1. CASE s = {}
      BY <3>1
    <3>2. CASE s # {}
      <4>1. PICK y \in s : y = pick(s)
        BY <3>2
      <4>2. f[y] = MUX!Needs(bits, y)
        BY <1>2
      <4> QED BY <3>2, <4>1, <4>2
    <3> QED BY <3>1, <3>2
  <2>2. [s \in SUBSET S |-> op(it, s)]
          = [s \in SUBSET S |->
               IF s = {} THEN 0
               ELSE f[CHOOSE x \in s : TRUE] + it[s \ {CHOOSE x \in s : TRUE}]]
    <3> HIDE DEF S, op
    <3> QED BY <2>1
  <2> HIDE DEF S, op
  <2> QED BY <2>2 DEF AddsUp
<1>4. PICK w : AddsUp(w, S, f)
  BY <1>2, AddsUpExists
<1>5. iter = [s \in SUBSET S |-> op(iter, s)]
  <2>1. w = [s \in SUBSET S |-> op(w, s)]
    BY <1>3, <1>4
  <2> QED BY <2>1
<1> HIDE DEF iter
<1>6. AddsUp(iter, S, f)
  BY <1>3, <1>5
<1>7. iter[S] = Total(S, f)
  BY <1>2, <1>6, AddsUpIs
<1> QED BY <1>1, <1>7

(* The tag of the joined packet is the sum of the four lengths. *)
LEMMA SumOfAll ==
  ASSUME NEW bits, bits[1] \in Int, bits[2] \in Int, bits[3] \in Int, bits[4] \in Int
  PROVE  MUX!MapThenSumSet(LAMBDA j : bits[j], MUX!Inputs)
           = (bits[1] + bits[2]) + (bits[3] + bits[4])
<1> DEFINE S == 1 .. 4
           pick(s) == CHOOSE x \in s : TRUE
           op(it, s) == IF s = {} THEN 0 ELSE bits[pick(s)] + it[s \ {pick(s)}]
           iter == CHOOSE it : it = [s \in SUBSET S |-> op(it, s)]
<1>1. MUX!MapThenSumSet(LAMBDA j : bits[j], MUX!Inputs) = iter[S]
  BY DEF MUX!Inputs, MUX!MapThenSumSet, MUX!MapThenFoldSet
<1>2. \A it : AddsUp(it, S, bits) <=> it = [s \in SUBSET S |-> op(it, s)]
  BY DEF AddsUp
<1>3. PICK w : AddsUp(w, S, bits)
  BY AddsUpExists
<1>4. iter = [s \in SUBSET S |-> op(iter, s)]
  <2>1. w = [s \in SUBSET S |-> op(w, s)]
    BY <1>2, <1>3
  <2> QED BY <2>1
<1> HIDE DEF iter
<1>5. AddsUp(iter, S, bits)
  BY <1>2, <1>4
<1>6. iter[S] = Total(S, bits)
  BY <1>5, AddsUpIs
<1>7. 1 \in S /\ 2 \in S /\ 3 \in S /\ 4 \in S
  OBVIOUS
<1> QED BY <1>1, <1>6, <1>7 DEF Total

(* What a call copies: an input is reached once those before it have all   *)
(* that is needed, if there is space.                                      *)
TakenAre(t, avail, space, n1, n2, n3, n4) ==
  /\ t[1] \in Nat /\ t[1] <= avail[1] /\ t[1] <= n1
  /\ t[2] \in Nat /\ t[2] <= avail[2] /\ t[2] <= n2
  /\ t[3] \in Nat /\ t[3] <= avail[3] /\ t[3] <= n3
  /\ t[4] \in Nat /\ t[4] <= avail[4] /\ t[4] <= n4
  /\ (t[1] + t[2]) + (t[3] + t[4]) <= space
  /\ n1 > 0 /\ avail[1] > 0 /\ space > 0 => t[1] > 0
  /\ t[2] > 0 => t[1] = n1
  /\ t[3] > 0 => t[1] = n1 /\ t[2] = n2
  /\ t[4] > 0 => t[1] = n1 /\ t[2] = n2 /\ t[3] = n3

(* What the multiplexer takes of four inputs: of each no more than it      *)
(* holds and needs, of all no more than there is room for, and of an input *)
(* only when those before have given all.                                  *)
LEMMA TakesFromFour ==
  ASSUME NEW avail, NEW bits, NEW space \in Nat,
         avail[1] \in Nat, avail[2] \in Nat, avail[3] \in Nat, avail[4] \in Nat,
         NEW n1 \in Nat, NEW n2 \in Nat, NEW n3 \in Nat, NEW n4 \in Nat,
         MUX!Needs(bits, 1) = n1, MUX!Needs(bits, 2) = n2,
         MUX!Needs(bits, 3) = n3, MUX!Needs(bits, 4) = n4
  PROVE  TakenAre(MUX!Takes(avail, bits, space), avail, space, n1, n2, n3, n4)
<1>1. PICK f : f = [i \in 1 .. 4 |-> MUX!Needs(bits, i)]
  OBVIOUS
<1>2. f[1] = n1 /\ f[2] = n2 /\ f[3] = n3 /\ f[4] = n4
  BY <1>1
<1>3. /\ MUX!Before(bits, 1) = 0 /\ MUX!Before(bits, 2) = n1
      /\ MUX!Before(bits, 3) = n1 + n2 /\ MUX!Before(bits, 4) = n1 + n2 + n3
  <2>1. \A j \in 1 .. 4 : MUX!Before(bits, j) = Total(1 .. j - 1, f)
    <3>1. f[1] \in Int /\ f[2] \in Int /\ f[3] \in Int /\ f[4] \in Int
      BY <1>2
    <3> QED BY <1>1, <3>1, SumBefore
  <2>2. /\ 1 .. 1 - 1 = {} /\ 1 .. 2 - 1 = {1} /\ 1 .. 3 - 1 = {1, 2} /\ 1 .. 4 - 1 = {1, 2, 3}
    OBVIOUS
  <2>3. /\ Total({}, f) = 0 /\ Total({1}, f) = n1 /\ Total({1, 2}, f) = n1 + n2
        /\ Total({1, 2, 3}, f) = n1 + n2 + n3
    BY <1>2 DEF Total
  <2>4. 1 \in 1 .. 4 /\ 2 \in 1 .. 4 /\ 3 \in 1 .. 4 /\ 4 \in 1 .. 4
    OBVIOUS
  <2>5. /\ MUX!Before(bits, 1) = Total(1 .. 1 - 1, f) /\ MUX!Before(bits, 2) = Total(1 .. 2 - 1, f)
        /\ MUX!Before(bits, 3) = Total(1 .. 3 - 1, f) /\ MUX!Before(bits, 4) = Total(1 .. 4 - 1, f)
    BY <2>1, <2>4
  <2> QED BY <2>2, <2>3, <2>5
<1>4. PICK a1, a2, a3, a4 \in Nat : a1 = avail[1] /\ a2 = avail[2] /\ a3 = avail[3] /\ a4 = avail[4]
  OBVIOUS
<1>5. /\ MUX!Reaches(avail, bits, space, 1)
      /\ MUX!Reaches(avail, bits, space, 2) => a1 >= n1 /\ n1 <= space
      /\ MUX!Reaches(avail, bits, space, 3) => a1 >= n1 /\ a2 >= n2 /\ n1 + n2 <= space
      /\ MUX!Reaches(avail, bits, space, 4)
           => a1 >= n1 /\ a2 >= n2 /\ a3 >= n3 /\ n1 + n2 + n3 <= space
  BY <1>3, <1>4 DEF MUX!Reaches
<1>6. PICK r2, r3, r4 \in BOOLEAN :
        /\ r2 <=> MUX!Reaches(avail, bits, space, 2)
        /\ r3 <=> MUX!Reaches(avail, bits, space, 3)
        /\ r4 <=> MUX!Reaches(avail, bits, space, 4)
  OBVIOUS
<1>7. PICK t : t = MUX!Takes(avail, bits, space)
  OBVIOUS
<1>8. /\ 3 \in MUX!Inputs /\ 4 \in MUX!Inputs /\ 1 \in MUX!Inputs /\ 2 \in MUX!Inputs
  BY DEF MUX!Inputs
<1>9. /\ t[1] = MUX!Lesser(MUX!Lesser(a1, n1), space)
      /\ t[2] = IF r2 THEN MUX!Lesser(MUX!Lesser(a2, n2), space - n1) ELSE 0
      /\ t[3] = IF r3 THEN MUX!Lesser(MUX!Lesser(a3, n3), space - (n1 + n2)) ELSE 0
      /\ t[4] = IF r4 THEN MUX!Lesser(MUX!Lesser(a4, n4), space - (n1 + n2 + n3)) ELSE 0
  <2>1. t[1] = MUX!Lesser(MUX!Lesser(a1, n1), space - 0)
    BY <1>3, <1>4, <1>5, <1>7, <1>8 DEF MUX!Takes
  <2>2. t[2] = IF r2 THEN MUX!Lesser(MUX!Lesser(a2, n2), space - n1) ELSE 0
    BY <1>3, <1>4, <1>6, <1>7, <1>8 DEF MUX!Takes
  <2>3. t[3] = IF r3 THEN MUX!Lesser(MUX!Lesser(a3, n3), space - (n1 + n2)) ELSE 0
    BY <1>3, <1>4, <1>6, <1>7, <1>8 DEF MUX!Takes
  <2>4. t[4] = IF r4 THEN MUX!Lesser(MUX!Lesser(a4, n4), space - (n1 + n2 + n3)) ELSE 0
    BY <1>3, <1>4, <1>6, <1>7, <1>8 DEF MUX!Takes
  <2>5. space - 0 = space
    OBVIOUS
  <2> QED BY <2>1, <2>2, <2>3, <2>4, <2>5
<1>10. /\ r2 => a1 >= n1 /\ n1 <= space
       /\ r3 => a1 >= n1 /\ a2 >= n2 /\ n1 + n2 <= space
       /\ r4 => a1 >= n1 /\ a2 >= n2 /\ a3 >= n3 /\ n1 + n2 + n3 <= space
  BY <1>5, <1>6
<1>11. /\ r3 => r2
       /\ r4 => r3
  <2>1. ASSUME MUX!Reaches(avail, bits, space, 3)
        PROVE  MUX!Reaches(avail, bits, space, 2)
    <3>1. a1 >= n1 /\ n1 <= space
      BY <1>5, <2>1
    <3>2. \A k \in 1 .. 2 - 1 : k = 1
      OBVIOUS
    <3> QED BY <1>3, <1>4, <3>1, <3>2 DEF MUX!Reaches
  <2>2. ASSUME MUX!Reaches(avail, bits, space, 4)
        PROVE  MUX!Reaches(avail, bits, space, 3)
    <3>1. a1 >= n1 /\ a2 >= n2 /\ n1 + n2 <= space
      BY <1>5, <2>2
    <3>2. \A k \in 1 .. 3 - 1 : k = 1 \/ k = 2
      OBVIOUS
    <3> QED BY <1>3, <1>4, <3>1, <3>2 DEF MUX!Reaches
  <2> QED BY <1>6, <2>1, <2>2
<1>12. PICK t1 : t1 = t[1] /\ t1 \in Nat /\ t1 <= a1 /\ t1 <= n1 /\ t1 <= space
                 /\ (n1 > 0 /\ a1 > 0 /\ space > 0 => t1 > 0)
                 /\ (r2 => t1 = n1)
  BY <1>9, <1>10 DEF MUX!Lesser
<1>13. PICK t2 : t2 = t[2] /\ t2 \in Nat /\ t2 <= a2 /\ t2 <= n2
                 /\ (~r2 => t2 = 0) /\ (r2 => t2 <= space - n1) /\ (r3 => t2 = n2)
  <2>1. CASE r2
    BY <1>9, <1>10, <2>1 DEF MUX!Lesser
  <2>2. CASE ~r2
    BY <1>9, <1>11, <2>2
  <2> QED BY <2>1, <2>2
<1>14. PICK t3 : t3 = t[3] /\ t3 \in Nat /\ t3 <= a3 /\ t3 <= n3
                 /\ (~r3 => t3 = 0) /\ (r3 => t3 <= space - (n1 + n2)) /\ (r4 => t3 = n3)
  <2>1. CASE r3
    BY <1>9, <1>10, <2>1 DEF MUX!Lesser
  <2>2. CASE ~r3
    BY <1>9, <1>11, <2>2
  <2> QED BY <2>1, <2>2
<1>15. PICK t4 : t4 = t[4] /\ t4 \in Nat /\ t4 <= a4 /\ t4 <= n4
                 /\ (~r4 => t4 = 0) /\ (r4 => t4 <= space - (n1 + n2 + n3))
  <2>1. CASE r4
    BY <1>9, <1>10, <2>1 DEF MUX!Lesser
  <2>2. CASE ~r4
    BY <1>9, <2>2
  <2> QED BY <2>1, <2>2
<1>16. /\ (t1 + t2) + (t3 + t4) <= space
       /\ t2 > 0 => t1 = n1
       /\ t3 > 0 => t1 = n1 /\ t2 = n2
       /\ t4 > 0 => t1 = n1 /\ t2 = n2 /\ t3 = n3
  <2>1. CASE r4
    <3>1. r2 /\ r3
      BY <1>11, <2>1
    <3>2. /\ t1 = n1 /\ t2 = n2 /\ t3 = n3 /\ t4 <= space - (n1 + n2 + n3)
          /\ n1 + n2 + n3 <= space
      BY <1>10, <1>12, <1>13, <1>14, <1>15, <2>1, <3>1
    <3> QED BY <1>15, <3>2
  <2>2. CASE ~r4 /\ r3
    <3>1. r2 /\ t4 = 0
      BY <1>11, <1>15, <2>2
    <3>2. t1 = n1 /\ t2 = n2 /\ t3 <= space - (n1 + n2) /\ n1 + n2 <= space
      BY <1>10, <1>12, <1>13, <1>14, <2>2, <3>1
    <3> QED BY <1>14, <3>1, <3>2
  <2>3. CASE ~r4 /\ ~r3 /\ r2
    <3>1. t3 = 0 /\ t4 = 0
      BY <1>14, <1>15, <2>3
    <3>2. t1 = n1 /\ t2 <= space - n1 /\ n1 <= space
      BY <1>10, <1>12, <1>13, <2>3
    <3> QED BY <1>13, <3>1, <3>2
  <2>4. CASE ~r4 /\ ~r3 /\ ~r2
    <3>1. t2 = 0 /\ t3 = 0 /\ t4 = 0
      BY <1>13, <1>14, <1>15, <2>4
    <3> QED BY <1>12, <3>1
  <2> QED BY <2>1, <2>2, <2>3, <2>4
<1> QED BY <1>4, <1>7, <1>12, <1>13, <1>14, <1>15, <1>16 DEF TakenAre

-----------------------------------------------------------------------------
(* One call of the multiplexer.                                            *)

(* The lengths of the parts and what has left of each, as numbers. *)
MuxNumbers(p, s, l, r, f, c1, c2, c3, c4) ==
  /\ s = SyncwordSize /\ l = p.len /\ r = RampDownSize /\ f = FlushSize
  /\ s > 0 /\ l > 0 /\ r > 0 /\ f > 0
  /\ c1 = MuxPart(1) /\ c2 = MuxPart(2) /\ c3 = MuxPart(3) /\ c4 = MuxPart(4)
  /\ c1 <= s /\ c2 <= l /\ c3 <= r /\ c4 <= f
  /\ c2 > 0 => c1 = s
  /\ c3 > 0 => c2 = l
  /\ c4 > 0 => c3 = r
  /\ MuxSent = (c1 + c2) + (c3 + c4)
  /\ BurstSize(p) = (s + l) + (r + f)
  /\ (mux_packet_lens = <<>>) = ((c1 + c2) + (c3 + c4) = 0)

(* They exist. *)
LEMMA MuxNumbersExist ==
  ASSUME Types, NEW at, NEW j \in 1 .. Q, MuxAt(at, j)
  PROVE  \E s, l, r, f, c1, c2, c3, c4 \in Nat :
           MuxNumbers(queue[j], s, l, r, f, c1, c2, c3, c4)
<1>1. queue[j] \in Packets
  BY TypeFacts
<1>2. PICK s, l, r, f \in Nat :
        /\ s = SyncwordSize /\ l = queue[j].len /\ r = RampDownSize /\ f = FlushSize
        /\ s > 0 /\ l > 0 /\ r > 0 /\ f > 0
  BY <1>1, PacketSizes, Sizes
<1>3. PICK c1, c2, c3, c4 \in Nat :
        c1 = MuxPart(1) /\ c2 = MuxPart(2) /\ c3 = MuxPart(3) /\ c4 = MuxPart(4)
  BY MuxParts
<1>4. BurstSize(queue[j]) = (s + l) + (r + f)
  <2>1. BurstSize(queue[j]) = s + l + r + f
    BY <1>2 DEF BurstSize
  <2> QED BY <2>1
<1>5. MuxSent = (c1 + c2) + (c3 + c4)
  <2>1. MuxSent = c1 + c2 + c3 + c4
    BY <1>3 DEF MuxSent
  <2> QED BY <2>1
<1>6. CASE mux_packet_lens = <<>>
  <2>1. c1 = 0 /\ c2 = 0 /\ c3 = 0 /\ c4 = 0
    BY <1>3, <1>6, MuxParts
  <2>2. /\ c1 <= s /\ c2 <= l /\ c3 <= r /\ c4 <= f
        /\ c2 > 0 => c1 = s
        /\ c3 > 0 => c2 = l
        /\ c4 > 0 => c3 = r
        /\ (c1 + c2) + (c3 + c4) = 0
    BY <1>2, <2>1
  <2>3. (mux_packet_lens = <<>>) = ((c1 + c2) + (c3 + c4) = 0)
    BY <1>6, <2>2
  <2>4. MuxNumbers(queue[j], s, l, r, f, c1, c2, c3, c4)
    BY <1>2, <1>3, <1>4, <1>5, <2>2, <2>3 DEF MuxNumbers
  <2> QED BY <2>4
<1>7. CASE mux_packet_lens # <<>>
  <2>1. /\ c1 <= s /\ c2 <= l /\ c3 <= r /\ c4 <= f
        /\ c2 > 0 => c1 = s
        /\ c3 > 0 => c2 = l
        /\ c4 > 0 => c3 = r
    BY <1>2, <1>3, <1>7, MuxParts
  <2>2. MuxSent > 0
    BY <1>7 DEF MuxAt
  <2>3. (c1 + c2) + (c3 + c4) # 0
    BY <1>5, <2>2
  <2>4. (mux_packet_lens = <<>>) = ((c1 + c2) + (c3 + c4) = 0)
    BY <1>7, <2>3
  <2>5. MuxNumbers(queue[j], s, l, r, f, c1, c2, c3, c4)
    BY <1>2, <1>3, <1>4, <1>5, <2>1, <2>4 DEF MuxNumbers
  <2> QED BY <2>5
<1> QED BY <1>6, <1>7

(* A packet that begins has its length in front in all four inputs. *)
MuxBits == [i \in 1 .. 4 |-> TagAt(<<syncword, packets, ramp_down, flush>>[i])]

(* At the start of a burst the tags are the lengths of its parts. *)
LEMMA StartTags ==
  ASSUME Types, NEW at, NEW pat, NEW j, MuxAt(at, j), PacketsAt(pat, j), RowsAt(j),
         mux_packet_lens = <<>>,
         Len(syncword) > 0, Len(packets) > 0, Len(ramp_down) > 0, Len(flush) > 0
  PROVE  /\ j \in 1 .. Q /\ MuxBits[1] = SyncwordSize /\ MuxBits[2] = queue[j].len
         /\ MuxBits[3] = RampDownSize /\ MuxBits[4] = FlushSize
<1>1. MuxPart(1) = 0 /\ MuxPart(2) = 0 /\ MuxPart(3) = 0 /\ MuxPart(4) = 0
  BY MuxParts
<1>2. Q \in Nat /\ Coming \in Nat /\ Len(packets) \in Nat /\ j \in 1 .. Q + 1
  BY TypeFacts DEF MuxAt
<1>3. /\ Places("packet", queue, pat) /\ Holds("packet", packets, queue, pat)
      /\ pat[j] = 0 /\ Len(packets) = pat[Q + 1] - Coming
  BY <1>1 DEF PacketsAt
<1>4. "packet" \in Forms /\ queue \in Seq(Packets) /\ Q = Len(queue)
  BY DEF Forms, Types, Q
<1>5. j \in 1 .. Q
  <2>1. SUFFICES ASSUME j = Q + 1 PROVE FALSE
    BY <1>2
  <2>2. Len(packets) = 0 - Coming
    BY <1>3, <2>1
  <2> QED BY <1>2, <2>2
<1>6. queue[j] \in Packets /\ IdAt(j) \in Ids
  BY <1>2, <1>5, TypeFacts, IdIs
<1>7. /\ syncword \in Seq(SymbolType) /\ packets \in Seq(SymbolType)
      /\ ramp_down \in Seq(SymbolType) /\ flush \in Seq(SymbolType)
  BY DEF Types, NoBlockFails, TypeOK
<1>8. syncword # <<>> /\ packets # <<>> /\ ramp_down # <<>> /\ flush # <<>>
  BY <1>7, EmptyLength
<1>9. /\ MuxBits[1] = syncword[1].bits /\ MuxBits[2] = packets[1].bits
      /\ MuxBits[3] = ramp_down[1].bits /\ MuxBits[4] = flush[1].bits
  BY <1>8 DEF MuxBits, TagAt
<1>10. /\ 1 \in 1 .. Len(syncword) /\ 1 \in 1 .. Len(packets)
       /\ 1 \in 1 .. Len(ramp_down) /\ 1 \in 1 .. Len(flush)
  BY <1>7, EmptyLength
<1>11. syncword[1].bits = SyncwordSize
  <2>1. syncword[1] = RowItem("syncword", SyncwordSize, IdAt(j), 0, 1)
    BY <1>1, <1>10 DEF RowsAt, RowAt
  <2>2. syncword[1] = Symbol(IdAt(j), "syncword", 0 + 1, IF 0 + 1 = 1 THEN SyncwordSize ELSE 0)
    BY <1>6, <2>1, Sizes, RowWithin
  <2> QED BY <2>2 DEF Symbol
<1>12. ramp_down[1].bits = RampDownSize
  <2>1. ramp_down[1] = RowItem("ramp_down", RampDownSize, IdAt(j), 0, 1)
    BY <1>1, <1>10 DEF RowsAt, RowAt
  <2>2. ramp_down[1] = Symbol(IdAt(j), "ramp_down", 0 + 1, IF 0 + 1 = 1 THEN RampDownSize ELSE 0)
    BY <1>6, <2>1, Sizes, RowWithin
  <2> QED BY <2>2 DEF Symbol
<1>13. flush[1].bits = FlushSize
  <2>1. flush[1] = ZeroItem(0, 1)
    BY <1>1, <1>10 DEF RowsAt, ZerosAt
  <2>2. (0 + 1 - 1) % FlushSize = 0
    <3>1. 0 % FlushSize = 0
      BY Sizes, NoTurn
    <3> QED BY <3>1
  <2> QED BY <2>1, <2>2 DEF ZeroItem
<1>14. packets[1].bits = queue[j].len
  <2>1. 1 \in 1 .. Span("packet", queue[j]) /\ pat[j] + 1 = 1
    BY <1>3, <1>6, PacketSizes DEF Span
  <2>2. packets[1] = Piece("packet", queue[j], 1)
    BY <1>3, <1>4, <1>5, <1>10, <2>1 DEF Holds
  <2> QED BY <2>2 DEF Piece, Symbol
<1> QED BY <1>5, <1>9, <1>11, <1>12, <1>13, <1>14

(* What the burst needs of the inputs. *)
NeedsAre(bits, n1, n2, n3, n4) ==
  /\ MUX!Needs(bits, 1) = n1 /\ MUX!Needs(bits, 2) = n2
  /\ MUX!Needs(bits, 3) = n3 /\ MUX!Needs(bits, 4) = n4

(* What is needed of an input is what has not left yet. *)
LEMMA MuxNeeds ==
  ASSUME NEW p, NEW s \in Nat, NEW l \in Nat, NEW r \in Nat, NEW f \in Nat,
         NEW c1 \in Nat, NEW c2 \in Nat, NEW c3 \in Nat, NEW c4 \in Nat,
         MuxNumbers(p, s, l, r, f, c1, c2, c3, c4), NEW bits,
         mux_packet_lens = <<>> =>
           bits[1] = s /\ bits[2] = l /\ bits[3] = r /\ bits[4] = f,
         mux_packet_lens # <<>> =>
           /\ mux_packet_lens = <<s, l, r, f>>
           /\ mux_current_input \in 1 .. 4
           /\ mux_remaining \in 1 .. mux_packet_lens[mux_current_input]
  PROVE  NeedsAre(bits, s - c1, l - c2, r - c3, f - c4)
<1> SUFFICES /\ MUX!Needs(bits, 1) = s - c1 /\ MUX!Needs(bits, 2) = l - c2
             /\ MUX!Needs(bits, 3) = r - c3 /\ MUX!Needs(bits, 4) = f - c4
  BY DEF NeedsAre
<1>1. c1 = MuxPart(1) /\ c2 = MuxPart(2) /\ c3 = MuxPart(3) /\ c4 = MuxPart(4)
  BY DEF MuxNumbers
<1>2. CASE mux_packet_lens = <<>>
  <2>1. c1 = 0 /\ c2 = 0 /\ c3 = 0 /\ c4 = 0
    BY <1>1, <1>2 DEF MuxPart
  <2>2. MUX!First = 1 /\ MUX!AtStart /\ MUX!Lens(bits) = bits
    BY <1>2 DEF MUX!First, MUX!AtStart, MUX!Lens
  <2>3. /\ MUX!Needs(bits, 1) = s /\ MUX!Needs(bits, 2) = l
        /\ MUX!Needs(bits, 3) = r /\ MUX!Needs(bits, 4) = f
    BY <1>2, <2>2 DEF MUX!Needs
  <2> QED BY <2>1, <2>3
<1>3. CASE mux_packet_lens # <<>>
  <2>1. /\ ~MUX!AtStart /\ MUX!First = mux_current_input
        /\ MUX!Lens(bits) = <<s, l, r, f>>
    BY <1>3 DEF MUX!First, MUX!AtStart, MUX!Lens
  <2>2. /\ mux_packet_lens[1] = s /\ mux_packet_lens[2] = l
        /\ mux_packet_lens[3] = r /\ mux_packet_lens[4] = f
    BY <1>3
  <2>3. PICK rest \in Nat : rest = mux_remaining
    <3>1. mux_packet_lens[mux_current_input] \in Nat
      BY <1>3, <2>2
    <3> QED BY <1>3, <3>1
  <2>4. CASE mux_current_input = 1
    <3>1. c1 = s - rest /\ c2 = 0 /\ c3 = 0 /\ c4 = 0
      BY <1>1, <1>3, <2>2, <2>3, <2>4 DEF MuxPart
    <3>2. /\ MUX!Needs(bits, 1) = rest /\ MUX!Needs(bits, 2) = l
          /\ MUX!Needs(bits, 3) = r /\ MUX!Needs(bits, 4) = f
      BY <2>1, <2>3, <2>4 DEF MUX!Needs
    <3> QED BY <3>1, <3>2
  <2>5. CASE mux_current_input = 2
    <3>1. c1 = s /\ c2 = l - rest /\ c3 = 0 /\ c4 = 0
      BY <1>1, <1>3, <2>2, <2>3, <2>5 DEF MuxPart
    <3>2. /\ MUX!Needs(bits, 1) = 0 /\ MUX!Needs(bits, 2) = rest
          /\ MUX!Needs(bits, 3) = r /\ MUX!Needs(bits, 4) = f
      BY <2>1, <2>3, <2>5 DEF MUX!Needs
    <3> QED BY <3>1, <3>2
  <2>6. CASE mux_current_input = 3
    <3>1. c1 = s /\ c2 = l /\ c3 = r - rest /\ c4 = 0
      BY <1>1, <1>3, <2>2, <2>3, <2>6 DEF MuxPart
    <3>2. /\ MUX!Needs(bits, 1) = 0 /\ MUX!Needs(bits, 2) = 0
          /\ MUX!Needs(bits, 3) = rest /\ MUX!Needs(bits, 4) = f
      BY <2>1, <2>3, <2>6 DEF MUX!Needs
    <3> QED BY <3>1, <3>2
  <2>7. CASE mux_current_input = 4
    <3>1. c1 = s /\ c2 = l /\ c3 = r /\ c4 = f - rest
      BY <1>1, <1>3, <2>2, <2>3, <2>7 DEF MuxPart
    <3>2. /\ MUX!Needs(bits, 1) = 0 /\ MUX!Needs(bits, 2) = 0
          /\ MUX!Needs(bits, 3) = 0 /\ MUX!Needs(bits, 4) = rest
      BY <2>1, <2>3, <2>7 DEF MUX!Needs
    <3> QED BY <3>1, <3>2
  <2> QED BY <1>3, <2>4, <2>5, <2>6, <2>7
<1> QED BY <1>2, <1>3

(* Where a call leaves a burst that is not done: at the first input of     *)
(* which it did not copy all that is needed.                               *)
MuxStops(bits, t, i) ==
  /\ mux_current_input' = i
  /\ t[i] < MUX!Needs(bits, i)
  /\ mux_remaining' = MUX!Needs(bits, i) - t[i]
  /\ \A k \in 1 .. i - 1 : t[k] = MUX!Needs(bits, k)

(* A call that copies and does not finish stops at one of the inputs. *)
LEMMA MuxStopsSomewhere ==
  ASSUME NEW avail, NEW bits, NEW space, NEW t,
         MUX!Copy(avail, bits, space, t), ~MUX!Finishes(bits, t),
         t[1] <= MUX!Needs(bits, 1), t[2] <= MUX!Needs(bits, 2),
         t[3] <= MUX!Needs(bits, 3), t[4] <= MUX!Needs(bits, 4),
         t[1] \in Nat, t[2] \in Nat, t[3] \in Nat, t[4] \in Nat,
         MUX!Needs(bits, 1) \in Nat, MUX!Needs(bits, 2) \in Nat,
         MUX!Needs(bits, 3) \in Nat, MUX!Needs(bits, 4) \in Nat
  PROVE  /\ mux_packet_lens' = MUX!Lens(bits) /\ UNCHANGED mux_failed
         /\ \/ MuxStops(bits, t, 1) \/ MuxStops(bits, t, 2)
            \/ MuxStops(bits, t, 3) \/ MuxStops(bits, t, 4)
<1> DEFINE P(j) == /\ t[j] < MUX!Needs(bits, j)
                   /\ \A k \in 1 .. j - 1 : t[k] = MUX!Needs(bits, k)
<1>1. /\ 1 \in MUX!Inputs /\ 2 \in MUX!Inputs /\ 3 \in MUX!Inputs /\ 4 \in MUX!Inputs
      /\ \A j \in MUX!Inputs : j = 1 \/ j = 2 \/ j = 3 \/ j = 4
  BY DEF MUX!Inputs
<1>2. /\ mux_packet_lens' = MUX!Lens(bits)
      /\ mux_current_input' = CHOOSE j \in MUX!Inputs : P(j)
      /\ mux_remaining' = MUX!Needs(bits, mux_current_input') - t[mux_current_input']
      /\ UNCHANGED mux_failed
  BY DEF MUX!Copy
<1>3. ~(/\ t[1] = MUX!Needs(bits, 1) /\ t[2] = MUX!Needs(bits, 2)
        /\ t[3] = MUX!Needs(bits, 3) /\ t[4] = MUX!Needs(bits, 4))
  BY <1>1 DEF MUX!Finishes
<1>4. /\ P(1) <=> t[1] < MUX!Needs(bits, 1)
      /\ P(2) <=> t[2] < MUX!Needs(bits, 2) /\ t[1] = MUX!Needs(bits, 1)
  OBVIOUS
<1>5. P(3) <=> t[3] < MUX!Needs(bits, 3) /\ t[1] = MUX!Needs(bits, 1) /\ t[2] = MUX!Needs(bits, 2)
  <2>1. \A k : k \in 1 .. 3 - 1 <=> k = 1 \/ k = 2
    OBVIOUS
  <2> QED BY <2>1
<1>6. P(4) <=> /\ t[4] < MUX!Needs(bits, 4) /\ t[1] = MUX!Needs(bits, 1)
               /\ t[2] = MUX!Needs(bits, 2) /\ t[3] = MUX!Needs(bits, 3)
  <2>1. \A k : k \in 1 .. 4 - 1 <=> k = 1 \/ k = 2 \/ k = 3
    OBVIOUS
  <2> QED BY <2>1
<1>7. \A j : P(j) /\ mux_current_input' = j => MuxStops(bits, t, j)
  BY <1>2 DEF MuxStops
<1> HIDE DEF P
<1>8. P(1) \/ P(2) \/ P(3) \/ P(4)
  BY <1>3, <1>4, <1>5, <1>6
<1>9. mux_current_input' \in MUX!Inputs /\ P(mux_current_input')
  BY <1>1, <1>2, <1>8
<1>10. MuxStops(bits, t, mux_current_input')
  BY <1>7, <1>9
<1> QED BY <1>1, <1>2, <1>9, <1>10

(* What a call copies of every part, as numbers. *)
Copies(s, l, r, f, c1, c2, c3, c4, t1, t2, t3, t4) ==
  /\ c1 + t1 <= s /\ c2 + t2 <= l /\ c3 + t3 <= r /\ c4 + t4 <= f
  /\ t2 > 0 => c1 + t1 = s
  /\ t3 > 0 => c1 + t1 = s /\ c2 + t2 = l
  /\ t4 > 0 => c1 + t1 = s /\ c2 + t2 = l /\ c3 + t3 = r

(* The symbols that the parts hold. *)
PartsHold(id, c1, c2, c3, t1, t2, t3, t4) ==
  /\ \A k \in 1 .. t1 : syncword[k].of = <<id, "syncword", c1 + k>>
  /\ \A k \in 1 .. t2 : packets[k].of = <<id, "packet", c2 + k>>
  /\ \A k \in 1 .. t3 : ramp_down[k].of = <<id, "ramp_down", c3 + k>>
  /\ \A k \in 1 .. t4 : flush[k].of = Zero

(* The items that are taken are symbols of the burst of the multiplexer. *)
LEMMA PartSymbols ==
  ASSUME Types, NEW pat, NEW j \in 1 .. Q, PacketsAt(pat, j), RowsAt(j),
         NEW s \in Nat, NEW l \in Nat, NEW r \in Nat, NEW f \in Nat,
         NEW c1 \in Nat, NEW c2 \in Nat, NEW c3 \in Nat, NEW c4 \in Nat,
         MuxNumbers(queue[j], s, l, r, f, c1, c2, c3, c4),
         NEW t1 \in Nat, NEW t2 \in Nat, NEW t3 \in Nat, NEW t4 \in Nat,
         t1 <= Len(syncword), t2 <= Len(packets), t3 <= Len(ramp_down), t4 <= Len(flush),
         Copies(s, l, r, f, c1, c2, c3, c4, t1, t2, t3, t4)
  PROVE  PartsHold(queue[j].id, c1, c2, c3, t1, t2, t3, t4)
<1>1. PICK id \in Ids : id = queue[j].id /\ id = IdAt(j)
  <2>1. queue[j] \in Packets /\ j <= Q
    BY TypeFacts
  <2> QED BY <2>1, PacketSizes DEF IdAt
<1>2. /\ s = SyncwordSize /\ l = queue[j].len /\ r = RampDownSize
      /\ c1 = MuxPart(1) /\ c2 = MuxPart(2) /\ c3 = MuxPart(3) /\ c4 = MuxPart(4)
  BY DEF MuxNumbers
<1>3. c1 + t1 <= s /\ c2 + t2 <= l /\ c3 + t3 <= r
  BY DEF Copies
<1>4. PICK n1, n2, n3, n4 \in Nat :
        /\ n1 = Len(syncword) /\ n2 = Len(packets) /\ n3 = Len(ramp_down) /\ n4 = Len(flush)
        /\ t1 <= n1 /\ t2 <= n2 /\ t3 <= n3 /\ t4 <= n4
  BY TypeFacts
<1>5. ASSUME NEW i \in 1 .. t1
      PROVE  syncword[i].of = <<id, "syncword", c1 + i>>
  <2>1. i \in 1 .. n1 /\ i \in Nat /\ i > 0 /\ c1 + i <= s
    BY <1>3, <1>4
  <2>2. syncword[i] = RowItem("syncword", s, id, c1, i)
    BY <1>1, <1>2, <1>4, <2>1 DEF RowsAt, RowAt
  <2>3. syncword[i] = Symbol(id, "syncword", c1 + i, IF c1 + i = 1 THEN s ELSE 0)
    BY <2>1, <2>2, RowWithin
  <2> QED BY <2>3 DEF Symbol
<1>6. ASSUME NEW i \in 1 .. t3
      PROVE  ramp_down[i].of = <<id, "ramp_down", c3 + i>>
  <2>1. i \in 1 .. n3 /\ i \in Nat /\ i > 0 /\ c3 + i <= r
    BY <1>3, <1>4
  <2>2. ramp_down[i] = RowItem("ramp_down", r, id, c3, i)
    BY <1>1, <1>2, <1>4, <2>1 DEF RowsAt, RowAt
  <2>3. ramp_down[i] = Symbol(id, "ramp_down", c3 + i, IF c3 + i = 1 THEN r ELSE 0)
    BY <2>1, <2>2, RowWithin
  <2> QED BY <2>3 DEF Symbol
<1>7. ASSUME NEW i \in 1 .. t4
      PROVE  flush[i].of = Zero
  <2>1. i \in 1 .. n4
    BY <1>4
  <2>2. flush[i] = ZeroItem(c4, i)
    BY <1>2, <1>4, <2>1 DEF RowsAt, ZerosAt
  <2> QED BY <2>2 DEF ZeroItem
<1>8. ASSUME NEW i \in 1 .. t2
      PROVE  packets[i].of = <<id, "packet", c2 + i>>
  <2>1. /\ Holds("packet", packets, queue, pat) /\ pat[j] = 0 - c2 /\ Q = Len(queue)
    BY <1>2 DEF PacketsAt, Q
  <2>2. c2 + i \in 1 .. l /\ pat[j] + (c2 + i) = i /\ i \in 1 .. n2
    <3>1. PICK x \in Int : x = pat[j] /\ x = 0 - c2
      BY <2>1
    <3>2. c2 + i \in 1 .. l /\ x + (c2 + i) = i /\ i \in 1 .. n2
      BY <1>3, <1>4, <3>1
    <3> QED BY <3>1, <3>2
  <2>3. c2 + i \in 1 .. Span("packet", queue[j])
    BY <1>2, <2>2 DEF Span
  <2>4. packets[pat[j] + (c2 + i)] = Piece("packet", queue[j], c2 + i)
    <3>1. j \in 1 .. Len(queue) /\ pat[j] + (c2 + i) \in 1 .. Len(packets)
      BY <1>4, <2>1, <2>2
    <3> QED BY <2>1, <2>3, <3>1 DEF Holds
  <2>5. packets[i] = Symbol(id, "packet", c2 + i, IF c2 + i = 1 THEN queue[j].len ELSE 0)
    BY <1>1, <2>2, <2>4 DEF Piece
  <2> QED BY <2>5 DEF Symbol
<1> QED BY <1>1, <1>5, <1>6, <1>7, <1>8 DEF PartsHold

(* A sequence is a and then b. *)
Joined(S, a, b, c) ==
  /\ c \in Seq(S) /\ Len(c) = Len(a) + Len(b)
  /\ \A k \in 1 .. Len(a) : c[k] = a[k]
  /\ \A k \in 1 .. Len(b) : c[Len(a) + k] = b[k]

(* That is concatenation. *)
LEMMA JoinedIs ==
  ASSUME NEW S, NEW a \in Seq(S), NEW b \in Seq(S)
  PROVE  Joined(S, a, b, a \o b)
<1>1. /\ a \o b \in Seq(S) /\ Len(a \o b) = Len(a) + Len(b)
      /\ \A i \in 1 .. Len(a) : (a \o b)[i] = a[i]
      /\ \A i \in 1 .. Len(b) : (a \o b)[Len(a) + i] = b[i]
  BY JoinProperties
<1> QED BY <1>1 DEF Joined

(* The first items of a sequence. *)
FrontOf(S, seq, k, c) ==
  c \in Seq(S) /\ Len(c) = k /\ \A i \in 1 .. k : c[i] = seq[i]

(* That is a subsequence from the first on. *)
LEMMA FrontIs ==
  ASSUME NEW S, NEW seq \in Seq(S), NEW k \in 0 .. Len(seq)
  PROVE  FrontOf(S, seq, k, SubSeq(seq, 1, k))
BY FrontProperties DEF FrontOf

(* Four sequences, one behind the other. *)
FourOf(S, i1, i2, i3, i4, t1, t2, t3, t4, c) ==
  /\ c \in Seq(S) /\ Len(c) = (t1 + t2) + (t3 + t4)
  /\ \A k \in 1 .. t1 : c[k] = i1[k]
  /\ \A k \in 1 .. t2 : c[t1 + k] = i2[k]
  /\ \A k \in 1 .. t3 : c[(t1 + t2) + k] = i3[k]
  /\ \A k \in 1 .. t4 : c[((t1 + t2) + t3) + k] = i4[k]

(* That is concatenation too. *)
LEMMA FourJoined ==
  ASSUME NEW S, NEW i1 \in Seq(S), NEW i2 \in Seq(S), NEW i3 \in Seq(S), NEW i4 \in Seq(S),
         NEW t1 \in Nat, NEW t2 \in Nat, NEW t3 \in Nat, NEW t4 \in Nat,
         Len(i1) = t1, Len(i2) = t2, Len(i3) = t3, Len(i4) = t4
  PROVE  FourOf(S, i1, i2, i3, i4, t1, t2, t3, t4, i1 \o i2 \o i3 \o i4)
<1>1. PICK a \in Seq(S) : /\ a = i1 \o i2 /\ Len(a) = t1 + t2
                          /\ \A k \in 1 .. t1 : a[k] = i1[k]
                          /\ \A k \in 1 .. t2 : a[t1 + k] = i2[k]
  <2>1. PICK a : a = i1 \o i2 /\ Joined(S, i1, i2, a)
    BY JoinedIs
  <2> QED BY <2>1 DEF Joined
<1>2. PICK b \in Seq(S) : /\ b = a \o i3 /\ Len(b) = (t1 + t2) + t3
                          /\ \A k \in 1 .. t1 + t2 : b[k] = a[k]
                          /\ \A k \in 1 .. t3 : b[(t1 + t2) + k] = i3[k]
  <2>1. PICK b : b = a \o i3 /\ Joined(S, a, i3, b)
    BY JoinedIs
  <2>2. b \in Seq(S) /\ Len(b) = (t1 + t2) + t3
    BY <1>1, <2>1 DEF Joined
  <2>3. \A k \in 1 .. t1 + t2 : b[k] = a[k]
    BY <1>1, <2>1 DEF Joined
  <2>4. \A k \in 1 .. t3 : b[(t1 + t2) + k] = i3[k]
    BY <1>1, <2>1 DEF Joined
  <2> QED BY <2>1, <2>2, <2>3, <2>4
<1>3. PICK c \in Seq(S) : /\ c = b \o i4 /\ Len(c) = ((t1 + t2) + t3) + t4
                          /\ \A k \in 1 .. (t1 + t2) + t3 : c[k] = b[k]
                          /\ \A k \in 1 .. t4 : c[((t1 + t2) + t3) + k] = i4[k]
  <2>1. PICK c : c = b \o i4 /\ Joined(S, b, i4, c)
    BY JoinedIs
  <2>2. c \in Seq(S) /\ Len(c) = ((t1 + t2) + t3) + t4
    BY <1>2, <2>1 DEF Joined
  <2>3. \A k \in 1 .. (t1 + t2) + t3 : c[k] = b[k]
    BY <1>2, <2>1 DEF Joined
  <2>4. \A k \in 1 .. t4 : c[((t1 + t2) + t3) + k] = i4[k]
    BY <1>2, <2>1 DEF Joined
  <2> QED BY <2>1, <2>2, <2>3, <2>4
<1>4. c = i1 \o i2 \o i3 \o i4
  BY <1>1, <1>2, <1>3
<1>5. ((t1 + t2) + t3) + t4 = (t1 + t2) + (t3 + t4)
  OBVIOUS
<1>6. \A k \in 1 .. t1 : c[k] = i1[k]
  <2>1. SUFFICES ASSUME NEW k \in 1 .. t1 PROVE c[k] = i1[k]
    OBVIOUS
  <2>2. k \in 1 .. t1 + t2 /\ k \in 1 .. (t1 + t2) + t3
    OBVIOUS
  <2> QED BY <1>1, <1>2, <1>3, <2>2
<1>7. \A k \in 1 .. t2 : c[t1 + k] = i2[k]
  <2>1. SUFFICES ASSUME NEW k \in 1 .. t2 PROVE c[t1 + k] = i2[k]
    OBVIOUS
  <2>2. t1 + k \in 1 .. t1 + t2 /\ t1 + k \in 1 .. (t1 + t2) + t3
    OBVIOUS
  <2> QED BY <1>1, <1>2, <1>3, <2>2
<1>8. \A k \in 1 .. t3 : c[(t1 + t2) + k] = i3[k]
  <2>1. SUFFICES ASSUME NEW k \in 1 .. t3 PROVE c[(t1 + t2) + k] = i3[k]
    OBVIOUS
  <2>2. (t1 + t2) + k \in 1 .. (t1 + t2) + t3
    OBVIOUS
  <2> QED BY <1>2, <1>3, <2>2
<1>9. \A k \in 1 .. t4 : c[((t1 + t2) + t3) + k] = i4[k]
  BY <1>3
<1> QED BY <1>3, <1>4, <1>5, <1>6, <1>7, <1>8, <1>9 DEF FourOf

(* Where an item of a part comes to lie in the burst. *)
PartsLie(p, c, c1, c2, c3, t1, t2, t3, t4) ==
  /\ \A k \in 1 .. t1 : SymbolOf(p, c + k) = <<p.id, "syncword", c1 + k>>
  /\ \A k \in 1 .. t2 : SymbolOf(p, c + (t1 + k)) = <<p.id, "packet", c2 + k>>
  /\ \A k \in 1 .. t3 : SymbolOf(p, c + ((t1 + t2) + k)) = <<p.id, "ramp_down", c3 + k>>
  /\ \A k \in 1 .. t4 : SymbolOf(p, c + (((t1 + t2) + t3) + k)) = Zero

(* The places of the parts that are taken, in the burst. *)
LEMMA PartPlaces ==
  ASSUME NEW p, NEW s \in Nat, NEW l \in Nat, NEW r \in Nat, NEW f \in Nat,
         NEW c1 \in Nat, NEW c2 \in Nat, NEW c3 \in Nat, NEW c4 \in Nat,
         MuxNumbers(p, s, l, r, f, c1, c2, c3, c4),
         NEW t1 \in Nat, NEW t2 \in Nat, NEW t3 \in Nat, NEW t4 \in Nat,
         Copies(s, l, r, f, c1, c2, c3, c4, t1, t2, t3, t4),
         NEW c, c = (c1 + c2) + (c3 + c4)
  PROVE  PartsLie(p, c, c1, c2, c3, t1, t2, t3, t4)
<1>1. /\ c1 <= s /\ c2 <= l /\ c3 <= r /\ c4 <= f /\ s > 0 /\ l > 0 /\ r > 0 /\ f > 0
      /\ c2 > 0 => c1 = s
      /\ c3 > 0 => c2 = l
      /\ c4 > 0 => c3 = r
  BY DEF MuxNumbers
<1>2. s = SyncwordSize /\ l = p.len /\ r = RampDownSize
  BY DEF MuxNumbers
<1>3. /\ c1 + t1 <= s /\ c2 + t2 <= l /\ c3 + t3 <= r /\ c4 + t4 <= f
      /\ t2 > 0 => c1 + t1 = s
      /\ t3 > 0 => c1 + t1 = s /\ c2 + t2 = l
      /\ t4 > 0 => c1 + t1 = s /\ c2 + t2 = l /\ c3 + t3 = r
  BY DEF Copies
<1>4. ASSUME NEW m \in Nat, m > 0
      PROVE  /\ m <= s => SymbolOf(p, m) = <<p.id, "syncword", m>>
             /\ s < m /\ m <= s + l => SymbolOf(p, m) = <<p.id, "packet", m - s>>
             /\ s + l < m /\ m <= s + l + r => SymbolOf(p, m) = <<p.id, "ramp_down", m - s - l>>
             /\ s + l + r < m => SymbolOf(p, m) = Zero
  <2>1. /\ ~(m <= s /\ s < m) /\ ~(m <= s /\ s + l < m) /\ ~(m <= s /\ s + l + r < m)
        /\ ~(m <= s + l /\ s + l < m) /\ ~(m <= s + l /\ s + l + r < m)
        /\ ~(m <= s + l + r /\ s + l + r < m)
    OBVIOUS
  <2> QED BY <1>2, <2>1 DEF SymbolOf
<1>5. ASSUME NEW k \in 1 .. t1
      PROVE  SymbolOf(p, c + k) = <<p.id, "syncword", c1 + k>>
  <2>1. c1 < s /\ c1 + k <= s /\ c1 + k \in Nat /\ c1 + k > 0
    BY <1>3
  <2>2. c2 = 0 /\ c3 = 0 /\ c4 = 0
    BY <1>1, <2>1
  <2>3. c + k = c1 + k
    BY <2>2
  <2> QED BY <1>4, <2>1, <2>3
<1>6. ASSUME NEW k \in 1 .. t2
      PROVE  SymbolOf(p, c + (t1 + k)) = <<p.id, "packet", c2 + k>>
  <2>1. c2 < l /\ c2 + k <= l /\ c1 + t1 = s
    BY <1>3
  <2>2. c3 = 0 /\ c4 = 0
    BY <1>1, <2>1
  <2>3. PICK m \in Nat : m = c + (t1 + k) /\ m > 0 /\ s < m /\ m <= s + l /\ m - s = c2 + k
    BY <2>1, <2>2
  <2> QED BY <1>4, <2>3
<1>7. ASSUME NEW k \in 1 .. t3
      PROVE  SymbolOf(p, c + ((t1 + t2) + k)) = <<p.id, "ramp_down", c3 + k>>
  <2>1. c3 < r /\ c3 + k <= r /\ c1 + t1 = s /\ c2 + t2 = l
    BY <1>3
  <2>2. c4 = 0
    BY <1>1, <2>1
  <2>3. PICK m \in Nat : /\ m = c + ((t1 + t2) + k) /\ m > 0
                         /\ s + l < m /\ m <= s + l + r /\ m - s - l = c3 + k
    BY <2>1, <2>2
  <2> QED BY <1>4, <2>3
<1>8. ASSUME NEW k \in 1 .. t4
      PROVE  SymbolOf(p, c + (((t1 + t2) + t3) + k)) = Zero
  <2>1. c1 + t1 = s /\ c2 + t2 = l /\ c3 + t3 = r
    BY <1>3
  <2>2. PICK m \in Nat : m = c + (((t1 + t2) + t3) + k) /\ m > 0 /\ s + l + r < m
    BY <2>1
  <2> QED BY <1>4, <2>2
<1> QED BY <1>5, <1>6, <1>7, <1>8 DEF PartsLie

(* The item that a call copies to a place is the symbol of the burst there. *)
ItemsAre(items, p, m, n) ==
  /\ items \in Seq(SymbolType) /\ Len(items) = n
  /\ \A i \in 1 .. n : items[i].of = SymbolOf(p, m + i)

(* What is taken, one part behind the other, goes on where the burst was   *)
(* left.                                                                   *)
LEMMA JoinedItems ==
  ASSUME Types, NEW pat, NEW j \in 1 .. Q, PacketsAt(pat, j), RowsAt(j),
         NEW s \in Nat, NEW l \in Nat, NEW r \in Nat, NEW f \in Nat,
         NEW c1 \in Nat, NEW c2 \in Nat, NEW c3 \in Nat, NEW c4 \in Nat,
         MuxNumbers(queue[j], s, l, r, f, c1, c2, c3, c4),
         NEW t1 \in Nat, NEW t2 \in Nat, NEW t3 \in Nat, NEW t4 \in Nat,
         t1 <= Len(syncword), t2 <= Len(packets), t3 <= Len(ramp_down), t4 <= Len(flush),
         Copies(s, l, r, f, c1, c2, c3, c4, t1, t2, t3, t4),
         NEW items, items = SubSeq(syncword, 1, t1) \o SubSeq(packets, 1, t2)
                              \o SubSeq(ramp_down, 1, t3) \o SubSeq(flush, 1, t4)
  PROVE  ItemsAre(items, queue[j], (c1 + c2) + (c3 + c4), (t1 + t2) + (t3 + t4))
<1> SUFFICES /\ items \in Seq(SymbolType) /\ Len(items) = (t1 + t2) + (t3 + t4)
             /\ \A i \in 1 .. (t1 + t2) + (t3 + t4) :
                  items[i].of = SymbolOf(queue[j], ((c1 + c2) + (c3 + c4)) + i)
  BY DEF ItemsAre
<1>1. /\ syncword \in Seq(SymbolType) /\ packets \in Seq(SymbolType)
      /\ ramp_down \in Seq(SymbolType) /\ flush \in Seq(SymbolType)
  BY DEF Types, NoBlockFails, TypeOK
<1>2. /\ t1 \in 0 .. Len(syncword) /\ t2 \in 0 .. Len(packets)
      /\ t3 \in 0 .. Len(ramp_down) /\ t4 \in 0 .. Len(flush)
  BY <1>1, TypeFacts
<1>i1. PICK i1 : i1 = SubSeq(syncword, 1, t1) /\ FrontOf(SymbolType, syncword, t1, i1)
  BY <1>1, <1>2, FrontIs
<1>i2. PICK i2 : i2 = SubSeq(packets, 1, t2) /\ FrontOf(SymbolType, packets, t2, i2)
  BY <1>1, <1>2, FrontIs
<1>i3. PICK i3 : i3 = SubSeq(ramp_down, 1, t3) /\ FrontOf(SymbolType, ramp_down, t3, i3)
  BY <1>1, <1>2, FrontIs
<1>i4. PICK i4 : i4 = SubSeq(flush, 1, t4) /\ FrontOf(SymbolType, flush, t4, i4)
  BY <1>1, <1>2, FrontIs
<1>3. items = i1 \o i2 \o i3 \o i4
  BY <1>i1, <1>i2, <1>i3, <1>i4
<1>4. FourOf(SymbolType, i1, i2, i3, i4, t1, t2, t3, t4, items)
  <2>1. /\ i1 \in Seq(SymbolType) /\ i2 \in Seq(SymbolType)
        /\ i3 \in Seq(SymbolType) /\ i4 \in Seq(SymbolType)
        /\ Len(i1) = t1 /\ Len(i2) = t2 /\ Len(i3) = t3 /\ Len(i4) = t4
    BY <1>i1, <1>i2, <1>i3, <1>i4 DEF FrontOf
  <2>2. FourOf(SymbolType, i1, i2, i3, i4, t1, t2, t3, t4, i1 \o i2 \o i3 \o i4)
    BY <2>1, FourJoined
  <2> QED BY <1>3, <2>2
<1>5. PartsHold(queue[j].id, c1, c2, c3, t1, t2, t3, t4)
  BY PartSymbols
<1>6. PICK c \in Nat : c = (c1 + c2) + (c3 + c4)
  OBVIOUS
<1>7. PartsLie(queue[j], c, c1, c2, c3, t1, t2, t3, t4)
  BY <1>6, PartPlaces
<1>8. /\ \A k \in 1 .. t1 : items[k].of = SymbolOf(queue[j], c + k)
      /\ \A k \in 1 .. t2 : items[t1 + k].of = SymbolOf(queue[j], c + (t1 + k))
      /\ \A k \in 1 .. t3 : items[(t1 + t2) + k].of = SymbolOf(queue[j], c + ((t1 + t2) + k))
      /\ \A k \in 1 .. t4 :
           items[((t1 + t2) + t3) + k].of = SymbolOf(queue[j], c + (((t1 + t2) + t3) + k))
  <2>1. ASSUME NEW k \in 1 .. t1 PROVE items[k].of = SymbolOf(queue[j], c + k)
    <3>1. items[k] = i1[k]
      BY <1>4 DEF FourOf
    <3>2. i1[k] = syncword[k]
      BY <1>i1 DEF FrontOf
    <3>3. syncword[k].of = <<queue[j].id, "syncword", c1 + k>>
      BY <1>5 DEF PartsHold
    <3>4. SymbolOf(queue[j], c + k) = <<queue[j].id, "syncword", c1 + k>>
      BY <1>7 DEF PartsLie
    <3> QED BY <3>1, <3>2, <3>3, <3>4
  <2>2. ASSUME NEW k \in 1 .. t2 PROVE items[t1 + k].of = SymbolOf(queue[j], c + (t1 + k))
    <3>1. items[t1 + k] = i2[k]
      BY <1>4 DEF FourOf
    <3>2. i2[k] = packets[k]
      BY <1>i2 DEF FrontOf
    <3>3. packets[k].of = <<queue[j].id, "packet", c2 + k>>
      BY <1>5 DEF PartsHold
    <3>4. SymbolOf(queue[j], c + (t1 + k)) = <<queue[j].id, "packet", c2 + k>>
      BY <1>7 DEF PartsLie
    <3> QED BY <3>1, <3>2, <3>3, <3>4
  <2>3. ASSUME NEW k \in 1 .. t3
        PROVE  items[(t1 + t2) + k].of = SymbolOf(queue[j], c + ((t1 + t2) + k))
    <3>1. items[(t1 + t2) + k] = i3[k]
      BY <1>4 DEF FourOf
    <3>2. i3[k] = ramp_down[k]
      BY <1>i3 DEF FrontOf
    <3>3. ramp_down[k].of = <<queue[j].id, "ramp_down", c3 + k>>
      BY <1>5 DEF PartsHold
    <3>4. SymbolOf(queue[j], c + ((t1 + t2) + k)) = <<queue[j].id, "ramp_down", c3 + k>>
      BY <1>7 DEF PartsLie
    <3> QED BY <3>1, <3>2, <3>3, <3>4
  <2>4. ASSUME NEW k \in 1 .. t4
        PROVE  items[((t1 + t2) + t3) + k].of = SymbolOf(queue[j], c + (((t1 + t2) + t3) + k))
    <3>1. items[((t1 + t2) + t3) + k] = i4[k]
      BY <1>4 DEF FourOf
    <3>2. i4[k] = flush[k]
      BY <1>i4 DEF FrontOf
    <3>3. flush[k].of = Zero
      BY <1>5 DEF PartsHold
    <3>4. SymbolOf(queue[j], c + (((t1 + t2) + t3) + k)) = Zero
      BY <1>7 DEF PartsLie
    <3> QED BY <3>1, <3>2, <3>3, <3>4
  <2> QED BY <2>1, <2>2, <2>3, <2>4
<1>9. ASSUME NEW i \in 1 .. (t1 + t2) + (t3 + t4)
      PROVE  \/ i \in 1 .. t1
             \/ \E k \in 1 .. t2 : i = t1 + k
             \/ \E k \in 1 .. t3 : i = (t1 + t2) + k
             \/ \E k \in 1 .. t4 : i = ((t1 + t2) + t3) + k
  <2>1. CASE i <= t1
    BY <2>1
  <2>2. CASE t1 < i /\ i <= t1 + t2
    <3>1. i - t1 \in 1 .. t2 /\ i = t1 + (i - t1)
      BY <2>2
    <3> QED BY <3>1
  <2>3. CASE t1 + t2 < i /\ i <= (t1 + t2) + t3
    <3>1. i - (t1 + t2) \in 1 .. t3 /\ i = (t1 + t2) + (i - (t1 + t2))
      BY <2>3
    <3> QED BY <3>1
  <2>4. CASE (t1 + t2) + t3 < i
    <3>1. i - ((t1 + t2) + t3) \in 1 .. t4 /\ i = ((t1 + t2) + t3) + (i - ((t1 + t2) + t3))
      BY <2>4
    <3> QED BY <3>1
  <2> QED BY <2>1, <2>2, <2>3, <2>4
<1>10. \A i \in 1 .. (t1 + t2) + (t3 + t4) : items[i].of = SymbolOf(queue[j], c + i)
  BY <1>8, <1>9
<1> QED BY <1>4, <1>6, <1>10 DEF FourOf

(* What goes to muxed: symbols of the burst, the first with its length. *)
PiecesAre(more, p, m, n) ==
  /\ more \in Seq(SymbolType) /\ Len(more) = n
  /\ \A i \in 1 .. n : more[i] = Piece("symbols", p, m + i)

(* With the tag at the beginning of a burst these are the items of the     *)
(* link behind the multiplexer.                                            *)
LEMMA JoinedPieces ==
  ASSUME NEW p \in Packets, NEW m \in Nat, NEW n \in Nat,
         NEW items, ItemsAre(items, p, m, n),
         NEW tag, tag = IF m = 0 THEN BurstSize(p) ELSE 0,
         NEW more, more = [i \in DOMAIN items |->
                             [items[i] EXCEPT !.bits = IF i = 1 THEN tag ELSE 0]]
  PROVE  PiecesAre(more, p, m, n)
<1>0. /\ items \in Seq(SymbolType) /\ Len(items) = n
      /\ \A i \in 1 .. n : items[i].of = SymbolOf(p, m + i)
  BY DEF ItemsAre
<1> SUFFICES /\ more \in Seq(SymbolType) /\ Len(more) = n
             /\ \A i \in 1 .. n : more[i] = Piece("symbols", p, m + i)
  BY DEF PiecesAre
<1>1. BurstSize(p) \in Nat
  BY PacketSizes
<1>2. DOMAIN items = 1 .. n /\ \A i \in 1 .. n : items[i] \in SymbolType
  BY <1>0, LenProperties, ElementOfSeq
<1>3. ASSUME NEW i \in 1 .. n
      PROVE  more[i] = Piece("symbols", p, m + i) /\ more[i] \in SymbolType
  <2>1. items[i] \in SymbolType
    BY <1>2
  <2>2. more[i] = [of |-> items[i].of, bits |-> IF i = 1 THEN tag ELSE 0]
    BY <1>2, <2>1 DEF SymbolType
  <2>3. (IF i = 1 THEN tag ELSE 0) = (IF m + i = 1 THEN BurstSize(p) ELSE 0)
    <3>1. CASE m = 0
      BY <3>1
    <3>2. CASE m > 0
      <4>1. ~(m + i = 1) /\ tag = 0
        BY <3>2
      <4> QED BY <4>1
    <3> QED BY <3>1, <3>2
  <2>4. more[i] = Piece("symbols", p, m + i)
    BY <1>0, <2>2, <2>3 DEF Piece
  <2>5. (IF i = 1 THEN tag ELSE 0) \in Nat
    BY <1>1
  <2>6. more[i] \in SymbolType
    BY <2>1, <2>2, <2>5 DEF SymbolType
  <2> QED BY <2>4, <2>6
<1>4. more \in [1 .. n -> SymbolType]
  BY <1>2, <1>3
<1>5. more \in Seq(SymbolType) /\ Len(more) = n
  BY <1>4, FunctionIsSeq
<1> QED BY <1>3, <1>5

(* The number of items that the inputs of the multiplexer hold. *)
MuxAvail == [i \in 1 .. 4 |-> Len(<<syncword, packets, ramp_down, flush>>[i])]

(* Items t1 to t4 of the parts of burst j leave the links. *)
MuxMoves(j, t1, t2, t3, t4) ==
  /\ t1 <= Len(syncword) /\ t2 <= Len(packets) /\ t3 <= Len(ramp_down) /\ t4 <= Len(flush)
  /\ syncword' = From(syncword, t1) /\ packets' = From(packets, t2)
  /\ ramp_down' = From(ramp_down, t3) /\ flush' = From(flush, t4)
  /\ \E more \in Seq(SymbolType) :
       /\ muxed' = muxed \o more
       /\ Len(more) = (t1 + t2) + (t3 + t4)
       /\ \A i \in 1 .. Len(more) : more[i] = Piece("symbols", queue[j], MuxSent + i)
       /\ Len(muxed) + Len(more) <= MuxedCapacity

(* The burst is done with them. *)
MuxEnds(j, t1, t2, t3, t4) ==
  /\ mux_packet_lens' = <<>>
  /\ MuxPart(1) + t1 = SyncwordSize /\ MuxPart(2) + t2 = queue[j].len
  /\ MuxPart(3) + t3 = RampDownSize /\ MuxPart(4) + t4 = FlushSize

(* It goes on. *)
MuxGoesOn(j, t1, t2, t3, t4) ==
  /\ mux_packet_lens' = PartSizes(queue[j])
  /\ mux_current_input' \in 1 .. 4
  /\ mux_remaining' \in 1 .. PartSizes(queue[j])[mux_current_input']
  /\ MuxPart(1)' = MuxPart(1) + t1 /\ MuxPart(2)' = MuxPart(2) + t2
  /\ MuxPart(3)' = MuxPart(3) + t3 /\ MuxPart(4)' = MuxPart(4) + t4
  /\ (t1 + t2) + (t3 + t4) <= BurstSize(queue[j]) - MuxSent
  /\ MuxSent + ((t1 + t2) + (t3 + t4)) > 0

(* After a call that leaves the burst at an input, what has left of every  *)
(* part is what had left and what was taken.                               *)
PartsAfter(c1, c2, c3, c4) ==
  /\ mux_current_input' \in 1 .. 4
  /\ mux_remaining' \in 1 .. mux_packet_lens'[mux_current_input']
  /\ MuxPart(1)' = c1 /\ MuxPart(2)' = c2
  /\ MuxPart(3)' = c3 /\ MuxPart(4)' = c4

(* That is so wherever the call stops. *)
LEMMA MuxPartsAfter ==
  ASSUME NEW p, NEW s \in Nat, NEW l \in Nat, NEW r \in Nat, NEW f \in Nat,
         NEW c1 \in Nat, NEW c2 \in Nat, NEW c3 \in Nat, NEW c4 \in Nat,
         MuxNumbers(p, s, l, r, f, c1, c2, c3, c4),
         NEW t1 \in Nat, NEW t2 \in Nat, NEW t3 \in Nat, NEW t4 \in Nat,
         Copies(s, l, r, f, c1, c2, c3, c4, t1, t2, t3, t4),
         NEW bits, NEW t, t[1] = t1, t[2] = t2, t[3] = t3, t[4] = t4,
         NeedsAre(bits, s - c1, l - c2, r - c3, f - c4),
         mux_packet_lens' = <<s, l, r, f>>,
         \/ MuxStops(bits, t, 1) \/ MuxStops(bits, t, 2)
         \/ MuxStops(bits, t, 3) \/ MuxStops(bits, t, 4)
  PROVE  PartsAfter(c1 + t1, c2 + t2, c3 + t3, c4 + t4)
<1>0. /\ MUX!Needs(bits, 1) = s - c1 /\ MUX!Needs(bits, 2) = l - c2
      /\ MUX!Needs(bits, 3) = r - c3 /\ MUX!Needs(bits, 4) = f - c4
  BY DEF NeedsAre
<1> SUFFICES /\ mux_current_input' \in 1 .. 4
             /\ mux_remaining' \in 1 .. mux_packet_lens'[mux_current_input']
             /\ MuxPart(1)' = c1 + t1 /\ MuxPart(2)' = c2 + t2
             /\ MuxPart(3)' = c3 + t3 /\ MuxPart(4)' = c4 + t4
  BY DEF PartsAfter
<1>1. /\ c1 <= s /\ c2 <= l /\ c3 <= r /\ c4 <= f /\ s > 0 /\ l > 0 /\ r > 0 /\ f > 0
      /\ c2 > 0 => c1 = s
      /\ c3 > 0 => c2 = l
      /\ c4 > 0 => c3 = r
  BY DEF MuxNumbers
<1>2. /\ c1 + t1 <= s /\ c2 + t2 <= l /\ c3 + t3 <= r /\ c4 + t4 <= f
      /\ t2 > 0 => c1 + t1 = s
      /\ t3 > 0 => c1 + t1 = s /\ c2 + t2 = l
      /\ t4 > 0 => c1 + t1 = s /\ c2 + t2 = l /\ c3 + t3 = r
  BY DEF Copies
<1>3. /\ mux_packet_lens' # <<>>
      /\ mux_packet_lens'[1] = s /\ mux_packet_lens'[2] = l
      /\ mux_packet_lens'[3] = r /\ mux_packet_lens'[4] = f
  OBVIOUS
<1>4. CASE MuxStops(bits, t, 1)
  <2>1. mux_current_input' = 1 /\ t1 < s - c1 /\ mux_remaining' = (s - c1) - t1
    BY <1>0, <1>4 DEF MuxStops
  <2>2. t2 = 0 /\ t3 = 0 /\ t4 = 0 /\ c2 = 0 /\ c3 = 0 /\ c4 = 0
    BY <1>1, <1>2, <2>1
  <2>3. mux_remaining' \in 1 .. s /\ s - mux_remaining' = c1 + t1
    BY <2>1
  <2>4. /\ MuxPart(1)' = s - mux_remaining' /\ MuxPart(2)' = 0
        /\ MuxPart(3)' = 0 /\ MuxPart(4)' = 0
    BY <1>3, <2>1 DEF MuxPart
  <2> QED BY <1>3, <2>1, <2>2, <2>3, <2>4
<1>5. CASE MuxStops(bits, t, 2)
  <2>1. /\ mux_current_input' = 2 /\ t2 < l - c2 /\ mux_remaining' = (l - c2) - t2
        /\ t1 = s - c1
    BY <1>0, <1>5 DEF MuxStops
  <2>2. t3 = 0 /\ t4 = 0 /\ c3 = 0 /\ c4 = 0 /\ c1 + t1 = s
    BY <1>1, <1>2, <2>1
  <2>3. mux_remaining' \in 1 .. l /\ l - mux_remaining' = c2 + t2
    BY <2>1
  <2>4. /\ MuxPart(1)' = s /\ MuxPart(2)' = l - mux_remaining'
        /\ MuxPart(3)' = 0 /\ MuxPart(4)' = 0
    BY <1>3, <2>1 DEF MuxPart
  <2> QED BY <1>3, <2>1, <2>2, <2>3, <2>4
<1>6. CASE MuxStops(bits, t, 3)
  <2>1. /\ mux_current_input' = 3 /\ t3 < r - c3 /\ mux_remaining' = (r - c3) - t3
        /\ t1 = s - c1 /\ t2 = l - c2
    <3>1. 1 \in 1 .. 3 - 1 /\ 2 \in 1 .. 3 - 1
      OBVIOUS
    <3> QED BY <1>0, <1>6, <3>1 DEF MuxStops
  <2>2. t4 = 0 /\ c4 = 0 /\ c1 + t1 = s /\ c2 + t2 = l
    BY <1>1, <1>2, <2>1
  <2>3. mux_remaining' \in 1 .. r /\ r - mux_remaining' = c3 + t3
    BY <2>1
  <2>4. /\ MuxPart(1)' = s /\ MuxPart(2)' = l
        /\ MuxPart(3)' = r - mux_remaining' /\ MuxPart(4)' = 0
    BY <1>3, <2>1 DEF MuxPart
  <2> QED BY <1>3, <2>1, <2>2, <2>3, <2>4
<1>7. CASE MuxStops(bits, t, 4)
  <2>1. /\ mux_current_input' = 4 /\ t4 < f - c4 /\ mux_remaining' = (f - c4) - t4
        /\ t1 = s - c1 /\ t2 = l - c2 /\ t3 = r - c3
    <3>1. 1 \in 1 .. 4 - 1 /\ 2 \in 1 .. 4 - 1 /\ 3 \in 1 .. 4 - 1
      OBVIOUS
    <3> QED BY <1>0, <1>7, <3>1 DEF MuxStops
  <2>2. c1 + t1 = s /\ c2 + t2 = l /\ c3 + t3 = r
    BY <2>1
  <2>3. mux_remaining' \in 1 .. f /\ f - mux_remaining' = c4 + t4
    BY <2>1
  <2>4. /\ MuxPart(1)' = s /\ MuxPart(2)' = l
        /\ MuxPart(3)' = r /\ MuxPart(4)' = f - mux_remaining'
    BY <1>3, <2>1 DEF MuxPart
  <2> QED BY <1>3, <2>1, <2>2, <2>3, <2>4
<1> QED BY <1>4, <1>5, <1>6, <1>7

(* The multiplexer waits, or goes on in a burst; it does not throw. *)
LEMMA MuxEffect ==
  ASSUME Types, NEW at, NEW pat, NEW j, MuxAt(at, j), PacketsAt(pat, j), RowsAt(j),
         NEW space \in 1 .. MuxedCapacity, Mux(space)
  PROVE  /\ UNCHANGED mux_failed
         /\ UNCHANGED <<sync_position, sync_id, packet, place, ramp_count, ramp_id,
                        flush_count, history, filtered, scaled, shaper_vars, queue, out>>
         /\ \/ UNCHANGED <<syncword, packets, ramp_down, flush, muxed, mux_vars>>
            \/ /\ j \in 1 .. Q
               /\ \E t1, t2, t3, t4 \in Nat :
                    /\ MuxMoves(j, t1, t2, t3, t4)
                    /\ MuxEnds(j, t1, t2, t3, t4) \/ MuxGoesOn(j, t1, t2, t3, t4)
<1>1. PICK avail, bits : avail = MuxAvail /\ bits = MuxBits
  OBVIOUS
<1>2. UNCHANGED <<sync_position, sync_id, packet, place, ramp_count, ramp_id,
                  flush_count, history, filtered, scaled, shaper_vars, queue, out>>
  BY DEF Mux
<1>3. PICK t :
        /\ Len(muxed) + space <= MuxedCapacity
        /\ MUX!ProcessBulk(avail, bits, space, t)
        /\ LET items == SubSeq(syncword, 1, t[1]) \o SubSeq(packets, 1, t[2])
                          \o SubSeq(ramp_down, 1, t[3]) \o SubSeq(flush, 1, t[4])
           IN muxed' = muxed \o
                [i \in DOMAIN items |->
                   [items[i] EXCEPT !.bits = IF i = 1 THEN MUX!TagOut(bits) ELSE 0]]
        /\ syncword' = From(syncword, t[1])
        /\ packets' = From(packets, t[2])
        /\ ramp_down' = From(ramp_down, t[3])
        /\ flush' = From(flush, t[4])
  BY <1>1 DEF Mux, MuxAvail, MuxBits
<1>4. /\ syncword \in Seq(SymbolType) /\ packets \in Seq(SymbolType)
      /\ ramp_down \in Seq(SymbolType) /\ flush \in Seq(SymbolType)
      /\ muxed \in Seq(SymbolType) /\ mux_failed = FALSE
  BY DEF Types, NoBlockFails, TypeOK
<1>5. /\ avail[1] = Len(syncword) /\ avail[2] = Len(packets)
      /\ avail[3] = Len(ramp_down) /\ avail[4] = Len(flush)
  BY <1>1 DEF MuxAvail
<1>6. /\ avail[1] \in Nat /\ avail[2] \in Nat /\ avail[3] \in Nat /\ avail[4] \in Nat
  BY <1>5, TypeFacts
<1>7. /\ 1 \in MUX!Inputs /\ 2 \in MUX!Inputs /\ 3 \in MUX!Inputs /\ 4 \in MUX!Inputs
      /\ \A i \in MUX!Inputs : i = 1 \/ i = 2 \/ i = 3 \/ i = 4
  BY DEF MUX!Inputs
<1>8. mux_packet_lens = <<>> /\ (\A i \in MUX!Inputs : avail[i] > 0)
        => /\ j \in 1 .. Q /\ bits[1] = SyncwordSize /\ bits[2] = queue[j].len
           /\ bits[3] = RampDownSize /\ bits[4] = FlushSize
  BY <1>1, <1>5, <1>7, StartTags
<1>9. CASE MUX!Wait(avail, t)
  <2>1. t[1] = 0 /\ t[2] = 0 /\ t[3] = 0 /\ t[4] = 0 /\ UNCHANGED mux_vars
    BY <1>7, <1>9 DEF MUX!Wait, MUX!vars, mux_vars
  <2>2. \A seq \in Seq(SymbolType) : From(seq, 0) = seq
    <3>1. SUFFICES ASSUME NEW seq \in Seq(SymbolType) PROVE From(seq, 0) = seq
      OBVIOUS
    <3>2. Len(seq) \in Nat /\ 0 \in 0 .. Len(seq)
      BY LenProperties
    <3>3. /\ From(seq, 0) \in Seq(SymbolType) /\ Len(From(seq, 0)) = Len(seq) - 0
          /\ \A i \in 1 .. Len(seq) - 0 : From(seq, 0)[i] = seq[i + 0]
      BY <3>2, FromProperties
    <3>4. Len(From(seq, 0)) = Len(seq) /\ \A i \in 1 .. Len(seq) : From(seq, 0)[i] = seq[i]
      BY <3>2, <3>3
    <3> QED BY <3>3, <3>4, SeqEqual
  <2>3. UNCHANGED <<syncword, packets, ramp_down, flush>>
    BY <1>3, <1>4, <2>1, <2>2
  <2>4. UNCHANGED muxed
    <3>1. \A seq \in Seq(SymbolType) : SubSeq(seq, 1, 0) = <<>>
      OBVIOUS
    <3>2. PICK items : items = SubSeq(syncword, 1, 0) \o SubSeq(packets, 1, 0)
                                 \o SubSeq(ramp_down, 1, 0) \o SubSeq(flush, 1, 0)
      OBVIOUS
    <3>3. items = <<>> \o <<>> \o <<>> \o <<>>
      BY <1>4, <3>1, <3>2
    <3>4. items = <<>>
      BY <3>3
    <3>5. muxed' = muxed \o [i \in DOMAIN items |->
                     [items[i] EXCEPT !.bits = IF i = 1 THEN MUX!TagOut(bits) ELSE 0]]
      BY <1>3, <2>1, <3>2
    <3>6. DOMAIN items = {}
      BY <3>4
    <3>7. PICK empty : empty = [i \in DOMAIN items |->
                     [items[i] EXCEPT !.bits = IF i = 1 THEN MUX!TagOut(bits) ELSE 0]]
      OBVIOUS
    <3>8. empty = <<>>
      BY <3>6, <3>7
    <3> QED BY <1>4, <3>5, <3>7, <3>8
  <2> QED BY <1>2, <2>1, <2>3, <2>4 DEF mux_vars
<1>10. ~MUX!Throw(avail, bits, t)
  <2>1. SUFFICES ASSUME MUX!Throw(avail, bits, t) PROVE FALSE
    OBVIOUS
  <2>2. mux_packet_lens = <<>> /\ \A i \in MUX!Inputs : avail[i] > 0
    BY <2>1 DEF MUX!Throw, MUX!Ready, MUX!AtStart
  <2>3. PICK i \in MUX!Inputs : bits[i] = 0
    BY <2>1 DEF MUX!Throw
  <2>4. /\ j \in 1 .. Q /\ bits[1] = SyncwordSize /\ bits[2] = queue[j].len
        /\ bits[3] = RampDownSize /\ bits[4] = FlushSize
    BY <1>8, <2>2
  <2>5. bits[1] # 0 /\ bits[2] # 0 /\ bits[3] # 0 /\ bits[4] # 0
    <3>1. queue[j].len \in Nat /\ queue[j].len > 0
      BY <2>4, TypeFacts, PacketSizes
    <3> QED BY <2>4, <3>1, Sizes
  <2> QED BY <1>7, <2>3, <2>5
<1>11. CASE MUX!Copy(avail, bits, space, t)
  <2>1. mux_packet_lens = <<>> => \A i \in MUX!Inputs : avail[i] > 0
    BY <1>11 DEF MUX!Copy, MUX!Ready, MUX!AtStart
  <2>2. j \in 1 .. Q /\ queue[j] \in Packets
    BY <1>8, <2>1, TypeFacts DEF MuxAt
  <2>3. PICK s, l, r, f, c1, c2, c3, c4 \in Nat :
          MuxNumbers(queue[j], s, l, r, f, c1, c2, c3, c4)
    BY <2>2, MuxNumbersExist
  <2>4. /\ s = SyncwordSize /\ l = queue[j].len /\ r = RampDownSize /\ f = FlushSize
        /\ c1 = MuxPart(1) /\ c2 = MuxPart(2) /\ c3 = MuxPart(3) /\ c4 = MuxPart(4)
        /\ MuxSent = (c1 + c2) + (c3 + c4)
        /\ BurstSize(queue[j]) = (s + l) + (r + f)
        /\ c1 <= s /\ c2 <= l /\ c3 <= r /\ c4 <= f
    BY <2>3 DEF MuxNumbers
  <2>5. /\ mux_packet_lens = <<>> => bits[1] = s /\ bits[2] = l /\ bits[3] = r /\ bits[4] = f
        /\ mux_packet_lens # <<>> =>
             /\ mux_packet_lens = <<s, l, r, f>>
             /\ mux_current_input \in 1 .. 4
             /\ mux_remaining \in 1 .. mux_packet_lens[mux_current_input]
    BY <1>8, <2>1, <2>4 DEF MuxAt, PartSizes
  <2>61. NeedsAre(bits, s - c1, l - c2, r - c3, f - c4)
    BY <2>3, <2>5, MuxNeeds
  <2>6. /\ MUX!Needs(bits, 1) = s - c1 /\ MUX!Needs(bits, 2) = l - c2
        /\ MUX!Needs(bits, 3) = r - c3 /\ MUX!Needs(bits, 4) = f - c4
    BY <2>61 DEF NeedsAre
  <2>71. /\ s - c1 \in Nat /\ l - c2 \in Nat /\ r - c3 \in Nat /\ f - c4 \in Nat
    <3>1. c1 <= s /\ c2 <= l /\ c3 <= r /\ c4 <= f
      BY <2>4
    <3> QED BY <3>1
  <2>7. PICK n1, n2, n3, n4 \in Nat :
          n1 = s - c1 /\ n2 = l - c2 /\ n3 = r - c3 /\ n4 = f - c4
    BY <2>71
  <2>8. t = MUX!Takes(avail, bits, space)
    BY <1>11 DEF MUX!Copy
  <2>9. /\ t[1] \in Nat /\ t[1] <= avail[1] /\ t[1] <= n1
        /\ t[2] \in Nat /\ t[2] <= avail[2] /\ t[2] <= n2
        /\ t[3] \in Nat /\ t[3] <= avail[3] /\ t[3] <= n3
        /\ t[4] \in Nat /\ t[4] <= avail[4] /\ t[4] <= n4
        /\ (t[1] + t[2]) + (t[3] + t[4]) <= space
        /\ n1 > 0 /\ avail[1] > 0 /\ space > 0 => t[1] > 0
        /\ t[2] > 0 => t[1] = n1
        /\ t[3] > 0 => t[1] = n1 /\ t[2] = n2
        /\ t[4] > 0 => t[1] = n1 /\ t[2] = n2 /\ t[3] = n3
    <3>1. space \in Nat
      OBVIOUS
    <3>2. MUX!Needs(bits, 1) = n1 /\ MUX!Needs(bits, 2) = n2
          /\ MUX!Needs(bits, 3) = n3 /\ MUX!Needs(bits, 4) = n4
      BY <2>6, <2>7
    <3>3. TakenAre(MUX!Takes(avail, bits, space), avail, space, n1, n2, n3, n4)
      BY <1>6, <3>1, <3>2, TakesFromFour
    <3> QED BY <2>8, <3>3 DEF TakenAre
  <2>10. PICK t1, t2, t3, t4 \in Nat :
           /\ t1 = t[1] /\ t2 = t[2] /\ t3 = t[3] /\ t4 = t[4]
           /\ t1 <= n1 /\ t2 <= n2 /\ t3 <= n3 /\ t4 <= n4
           /\ (t1 + t2) + (t3 + t4) <= space
    BY <2>9
  <2>11. Copies(s, l, r, f, c1, c2, c3, c4, t1, t2, t3, t4)
    <3>1. c1 + t1 <= s /\ c2 + t2 <= l /\ c3 + t3 <= r /\ c4 + t4 <= f
      BY <2>7, <2>10
    <3>2. /\ t2 > 0 => t1 = n1
          /\ t3 > 0 => t1 = n1 /\ t2 = n2
          /\ t4 > 0 => t1 = n1 /\ t2 = n2 /\ t3 = n3
      BY <2>9, <2>10
    <3>3. (t1 = n1 => c1 + t1 = s) /\ (t2 = n2 => c2 + t2 = l) /\ (t3 = n3 => c3 + t3 = r)
      BY <2>7
    <3> QED BY <3>1, <3>2, <3>3 DEF Copies
  <2>12. /\ t1 <= Len(syncword) /\ t2 <= Len(packets)
         /\ t3 <= Len(ramp_down) /\ t4 <= Len(flush)
    BY <1>5, <2>9, <2>10
  <2> DEFINE c == (c1 + c2) + (c3 + c4)
             n == (t1 + t2) + (t3 + t4)
  <2>13. MUX!TagOut(bits) = IF c = 0 THEN BurstSize(queue[j]) ELSE 0
    <3>1. (mux_packet_lens = <<>>) <=> (c = 0)
      BY <2>3 DEF MuxNumbers
    <3>2. CASE mux_packet_lens = <<>>
      <4>1. bits[1] = s /\ bits[2] = l /\ bits[3] = r /\ bits[4] = f
        BY <2>5, <3>2
      <4>2. bits[1] \in Int /\ bits[2] \in Int /\ bits[3] \in Int /\ bits[4] \in Int
        BY <4>1
      <4>3. MUX!MapThenSumSet(LAMBDA i : bits[i], MUX!Inputs) = (bits[1] + bits[2]) + (bits[3] + bits[4])
        BY <4>2, SumOfAll
      <4>4. MUX!TagOut(bits) = (s + l) + (r + f)
        BY <3>2, <4>1, <4>3 DEF MUX!TagOut, MUX!AtStart
      <4> QED BY <2>4, <3>1, <3>2, <4>4
    <3>3. CASE mux_packet_lens # <<>>
      BY <3>1, <3>3 DEF MUX!TagOut, MUX!AtStart
    <3> QED BY <3>2, <3>3
  <2>14. MuxMoves(j, t1, t2, t3, t4)
    <3>1. PICK items : items = SubSeq(syncword, 1, t1) \o SubSeq(packets, 1, t2)
                                 \o SubSeq(ramp_down, 1, t3) \o SubSeq(flush, 1, t4)
      OBVIOUS
    <3>2. ItemsAre(items, queue[j], c, n)
      BY <2>2, <2>3, <2>11, <2>12, <3>1, JoinedItems
    <3>3. PICK more : more = [i \in DOMAIN items |->
                                [items[i] EXCEPT !.bits = IF i = 1 THEN MUX!TagOut(bits) ELSE 0]]
      OBVIOUS
    <3>4. PICK cc, nn \in Nat : cc = c /\ nn = n
      OBVIOUS
    <3>5. /\ more \in Seq(SymbolType) /\ Len(more) = nn
          /\ \A i \in 1 .. nn : more[i] = Piece("symbols", queue[j], cc + i)
      <4>1. /\ ItemsAre(items, queue[j], cc, nn)
            /\ MUX!TagOut(bits) = IF cc = 0 THEN BurstSize(queue[j]) ELSE 0
        BY <2>13, <3>2, <3>4
      <4>2. PICK tag : tag = MUX!TagOut(bits)
        OBVIOUS
      <4>3. PiecesAre(more, queue[j], cc, nn)
        BY <2>2, <3>3, <4>1, <4>2, JoinedPieces
      <4> QED BY <4>3 DEF PiecesAre
    <3>6. muxed' = muxed \o more
      BY <1>3, <2>10, <3>1, <3>3
    <3>7. /\ syncword' = From(syncword, t1) /\ packets' = From(packets, t2)
          /\ ramp_down' = From(ramp_down, t3) /\ flush' = From(flush, t4)
      BY <1>3, <2>10
    <3>8. MuxSent = cc /\ Len(more) = (t1 + t2) + (t3 + t4)
      BY <2>4, <3>4, <3>5
    <3>9. Len(muxed) + Len(more) <= MuxedCapacity
      <4>1. PICK m \in Nat : m = Len(muxed)
        BY TypeFacts
      <4>2. m + space <= MuxedCapacity /\ nn <= space
        BY <1>3, <2>10, <3>4, <4>1
      <4> QED BY <3>5, <4>1, <4>2, Sizes
    <3>10. \A i \in 1 .. Len(more) : more[i] = Piece("symbols", queue[j], MuxSent + i)
      BY <3>5, <3>8
    <3> QED BY <2>12, <3>5, <3>6, <3>7, <3>8, <3>9, <3>10 DEF MuxMoves
  <2>15. CASE MUX!Finishes(bits, t)
    <3>1. t1 = s - c1 /\ t2 = l - c2 /\ t3 = r - c3 /\ t4 = f - c4
      BY <1>7, <2>6, <2>10, <2>15 DEF MUX!Finishes
    <3>2. mux_packet_lens' = <<>> /\ UNCHANGED mux_failed
      BY <1>11, <2>15 DEF MUX!Copy
    <3>3. c1 + t1 = s /\ c2 + t2 = l /\ c3 + t3 = r /\ c4 + t4 = f
      BY <3>1
    <3>4. MuxEnds(j, t1, t2, t3, t4)
      BY <2>4, <3>2, <3>3 DEF MuxEnds
    <3> QED BY <1>2, <2>2, <2>14, <3>2, <3>4
  <2>16. CASE ~MUX!Finishes(bits, t)
    <3>1. /\ mux_packet_lens' = MUX!Lens(bits) /\ UNCHANGED mux_failed
          /\ \/ MuxStops(bits, t, 1) \/ MuxStops(bits, t, 2)
             \/ MuxStops(bits, t, 3) \/ MuxStops(bits, t, 4)
      <4>1. /\ MUX!Needs(bits, 1) = n1 /\ MUX!Needs(bits, 2) = n2
            /\ MUX!Needs(bits, 3) = n3 /\ MUX!Needs(bits, 4) = n4
        BY <2>6, <2>7
      <4> QED BY <1>11, <2>9, <2>16, <4>1, MuxStopsSomewhere
    <3>2. MUX!Lens(bits) = <<s, l, r, f>>
      <4>1. CASE mux_packet_lens = <<>>
        <5>1. MUX!Lens(bits) = bits
          BY <4>1 DEF MUX!Lens, MUX!AtStart
        <5>2. bits = [i \in 1 .. 4 |-> bits[i]]
          BY <1>1 DEF MuxBits
        <5>3. bits[1] = s /\ bits[2] = l /\ bits[3] = r /\ bits[4] = f
          BY <2>5, <4>1
        <5>4. [i \in 1 .. 4 |-> bits[i]] = <<s, l, r, f>>
          <6>1. \A i \in 1 .. 4 : bits[i] = <<s, l, r, f>>[i]
            <7>1. \A i \in 1 .. 4 : i = 1 \/ i = 2 \/ i = 3 \/ i = 4
              OBVIOUS
            <7> QED BY <5>3, <7>1
          <6>2. <<s, l, r, f>> = [i \in 1 .. 4 |-> <<s, l, r, f>>[i]]
            OBVIOUS
          <6> QED BY <6>1, <6>2
        <5> QED BY <5>1, <5>2, <5>4
      <4>2. CASE mux_packet_lens # <<>>
        BY <2>5, <4>2 DEF MUX!Lens, MUX!AtStart
      <4> QED BY <4>1, <4>2
    <3>3. mux_packet_lens' = <<s, l, r, f>>
      BY <3>1, <3>2
    <3>41. PartsAfter(c1 + t1, c2 + t2, c3 + t3, c4 + t4)
      BY <2>3, <2>61, <2>10, <2>11, <3>1, <3>3, MuxPartsAfter
    <3>4. /\ mux_current_input' \in 1 .. 4
          /\ mux_remaining' \in 1 .. mux_packet_lens'[mux_current_input']
          /\ MuxPart(1)' = c1 + t1 /\ MuxPart(2)' = c2 + t2
          /\ MuxPart(3)' = c3 + t3 /\ MuxPart(4)' = c4 + t4
      BY <3>41 DEF PartsAfter
    <3>5. c + n > 0
      <4>1. CASE mux_packet_lens = <<>>
        <5>1. c1 = 0 /\ avail[1] > 0 /\ s > 0
          BY <1>7, <2>1, <2>4, <4>1, Sizes DEF MuxPart
        <5>2. t1 > 0
          BY <2>7, <2>9, <2>10, <5>1
        <5> QED BY <5>2
      <4>2. CASE mux_packet_lens # <<>>
        <5>1. MuxSent > 0
          BY <4>2 DEF MuxAt
        <5> QED BY <2>4, <5>1
      <4> QED BY <4>1, <4>2
    <3>6. n <= BurstSize(queue[j]) - MuxSent
      <4>1. c1 + t1 <= s /\ c2 + t2 <= l /\ c3 + t3 <= r /\ c4 + t4 <= f
        BY <2>11 DEF Copies
      <4>2. n <= ((s + l) + (r + f)) - c
        BY <4>1
      <4> QED BY <2>4, <4>2
    <3>7. PartSizes(queue[j]) = <<s, l, r, f>>
      BY <2>4 DEF PartSizes
    <3>8. MuxGoesOn(j, t1, t2, t3, t4)
      BY <2>4, <3>3, <3>4, <3>5, <3>6, <3>7 DEF MuxGoesOn
    <3> QED BY <1>2, <2>2, <2>14, <3>1, <3>8
  <2> QED BY <2>15, <2>16
<1> QED BY <1>3, <1>9, <1>10, <1>11 DEF MUX!ProcessBulk

(* What the multiplexer leaves alone. *)
MuxLeaves ==
  UNCHANGED <<sync_position, sync_id, packet, place, ramp_count, ramp_id, flush_count,
              history, filtered, scaled, shaper_vars, queue, mux_failed>>

(* The items that it takes lie in the burst where it is. *)
LEMMA MuxedGrows ==
  ASSUME Types, NEW at, NEW j \in 1 .. Q, BurstsAt(at), MuxAt(at, j),
         NEW t1 \in Nat, NEW t2 \in Nat, NEW t3 \in Nat, NEW t4 \in Nat,
         MuxMoves(j, t1, t2, t3, t4), MuxLeaves,
         (t1 + t2) + (t3 + t4) <= BurstSize(queue[j]) - MuxSent
  PROVE  /\ BurstsAt(at)'
         /\ muxed' \in Seq(SymbolType) /\ Len(muxed') <= MuxedCapacity
         /\ Len(muxed') = Len(muxed) + ((t1 + t2) + (t3 + t4))
<1>1. PICK more \in Seq(SymbolType) :
        /\ muxed' = muxed \o more
        /\ Len(more) = (t1 + t2) + (t3 + t4)
        /\ \A i \in 1 .. Len(more) : more[i] = Piece("symbols", queue[j], MuxSent + i)
        /\ Len(muxed) + Len(more) <= MuxedCapacity
  BY DEF MuxMoves
<1>2. muxed \in Seq(SymbolType) /\ queue \in Seq(Packets) /\ Q = Len(queue) /\ "symbols" \in Forms
  BY DEF Types, NoBlockFails, TypeOK, Q, Forms
<1>3. muxed' \in Seq(SymbolType) /\ Len(muxed') = Len(muxed) + Len(more)
  BY <1>1, <1>2, JoinProperties
<1>4. PICK g \in Nat : g = MuxSent
  BY MuxParts
<1>5. at[j] + g = Len(muxed)
  BY <1>4 DEF MuxAt
<1>6. queue[j] \in Packets /\ BurstSize(queue[j]) \in Nat
  BY TypeFacts, PacketSizes
<1>7. g + Len(more) <= Span("symbols", queue[j])
  <2>1. PICK s, n \in Nat : s = BurstSize(queue[j]) /\ n = Len(more)
    BY <1>1, <1>6
  <2>2. n <= s - g
    BY <1>1, <1>4, <2>1
  <2>3. g + n <= s
    BY <2>2
  <2> QED BY <2>1, <2>3 DEF Span
<1>8. Places("symbols", queue, at) /\ Holds("symbols", muxed, queue, at)
  BY DEF BurstsAt
<1>9. Holds("symbols", muxed \o more, queue, at)
  <2>1. \A i \in 1 .. Len(more) : more[i] = Piece("symbols", queue[j], g + i)
    BY <1>1, <1>4
  <2>2. j \in 1 .. Len(queue)
    BY <1>2
  <2> QED BY <1>2, <1>5, <1>7, <1>8, <2>1, <2>2, ItemsCome
<1>10. UNCHANGED <<filtered, scaled, queue, shaper_remaining, shaper_packet_len>>
  BY DEF MuxLeaves, shaper_vars
<1>11. /\ Sent' = Sent /\ Q' = Q
       /\ SampleAt(at, Len(filtered))' = SampleAt(at, Len(filtered))
       /\ SampleAt(at, Len(filtered) + Len(scaled))' = SampleAt(at, Len(filtered) + Len(scaled))
  BY <1>10 DEF Sent, Q, SampleAt
<1>12. BurstsAt(at)'
  BY <1>1, <1>9, <1>10, <1>11 DEF BurstsAt
<1> QED BY <1>1, <1>3, <1>12

(* The places of the packets after the items of the packet were taken. *)
PacketsLie(j, c, next) ==
  /\ packets' \in Seq(SymbolType) /\ Len(packets') <= PacketsCapacity
  /\ Places("packet", queue, next) /\ Holds("packet", packets', queue, next)
  /\ next[j] = 0 - c
  /\ Len(packets') = next[Q + 1] - Coming

(* Where the packets lie after symbols were taken. *)
LEMMA PacketsTaken ==
  ASSUME Types, NEW pat, NEW j \in 1 .. Q, PacketsAt(pat, j), MuxPart(2) \in Nat,
         NEW t \in Nat, t <= Len(packets), packets' = From(packets, t), MuxLeaves,
         NEW next, next = [k \in 1 .. Q + 1 |-> pat[k] - t]
  PROVE  PacketsLie(j, MuxPart(2) + t, next)
<1>1. /\ packets \in Seq(SymbolType) /\ Len(packets) <= PacketsCapacity
      /\ queue \in Seq(Packets) /\ Q = Len(queue) /\ "packet" \in Forms
  BY DEF Types, NoBlockFails, TypeOK, Q, Forms
<1>2. /\ Places("packet", queue, pat) /\ Holds("packet", packets, queue, pat)
      /\ pat[j] = 0 - MuxPart(2) /\ Len(packets) = pat[Q + 1] - Coming
  BY DEF PacketsAt
<1>3. PICK c, n, m \in Nat : c = Coming /\ n = Len(packets) /\ m = MuxPart(2)
  BY TypeFacts
<1>4. /\ Places("packet", queue, next)
      /\ t <= Len(packets) /\ Holds("packet", packets, queue, pat)
           => Holds("packet", From(packets, t), queue, next)
  BY <1>1, <1>2, ItemsLeave
<1>5. t \in 0 .. Len(packets)
  BY <1>3
<1>6. From(packets, t) \in Seq(SymbolType) /\ Len(From(packets, t)) = n - t
  BY <1>1, <1>3, <1>5, FromProperties
<1>7. n - t <= PacketsCapacity
  BY <1>1, <1>3, <1>5, Sizes
<1>8. next[j] = 0 - (m + t)
  <2>1. j \in 1 .. Q + 1 /\ next[j] = pat[j] - t
    BY TypeFacts
  <2>2. pat[j] = 0 - m
    BY <1>2, <1>3
  <2> QED BY <2>1, <2>2
<1>9. n - t = next[Q + 1] - c
  <2>1. Q + 1 \in 1 .. Q + 1
    BY TypeFacts
  <2>2. pat[Q + 1] \in Int
    BY <1>1, <1>2, <2>1, PlaceTypes
  <2>3. PICK y \in Int : y = pat[Q + 1]
    BY <2>2
  <2>4. n = y - c /\ next[Q + 1] = y - t
    BY <1>2, <1>3, <2>1, <2>3
  <2> QED BY <2>4
<1> QED BY <1>2, <1>3, <1>4, <1>6, <1>7, <1>8, <1>9 DEF PacketsLie

(* The rows after their items were taken. *)
RowsTaken(j, d1, d3, d4) ==
  /\ RowAt(syncword', "syncword", SyncwordSize, IdAt(j), d1, sync_id', sync_position')
  /\ RowAt(ramp_down', "ramp_down", RampDownSize, IdAt(j), d3, ramp_id', ramp_count')
  /\ ZerosAt(flush', d4, flush_count')

(* Where the other parts are after items were taken. *)
LEMMA RowsAfter ==
  ASSUME Types, NEW at, NEW j \in 1 .. Q, MuxAt(at, j), RowsAt(j),
         NEW t1 \in Nat, NEW t2 \in Nat, NEW t3 \in Nat, NEW t4 \in Nat,
         MuxMoves(j, t1, t2, t3, t4), MuxLeaves
  PROVE  /\ RowsTaken(j, MuxPart(1) + t1, MuxPart(3) + t3, MuxPart(4) + t4)
         /\ syncword' \in Seq(SymbolType) /\ Len(syncword') <= SyncwordCapacity
         /\ ramp_down' \in Seq(SymbolType) /\ Len(ramp_down') <= RampDownCapacity
         /\ flush' \in Seq(SymbolType) /\ Len(flush') <= FlushCapacity
<1>1. /\ syncword \in Seq(SymbolType) /\ Len(syncword) <= SyncwordCapacity
      /\ ramp_down \in Seq(SymbolType) /\ Len(ramp_down) <= RampDownCapacity
      /\ flush \in Seq(SymbolType) /\ Len(flush) <= FlushCapacity
  BY DEF Types, NoBlockFails, TypeOK
<1>2. PICK d1, d3, d4 \in Nat : d1 = MuxPart(1) /\ d3 = MuxPart(3) /\ d4 = MuxPart(4)
  BY MuxParts
<1>3. PICK n1, n3, n4 \in Nat : n1 = Len(syncword) /\ n3 = Len(ramp_down) /\ n4 = Len(flush)
  BY TypeFacts
<1>4. /\ t1 <= Len(syncword) /\ t3 <= Len(ramp_down) /\ t4 <= Len(flush)
      /\ syncword' = From(syncword, t1) /\ ramp_down' = From(ramp_down, t3)
      /\ flush' = From(flush, t4)
  BY DEF MuxMoves
<1>5. t1 \in 0 .. Len(syncword) /\ t3 \in 0 .. Len(ramp_down) /\ t4 \in 0 .. Len(flush)
  BY <1>3, <1>4
<1>6. UNCHANGED <<sync_id, sync_position, ramp_id, ramp_count, flush_count>>
  BY DEF MuxLeaves
<1>7. /\ RowAt(syncword, "syncword", SyncwordSize, IdAt(j), d1, sync_id, sync_position)
      /\ RowAt(ramp_down, "ramp_down", RampDownSize, IdAt(j), d3, ramp_id, ramp_count)
      /\ ZerosAt(flush, d4, flush_count)
  BY <1>2 DEF RowsAt
<1>8. RowAt(From(syncword, t1), "syncword", SyncwordSize, IdAt(j), d1 + t1, sync_id, sync_position)
  <2>1. SyncwordSize \in Nat
    BY Sizes
  <2>2. PICK id : id = IdAt(j)
    OBVIOUS
  <2>3. RowAt(syncword, "syncword", SyncwordSize, id, d1, sync_id, sync_position)
    BY <1>7, <2>2
  <2>4. RowAt(From(syncword, t1), "syncword", SyncwordSize, id, d1 + t1, sync_id, sync_position)
    BY <1>1, <1>5, <2>1, <2>3, RowTaken
  <2> QED BY <2>2, <2>4
<1>9. RowAt(From(ramp_down, t3), "ramp_down", RampDownSize, IdAt(j), d3 + t3, ramp_id, ramp_count)
  <2>1. RampDownSize \in Nat
    BY Sizes
  <2>2. PICK id : id = IdAt(j)
    OBVIOUS
  <2>3. RowAt(ramp_down, "ramp_down", RampDownSize, id, d3, ramp_id, ramp_count)
    BY <1>7, <2>2
  <2>4. RowAt(From(ramp_down, t3), "ramp_down", RampDownSize, id, d3 + t3, ramp_id, ramp_count)
    BY <1>1, <1>5, <2>1, <2>3, RowTaken
  <2> QED BY <2>2, <2>4
<1>10. ZerosAt(From(flush, t4), d4 + t4, flush_count)
  BY <1>1, <1>5, <1>7, ZerosTaken
<1>11. RowsTaken(j, MuxPart(1) + t1, MuxPart(3) + t3, MuxPart(4) + t4)
  BY <1>2, <1>4, <1>6, <1>8, <1>9, <1>10 DEF RowsTaken
<1>12. /\ From(syncword, t1) \in Seq(SymbolType) /\ Len(From(syncword, t1)) = n1 - t1
       /\ From(ramp_down, t3) \in Seq(SymbolType) /\ Len(From(ramp_down, t3)) = n3 - t3
       /\ From(flush, t4) \in Seq(SymbolType) /\ Len(From(flush, t4)) = n4 - t4
  BY <1>1, <1>3, <1>5, FromProperties
<1>13. n1 - t1 <= SyncwordCapacity /\ n3 - t3 <= RampDownCapacity /\ n4 - t4 <= FlushCapacity
  BY <1>1, <1>3, <1>5, Sizes
<1> QED BY <1>4, <1>11, <1>12, <1>13

(* The types after a call that copies items. *)
LEMMA MuxTypes ==
  ASSUME Types, NEW at, NEW pat, NEW j \in 1 .. Q,
         BurstsAt(at), MuxAt(at, j), PacketsAt(pat, j), RowsAt(j),
         NEW t1 \in Nat, NEW t2 \in Nat, NEW t3 \in Nat, NEW t4 \in Nat,
         MuxMoves(j, t1, t2, t3, t4), MuxLeaves,
         (t1 + t2) + (t3 + t4) <= BurstSize(queue[j]) - MuxSent
  PROVE  Types'
<1>1. TypeOK
  BY DEF Types, NoBlockFails
<1>2. muxed' \in Seq(SymbolType) /\ Len(muxed') <= MuxedCapacity
  BY MuxedGrows
<1>3. /\ syncword' \in Seq(SymbolType) /\ Len(syncword') <= SyncwordCapacity
      /\ ramp_down' \in Seq(SymbolType) /\ Len(ramp_down') <= RampDownCapacity
      /\ flush' \in Seq(SymbolType) /\ Len(flush') <= FlushCapacity
  BY RowsAfter
<1>4. packets' \in Seq(SymbolType) /\ Len(packets') <= PacketsCapacity
  <2>1. PICK next : next = [k \in 1 .. Q + 1 |-> pat[k] - t2]
    OBVIOUS
  <2>2. t2 <= Len(packets) /\ packets' = From(packets, t2) /\ MuxPart(2) \in Nat
    BY MuxParts DEF MuxMoves
  <2>3. PacketsLie(j, MuxPart(2) + t2, next)
    BY <2>1, <2>2, PacketsTaken
  <2> QED BY <2>3 DEF PacketsLie
<1>5. UNCHANGED <<sync_position, sync_id, packet, place, ramp_count, ramp_id, flush_count,
                  filtered, scaled, shaper_remaining, shaper_packet_len, shaper_failed,
                  queue, mux_failed>>
  BY DEF MuxLeaves, shaper_vars
<1>6. TypeOK'
  BY <1>1, <1>2, <1>3, <1>4, <1>5 DEF TypeOK
<1> QED BY <1>5, <1>6 DEF Types, NoBlockFails

(* The multiplexer is left in the burst. *)
LEMMA MuxGoesOnKeeps ==
  ASSUME Types, Chain, ShaperInBurst, NEW at, NEW pat, NEW j \in 1 .. Q,
         InPlace(at, pat, j),
         NEW t1 \in Nat, NEW t2 \in Nat, NEW t3 \in Nat, NEW t4 \in Nat,
         MuxMoves(j, t1, t2, t3, t4), MuxLeaves, MuxGoesOn(j, t1, t2, t3, t4)
  PROVE  BurstInv'
<1>1. /\ BurstsAt(at) /\ HistoryAt(at) /\ MuxAt(at, j) /\ PacketsAt(pat, j) /\ RowsAt(j)
  BY DEF InPlace
<1>2. /\ mux_packet_lens' = PartSizes(queue[j])
      /\ mux_current_input' \in 1 .. 4
      /\ mux_remaining' \in 1 .. PartSizes(queue[j])[mux_current_input']
      /\ MuxPart(1)' = MuxPart(1) + t1 /\ MuxPart(2)' = MuxPart(2) + t2
      /\ MuxPart(3)' = MuxPart(3) + t3 /\ MuxPart(4)' = MuxPart(4) + t4
      /\ (t1 + t2) + (t3 + t4) <= BurstSize(queue[j]) - MuxSent
      /\ MuxSent + ((t1 + t2) + (t3 + t4)) > 0
  BY DEF MuxGoesOn
<1>3. UNCHANGED <<sync_position, sync_id, packet, place, ramp_count, ramp_id, flush_count,
                  history, filtered, scaled, shaper_remaining, shaper_packet_len,
                  shaper_failed, queue>>
  BY DEF MuxLeaves, shaper_vars
<1>4. /\ BurstsAt(at)' /\ Len(muxed') = Len(muxed) + ((t1 + t2) + (t3 + t4))
  BY <1>1, <1>2, MuxedGrows
<1>5. HistoryAt(at)' /\ Chain' /\ ShaperInBurst'
  BY <1>1, <1>3, HistoryStays, ChainStays, ShaperStays
<1>6. Types'
  BY <1>1, <1>2, MuxTypes
<1>7. Q' = Q /\ Coming' = Coming /\ IdAt(j)' = IdAt(j)
  BY <1>3, IdStays DEF Q, Coming
<1>8. MuxSent' = MuxSent + ((t1 + t2) + (t3 + t4))
  <2>1. PICK c1, c2, c3, c4 \in Nat :
          c1 = MuxPart(1) /\ c2 = MuxPart(2) /\ c3 = MuxPart(3) /\ c4 = MuxPart(4)
    BY <1>1, MuxParts
  <2>2. MuxSent' = (c1 + t1) + (c2 + t2) + (c3 + t3) + (c4 + t4)
    BY <1>2, <2>1 DEF MuxSent
  <2>3. MuxSent = c1 + c2 + c3 + c4
    BY <2>1 DEF MuxSent
  <2> QED BY <2>2, <2>3
<1>9. MuxAt(at, j)'
  <2>1. PICK s, n, m \in Nat : s = MuxSent /\ n = Len(muxed) /\ m = (t1 + t2) + (t3 + t4)
    <3>1. MuxSent \in Nat /\ Len(muxed) \in Nat
      BY <1>1, MuxParts, TypeFacts
    <3>2. (t1 + t2) + (t3 + t4) \in Nat
      OBVIOUS
    <3> QED BY <3>1, <3>2
  <2>2. at[j] + s = n /\ j \in 1 .. Q + 1 /\ j <= Q
    BY <1>1, <2>1, TypeFacts DEF MuxAt
  <2>3. at[j] \in Int
    BY <1>1, <2>2, BurstPlaces
  <2>4. at[j] + (s + m) = n + m
    BY <2>2, <2>3
  <2>5. at[j] + MuxSent' = Len(muxed') /\ MuxSent' > 0
    BY <1>2, <1>4, <1>8, <2>1, <2>4
  <2> QED BY <1>2, <1>3, <1>7, <2>2, <2>5 DEF MuxAt
<1>10. PICK next : next = [k \in 1 .. Q + 1 |-> pat[k] - t2]
  OBVIOUS
<1>11. PacketsAt(next, j)'
  <2>1. t2 <= Len(packets) /\ packets' = From(packets, t2)
    BY DEF MuxMoves
  <2>pl. PacketsLie(j, MuxPart(2) + t2, next)
    <3>1. MuxPart(2) \in Nat
      BY <1>1, MuxParts
    <3> QED BY <1>1, <1>10, <2>1, <3>1, PacketsTaken
  <2>2. /\ Places("packet", queue, next) /\ Holds("packet", packets', queue, next)
        /\ next[j] = 0 - (MuxPart(2) + t2)
        /\ Len(packets') = next[Q + 1] - Coming
    BY <2>pl DEF PacketsLie
  <2> QED BY <1>2, <1>3, <1>7, <2>2 DEF PacketsAt
<1>12. RowsAt(j)'
  <2>1. RowsTaken(j, MuxPart(1) + t1, MuxPart(3) + t3, MuxPart(4) + t4)
    BY <1>1, RowsAfter
  <2> QED BY <1>2, <1>7, <2>1 DEF RowsTaken, RowsAt
<1> QED BY <1>4, <1>5, <1>6, <1>9, <1>11, <1>12 DEF BurstInv, InPlace

(* The next burst has the next identity. *)
LEMMA IdFollows ==
  ASSUME Types, Chain, NEW j \in 1 .. Q
  PROVE  IdAt(j + 1) = NextId(IdAt(j)) /\ IdAt(j) \in Ids
<1>1. Q \in Nat /\ j \in Nat /\ j \in 1 .. Q + 1 /\ IdAt(j) = queue[j].id
  BY TypeFacts DEF IdAt
<1>2. CASE j = Q
  <2>1. queue[j] = packet /\ ~(j + 1 <= Q)
    BY <1>1, <1>2 DEF Chain
  <2> QED BY <1>1, <2>1, IdIs DEF IdAt
<1>3. CASE j # Q
  <2>1. j \in 1 .. Q - 1 /\ j + 1 <= Q
    BY <1>1, <1>3
  <2>2. queue[j + 1].id = NextId(queue[j].id)
    BY <2>1 DEF Chain
  <2> QED BY <1>1, <2>1, <2>2, IdIs DEF IdAt
<1> QED BY <1>2, <1>3

(* The multiplexer is done with the burst. *)
LEMMA MuxEndsKeeps ==
  ASSUME Types, Chain, ShaperInBurst, NEW at, NEW pat, NEW j \in 1 .. Q,
         InPlace(at, pat, j),
         NEW t1 \in Nat, NEW t2 \in Nat, NEW t3 \in Nat, NEW t4 \in Nat,
         MuxMoves(j, t1, t2, t3, t4), MuxLeaves, MuxEnds(j, t1, t2, t3, t4)
  PROVE  BurstInv'
<1>1. /\ BurstsAt(at) /\ HistoryAt(at) /\ MuxAt(at, j) /\ PacketsAt(pat, j) /\ RowsAt(j)
  BY DEF InPlace
<1>2. /\ mux_packet_lens' = <<>>
      /\ MuxPart(1) + t1 = SyncwordSize /\ MuxPart(2) + t2 = queue[j].len
      /\ MuxPart(3) + t3 = RampDownSize /\ MuxPart(4) + t4 = FlushSize
  BY DEF MuxEnds
<1>3. UNCHANGED <<sync_position, sync_id, packet, place, ramp_count, ramp_id, flush_count,
                  history, filtered, scaled, shaper_remaining, shaper_packet_len,
                  shaper_failed, queue>>
  BY DEF MuxLeaves, shaper_vars
<1>4. PICK s, b, m \in Nat :
        s = MuxSent /\ b = BurstSize(queue[j]) /\ m = (t1 + t2) + (t3 + t4) /\ s + m = b
  <2>1. PICK c1, c2, c3, c4 \in Nat :
          c1 = MuxPart(1) /\ c2 = MuxPart(2) /\ c3 = MuxPart(3) /\ c4 = MuxPart(4)
    BY <1>1, MuxParts
  <2>2. MuxSent = c1 + c2 + c3 + c4
    BY <2>1 DEF MuxSent
  <2>3. BurstSize(queue[j]) = (c1 + t1) + (c2 + t2) + (c3 + t3) + (c4 + t4)
    BY <1>2, <2>1 DEF BurstSize
  <2> DEFINE s0 == c1 + c2 + c3 + c4
             m0 == (t1 + t2) + (t3 + t4)
             b0 == (c1 + t1) + (c2 + t2) + (c3 + t3) + (c4 + t4)
  <2>4. s0 \in Nat /\ m0 \in Nat /\ b0 \in Nat /\ s0 + m0 = b0
    OBVIOUS
  <2> QED BY <2>2, <2>3, <2>4
<1>5. (t1 + t2) + (t3 + t4) <= BurstSize(queue[j]) - MuxSent
  BY <1>4
<1>6. BurstsAt(at)' /\ Len(muxed') = Len(muxed) + m
  BY <1>1, <1>4, <1>5, MuxedGrows
<1>7. HistoryAt(at)' /\ Chain' /\ ShaperInBurst'
  BY <1>1, <1>3, HistoryStays, ChainStays, ShaperStays
<1>8. Types'
  BY <1>1, <1>5, MuxTypes
<1>9. Q' = Q /\ Coming' = Coming /\ IdAt(j + 1)' = IdAt(j + 1)
  BY <1>3, IdStays DEF Q, Coming
<1>10. /\ MuxPart(1)' = 0 /\ MuxPart(2)' = 0 /\ MuxPart(3)' = 0 /\ MuxPart(4)' = 0
       /\ MuxSent' = 0
  BY <1>2 DEF MuxPart, MuxSent
<1>11. Q \in Nat /\ j \in 1 .. Q + 1 /\ j + 1 \in 1 .. Q + 1
  <2>1. PICK q \in Nat : q = Q
    BY TypeFacts
  <2>2. j \in 1 .. q
    BY <2>1
  <2>3. j \in 1 .. q + 1 /\ j + 1 \in 1 .. q + 1
    BY <2>2
  <2> QED BY <2>1, <2>3
<1>12. MuxAt(at, j + 1)'
  <2>1. at[j] \in Int /\ at[j + 1] = at[j] + BurstSize(queue[j])
    BY <1>1, <1>11, BurstPlaces
  <2>2. PICK x \in Int, n \in Nat : x = at[j] /\ n = Len(muxed)
    BY <2>1, TypeFacts
  <2>3. x + s = n
    BY <1>1, <1>4, <2>2 DEF MuxAt
  <2>4. (x + b) + 0 = n + m
    BY <1>4, <2>3
  <2>5. at[j + 1] + MuxSent' = Len(muxed')
    BY <1>4, <1>6, <1>10, <2>1, <2>2, <2>4
  <2> QED BY <1>2, <1>9, <1>11, <2>5 DEF MuxAt
<1>13. PICK next : next = [k \in 1 .. Q + 1 |-> pat[k] - t2]
  OBVIOUS
<1>14. PacketsAt(next, j + 1)'
  <2>1. t2 <= Len(packets) /\ packets' = From(packets, t2)
    BY DEF MuxMoves
  <2>pl. PacketsLie(j, MuxPart(2) + t2, next)
    <3>1. MuxPart(2) \in Nat
      BY <1>1, MuxParts
    <3> QED BY <1>1, <1>13, <2>1, <3>1, PacketsTaken
  <2>2. /\ Places("packet", queue, next) /\ Holds("packet", packets', queue, next)
        /\ next[j] = 0 - (MuxPart(2) + t2)
        /\ Len(packets') = next[Q + 1] - Coming
    BY <2>pl DEF PacketsLie
  <2>3. queue[j] \in Packets /\ j \in 1 .. Len(queue)
    BY TypeFacts DEF Q
  <2>4. next[j + 1] = next[j] + queue[j].len
    BY <2>2, <2>3 DEF Places, Span
  <2>5. PICK l \in Nat : l = queue[j].len
    BY <2>3, PacketSizes
  <2>6. next[j + 1] = 0
    BY <1>2, <2>2, <2>4, <2>5
  <2> QED BY <1>3, <1>9, <1>10, <2>2, <2>6 DEF PacketsAt
<1>15. RowsAt(j + 1)'
  <2>1. /\ RowsTaken(j, SyncwordSize, RampDownSize, FlushSize)
        /\ syncword' \in Seq(SymbolType) /\ ramp_down' \in Seq(SymbolType)
        /\ flush' \in Seq(SymbolType)
    BY <1>1, <1>2, RowsAfter
  <2>2. PICK id : id = IdAt(j)
    OBVIOUS
  <2>3. id \in Ids /\ IdAt(j + 1) = NextId(id)
    BY <2>2, IdFollows
  <2>4. /\ RowAt(syncword', "syncword", SyncwordSize, id, SyncwordSize, sync_id', sync_position')
        /\ RowAt(ramp_down', "ramp_down", RampDownSize, id, RampDownSize, ramp_id', ramp_count')
        /\ ZerosAt(flush', FlushSize, flush_count')
    BY <2>1, <2>2 DEF RowsTaken
  <2>5. RowAt(syncword', "syncword", SyncwordSize, NextId(id), 0, sync_id', sync_position')
    BY <2>1, <2>3, <2>4, Sizes, RowTurn
  <2>6. RowAt(ramp_down', "ramp_down", RampDownSize, NextId(id), 0, ramp_id', ramp_count')
    BY <2>1, <2>3, <2>4, Sizes, RowTurn
  <2>7. ZerosAt(flush', 0, flush_count')
    BY <2>1, <2>4, ZerosTurn
  <2> QED BY <1>9, <1>10, <2>3, <2>5, <2>6, <2>7 DEF RowsAt
<1> QED BY <1>6, <1>7, <1>8, <1>12, <1>14, <1>15 DEF BurstInv, InPlace

(* Nothing happens but at the output. *)
LEMMA WaitKeeps ==
  ASSUME BurstInv,
         UNCHANGED <<sync_vars, packet_vars, ramp_vars, flush_vars, mux_vars, muxed,
                     history, filtered, scaled, shaper_vars, queue>>
  PROVE  BurstInv'
<1>1. UNCHANGED <<sync_position, syncword, sync_id, packet, place, packets,
                  ramp_count, ramp_down, ramp_id, flush_count, flush,
                  mux_packet_lens, mux_current_input, mux_remaining, mux_failed,
                  muxed, history, filtered, scaled,
                  shaper_remaining, shaper_packet_len, shaper_failed, queue>>
  BY DEF sync_vars, packet_vars, ramp_vars, flush_vars, mux_vars, shaper_vars
<1>2. TypeOK'
  BY <1>1 DEF BurstInv, Types, NoBlockFails, TypeOK
<1>3. \A j \in 1 .. Q + 1 : RowsAt(j) => RowsAt(j)'
  BY <1>1, RowsStay
<1> QED BY <1>1, <1>2, <1>3, SourceKeeps

(* The multiplexer keeps the invariant. *)
LEMMA MuxKeeps ==
  ASSUME BurstInv, NEW space \in 1 .. MuxedCapacity, Mux(space)
  PROVE  BurstInv' /\ UNCHANGED <<queue, out, shaper_vars>>
<1>1. PICK at, pat, j : InPlace(at, pat, j) /\ Types /\ Chain /\ ShaperInBurst
  BY DEF BurstInv
<1>2. /\ BurstsAt(at) /\ HistoryAt(at) /\ MuxAt(at, j) /\ PacketsAt(pat, j) /\ RowsAt(j)
  BY <1>1 DEF InPlace
<1>3. /\ UNCHANGED mux_failed
      /\ UNCHANGED <<sync_position, sync_id, packet, place, ramp_count, ramp_id,
                     flush_count, history, filtered, scaled, shaper_vars, queue, out>>
      /\ \/ UNCHANGED <<syncword, packets, ramp_down, flush, muxed, mux_vars>>
         \/ /\ j \in 1 .. Q
            /\ \E t1, t2, t3, t4 \in Nat :
                 /\ MuxMoves(j, t1, t2, t3, t4)
                 /\ MuxEnds(j, t1, t2, t3, t4) \/ MuxGoesOn(j, t1, t2, t3, t4)
  BY <1>1, <1>2, MuxEffect
<1>4. MuxLeaves
  BY <1>3 DEF MuxLeaves
<1>5. CASE UNCHANGED <<syncword, packets, ramp_down, flush, muxed, mux_vars>>
  <2>1. UNCHANGED <<sync_vars, packet_vars, ramp_vars, flush_vars, mux_vars, muxed,
                    history, filtered, scaled, shaper_vars, queue>>
    BY <1>3, <1>5 DEF sync_vars, packet_vars, ramp_vars, flush_vars
  <2> QED BY <1>3, <2>1, WaitKeeps
<1>6. ASSUME j \in 1 .. Q, NEW t1 \in Nat, NEW t2 \in Nat, NEW t3 \in Nat, NEW t4 \in Nat,
             MuxMoves(j, t1, t2, t3, t4), MuxGoesOn(j, t1, t2, t3, t4)
      PROVE  BurstInv'
  BY <1>1, <1>4, <1>6, MuxGoesOnKeeps
<1>7. ASSUME j \in 1 .. Q, NEW t1 \in Nat, NEW t2 \in Nat, NEW t3 \in Nat, NEW t4 \in Nat,
             MuxMoves(j, t1, t2, t3, t4), MuxEnds(j, t1, t2, t3, t4)
      PROVE  BurstInv'
  BY <1>1, <1>4, <1>7, MuxEndsKeeps
<1> QED BY <1>3, <1>5, <1>6, <1>7

-----------------------------------------------------------------------------
(* The filter.                                                             *)

(* Multiples. *)
LEMMA Multiples ==
  ASSUME NEW a \in Nat, NEW b \in Nat, NEW s \in Nat
  PROVE  /\ a * s \in Nat
         /\ a <= b => a * s <= b * s
         /\ s > 0 /\ a < b => a * s + s <= b * s
<1>1. a * s \in Nat /\ b * s \in Nat
  OBVIOUS
<1>2. ASSUME a <= b PROVE a * s <= b * s
  <2>1. PICK d \in Nat : d = b - a
    BY <1>2
  <2>2. b = a + d /\ d * s \in Nat /\ d * s >= 0
    BY <2>1
  <2>3. b * s = a * s + d * s
    BY <2>2
  <2> QED BY <1>1, <2>2, <2>3
<1>3. ASSUME s > 0, a < b PROVE a * s + s <= b * s
  <2>1. PICK d \in Nat : d = b - (a + 1)
    BY <1>3
  <2>2. b = (a + 1) + d /\ d * s \in Nat /\ d * s >= 0
    BY <2>1
  <2>3. b * s = (a + 1) * s + d * s
    BY <2>2
  <2>4. (a + 1) * s = a * s + s
    OBVIOUS
  <2> QED BY <1>1, <2>2, <2>3, <2>4
<1> QED BY <1>1, <1>2, <1>3

(* How many multiples of the interpolation, from r on, are places of taps. *)
LEMMA TapsOfBranch ==
  ASSUME NEW I \in Nat, I > 0, NEW T \in Nat, T > 0, NEW r \in 0 .. I - 1,
         NEW i \in Nat, i > 0
  PROVE  /\ ((T - r) + I) - 1 \in Nat
         /\ i <= (((T - r) + I) - 1) \div I <=> ((i - 1) * I) + r <= T - 1
<1>1. PICK a \in Nat : a = ((T - r) + I) - 1
  <2>1. ((T - r) + I) - 1 \in Nat
    OBVIOUS
  <2> QED BY <2>1
<1>2. PICK q, m \in Nat : q = a \div I /\ a = q * I + m /\ m < I
  <2>1. /\ a \div I \in Nat /\ a % I \in Nat /\ a % I < I
        /\ a = ((a \div I) * I) + (a % I)
    BY DivisionOf
  <2> QED BY <2>1
<1>3. PICK x, y, z \in Nat : x = i * I /\ y = (i - 1) * I /\ z = q * I /\ x = y + I
  <2>1. i - 1 \in Nat
    OBVIOUS
  <2>2. i * I \in Nat /\ (i - 1) * I \in Nat /\ q * I \in Nat
    BY <2>1, Multiples
  <2>3. i * I = (i - 1) * I + I
    OBVIOUS
  <2> QED BY <2>2, <2>3
<1>4. (i <= q) <=> (x <= a)
  <2>1. CASE i <= q
    <3>1. x <= z
      BY <1>3, <2>1, Multiples
    <3> QED BY <1>2, <1>3, <2>1, <3>1
  <2>2. CASE ~(i <= q)
    <3>1. z + I <= x
      <4>1. q < i
        BY <2>2
      <4> QED BY <1>3, <4>1, Multiples
    <3>2. ~(x <= a)
      BY <1>2, <1>3, <3>1
    <3> QED BY <2>2, <3>2
  <2> QED BY <2>1, <2>2
<1>5. (x <= a) <=> (y + r <= T - 1)
  BY <1>1, <1>3
<1> QED BY <1>1, <1>2, <1>3, <1>4, <1>5

(* The symbols of a burst: then come zeros, which the filter does not see. *)
LEMMA BurstSymbols ==
  ASSUME NEW p \in Packets
  PROVE  /\ DOMAIN Transmission!Symbols(p) = 1 .. SyncwordSize + p.len + RampDownSize
         /\ Len(Transmission!Symbols(p)) = SyncwordSize + p.len + RampDownSize
         /\ \A k \in 1 .. SyncwordSize + p.len + RampDownSize :
              Transmission!Symbols(p)[k] = SymbolOf(p, k) /\ SymbolOf(p, k) # Zero
         /\ \A k \in Nat : k > SyncwordSize + p.len + RampDownSize => SymbolOf(p, k) = Zero
<1>1. PICK s, l, r \in Nat : s = SyncwordSize /\ l = p.len /\ r = RampDownSize
  BY PacketSizes, Sizes
<1>2. p.id \in Nat /\ p.id > 0
  BY PacketSizes
<1>z. \A x, y : <<p.id, x, y>> # Zero
  <2>1. SUFFICES ASSUME NEW x, NEW y, <<p.id, x, y>> = <<0, "flush", 0>> PROVE FALSE
    BY DEF Zero
  <2>2. p.id = 0
    BY <2>1
  <2> QED BY <1>2, <2>2
<1>3. PICK S : S = {"syncword", "packet", "ramp_down"}
  OBVIOUS
<1>4. PICK E : E = {p.id} \X S \X Nat
  OBVIOUS
<1>5. PICK a, b, c : /\ a = [k \in 1 .. s |-> <<p.id, "syncword", k>>]
                     /\ b = [k \in 1 .. l |-> <<p.id, "packet", k>>]
                     /\ c = [k \in 1 .. r |-> <<p.id, "ramp_down", k>>]
  OBVIOUS
<1>6. /\ a \in [1 .. s -> E] /\ b \in [1 .. l -> E] /\ c \in [1 .. r -> E]
  BY <1>3, <1>4, <1>5
<1>7. /\ a \in Seq(E) /\ Len(a) = s /\ b \in Seq(E) /\ Len(b) = l /\ c \in Seq(E) /\ Len(c) = r
  BY <1>6, FunctionIsSeq
<1>8. /\ a \o b \in Seq(E) /\ Len(a \o b) = s + l
      /\ \A i \in 1 .. s : (a \o b)[i] = a[i]
      /\ \A i \in 1 .. l : (a \o b)[s + i] = b[i]
  <2>1. Joined(E, a, b, a \o b)
    BY <1>7, JoinedIs
  <2> QED BY <1>7, <2>1 DEF Joined
<1>9. PICK ab \in Seq(E) : ab = a \o b /\ Len(ab) = s + l
  BY <1>8
<1>10. /\ ab \o c \in Seq(E) /\ Len(ab \o c) = (s + l) + r
       /\ \A i \in 1 .. s + l : (ab \o c)[i] = ab[i]
       /\ \A i \in 1 .. r : (ab \o c)[(s + l) + i] = c[i]
  <2>1. PICK sl \in Nat : sl = s + l
    OBVIOUS
  <2>2. Joined(E, ab, c, ab \o c)
    BY <1>7, <1>9, <2>1, JoinedIs
  <2> QED BY <1>7, <1>9, <2>1, <2>2 DEF Joined
<1>11. PICK all \in Seq(E) : all = Transmission!Symbols(p) /\ all = ab \o c
  <2>1. Transmission!Symbols(p) = a \o b \o c
    BY <1>1, <1>5 DEF Transmission!Symbols
  <2> QED BY <1>9, <1>10, <2>1
<1>12. Len(all) = (s + l) + r /\ DOMAIN all = 1 .. (s + l) + r
  BY <1>10, <1>11, LenProperties
<1>13. ASSUME NEW k \in 1 .. (s + l) + r
       PROVE  all[k] = SymbolOf(p, k) /\ SymbolOf(p, k) # Zero
  <2>1. CASE k <= s
    <3>1. k \in 1 .. s /\ k \in 1 .. s + l
      BY <2>1
    <3>2. all[k] = <<p.id, "syncword", k>>
      BY <1>5, <1>8, <1>9, <1>10, <1>11, <3>1
    <3>3. SymbolOf(p, k) = <<p.id, "syncword", k>>
      BY <1>1, <2>1 DEF SymbolOf
    <3> QED BY <1>2, <3>2, <3>3 DEF Zero
  <2>2. CASE s < k /\ k <= s + l
    <3>1. PICK i \in 1 .. l : k = s + i /\ i = k - s
      <4>1. k - s \in 1 .. l /\ k = s + (k - s)
        BY <2>2
      <4> QED BY <4>1
    <3>2. k \in 1 .. s + l
      BY <2>2
    <3>3. all[k] = <<p.id, "packet", i>>
      BY <1>5, <1>8, <1>9, <1>10, <1>11, <3>1, <3>2
    <3>4. SymbolOf(p, k) = <<p.id, "packet", k - s>>
      BY <1>1, <2>2 DEF SymbolOf
    <3>5. all[k] = SymbolOf(p, k)
      BY <3>1, <3>3, <3>4
    <3> QED BY <1>z, <3>3, <3>5
  <2>3. CASE s + l < k
    <3>1. PICK i \in 1 .. r : k = (s + l) + i /\ i = (k - s) - l
      <4>1. (k - s) - l \in 1 .. r /\ k = (s + l) + ((k - s) - l)
        BY <2>3
      <4> QED BY <4>1
    <3>3. all[k] = <<p.id, "ramp_down", i>>
      BY <1>5, <1>10, <1>11, <3>1
    <3>4. SymbolOf(p, k) = <<p.id, "ramp_down", (k - s) - l>>
      BY <1>1, <2>3 DEF SymbolOf
    <3>5. all[k] = SymbolOf(p, k)
      BY <3>1, <3>3, <3>4
    <3> QED BY <1>z, <3>3, <3>5
  <2> QED BY <2>1, <2>2, <2>3
<1>14. ASSUME NEW k \in Nat, k > (s + l) + r
       PROVE  SymbolOf(p, k) = Zero
  BY <1>1, <1>14 DEF SymbolOf
<1> QED BY <1>1, <1>11, <1>12, <1>13, <1>14

(* The items that the filter sees when y items of a burst have come. *)
Sees(recent, p, y) ==
  \A i \in 1 .. FIR!Depth : recent[i] = IF i <= y THEN SymbolOf(p, y - i + 1) ELSE Zero

(* The symbols that the filter sees: as many as there are multiples of the *)
(* interpolation among the taps, and no more than a flush and one.         *)
LEMMA DepthIs ==
  /\ FIR!Depth \in Nat /\ FIR!Depth - 1 <= FlushSize
  /\ \A i \in Nat : i > 0 =>
       (i <= FIR!Depth <=> (i - 1) * Interpolation <= NumTaps - 1)
<1>1. PICK I, T \in Nat : I = Interpolation /\ T = NumTaps /\ I > 0 /\ T > 0
  BY Sizes
<1>2. PICK a \in Nat : a = (T + I) - 1
  BY <1>1
<1>3. FIR!Depth = a \div I /\ a \div I \in Nat
  BY <1>1, <1>2, DivisionOf DEF FIR!Depth
<1>4. FIR!Depth <= FlushSize + 1
  BY <1>1, <1>2, <1>3, BurstAssumption
<1>5. ASSUME NEW i \in Nat, i > 0
      PROVE  i <= a \div I <=> (i - 1) * I <= T - 1
  <2>1. i <= (((T - 0) + I) - 1) \div I <=> ((i - 1) * I) + 0 <= T - 1
    <3>1. 0 \in 0 .. I - 1
      BY <1>1
    <3> QED BY <1>1, <1>5, <3>1, TapsOfBranch
  <2>2. ((T - 0) + I) - 1 = a
    BY <1>2
  <2>3. PICK b \in Nat : b = (i - 1) * I
    BY <1>5, Multiples
  <2> QED BY <2>1, <2>2, <2>3
<1> QED BY <1>1, <1>3, <1>4, <1>5, Sizes

(* What it computes is the sum of the burst. *)
LEMMA SumIs ==
  ASSUME NEW p \in Packets, NEW y \in Nat, y > 0, NEW r \in 0 .. Interpolation - 1,
         NEW recent, Sees(recent, p, y), NEW m, m = ((y - 1) * Interpolation) + r + 1
  PROVE  FIR!InnerProduct(FIR!Branch(r), recent) = Transmission!Sum(p, m)
<1>1. PICK I, T \in Nat : I = Interpolation /\ T = NumTaps /\ I > 0 /\ T > 0
  BY Sizes
<1>2. PICK N \in Nat : N = SyncwordSize + p.len + RampDownSize
  BY PacketSizes, Sizes
<1>3. PICK syms : syms = Transmission!Symbols(p)
  OBVIOUS
<1>4. /\ DOMAIN syms = 1 .. N
      /\ \A k \in 1 .. N : syms[k] = SymbolOf(p, k) /\ SymbolOf(p, k) # Zero
      /\ \A k \in Nat : k > N => SymbolOf(p, k) = Zero
  BY <1>2, <1>3, BurstSymbols
<1>5. PICK branch : branch = FIR!Branch(r)
  OBVIOUS
<1>6. PICK D \in Nat : D = (((T - r) + I) - 1) \div I
  <2>1. ((T - r) + I) - 1 \in Nat
    BY <1>1
  <2> QED BY <1>1, <2>1, DivisionOf
<1>7. /\ DOMAIN branch = 1 .. D
      /\ \A i \in 1 .. D : branch[i] = r + (i - 1) * I
  <2>1. branch = [i \in 1 .. D |-> r + (i - 1) * I]
    BY <1>1, <1>5, <1>6 DEF FIR!Branch
  <2> QED BY <2>1
<1>8. \A i \in Nat : i > 0 => (i \in 1 .. D <=> ((i - 1) * I) + r <= T - 1)
  <2>1. SUFFICES ASSUME NEW i \in Nat, i > 0
                 PROVE  i \in 1 .. D <=> ((i - 1) * I) + r <= T - 1
    OBVIOUS
  <2>2. i <= (((T - r) + I) - 1) \div I <=> ((i - 1) * I) + r <= T - 1
    BY <1>1, <2>1, TapsOfBranch
  <2>3. i <= D <=> ((i - 1) * I) + r <= T - 1
    BY <1>6, <2>2
  <2>4. i \in 1 .. D <=> i <= D
    BY <2>1
  <2> QED BY <2>3, <2>4
<1>9. ASSUME NEW i \in 1 .. D
      PROVE  recent[i] = IF i <= y THEN SymbolOf(p, (y - i) + 1) ELSE Zero
  <2>1. i \in Nat /\ i > 0
    OBVIOUS
  <2>2. PICK b \in Nat : b = (i - 1) * I
    BY <1>1, <2>1, Multiples
  <2>3. b + r <= T - 1
    BY <1>8, <2>1, <2>2
  <2>4. b <= T - 1
    BY <1>1, <2>3
  <2>5. i \in 1 .. FIR!Depth
    BY <1>1, <2>1, <2>2, <2>4, DepthIs
  <2> QED BY <2>5 DEF Sees
<1>10. ASSUME NEW i \in Nat, i > 0, NEW k \in Int, k = (y - i) + 1
       PROVE  (m - 1) - ((k - 1) * I) = ((i - 1) * I) + r
  <2>1. k - 1 = y - i /\ y - 1 \in Int
    BY <1>10
  <2>2. PICK g, h, u \in Int : g = (k - 1) * I /\ h = (i - 1) * I /\ u = (y - 1) * I
    BY <1>1, <1>10
  <2>3. y - 1 = (k - 1) + (i - 1)
    BY <1>10
  <2>4. u = g + h
    <3>1. ((k - 1) + (i - 1)) * I = ((k - 1) * I) + ((i - 1) * I)
      BY <1>1, <1>10
    <3> QED BY <2>2, <2>3, <3>1
  <2>5. m = (u + r) + 1
    BY <1>1, <2>2
  <2>6. (m - 1) - g = h + r
    BY <1>1, <2>4, <2>5
  <2> QED BY <2>2, <2>6
<1> DEFINE left == {<<recent[i], branch[i]>> : i \in {i \in DOMAIN branch : recent[i] # Zero}}
           right == {<<syms[k], m - 1 - (k - 1) * I>> :
                       k \in {k \in DOMAIN syms : m - 1 - (k - 1) * I \in 0 .. T - 1}}
<1>11. FIR!InnerProduct(FIR!Branch(r), recent) = left
  BY <1>5 DEF FIR!InnerProduct
<1>12. Transmission!Sum(p, m) = right
  BY <1>1, <1>3 DEF Transmission!Sum
<1>13. ASSUME NEW i \in DOMAIN branch, recent[i] # Zero
       PROVE  <<recent[i], branch[i]>> \in right
  <2>1. i \in 1 .. D /\ i \in Nat /\ i > 0
    BY <1>7
  <2>2. i <= y /\ recent[i] = SymbolOf(p, (y - i) + 1)
    BY <1>9, <1>13, <2>1
  <2>3. PICK k \in Nat : k = (y - i) + 1 /\ k > 0
    BY <2>1, <2>2
  <2>4. k <= N
    BY <1>4, <1>13, <2>2, <2>3
  <2>5. k \in 1 .. N
    BY <2>3, <2>4
  <2>6. PICK h \in Nat : h = (i - 1) * I
    BY <1>1, <2>1, Multiples
  <2>7. h + r <= T - 1
    BY <1>8, <2>1, <2>6
  <2>8. m - 1 - (k - 1) * I = h + r
    BY <1>10, <2>1, <2>3, <2>6
  <2>9. h + r \in 0 .. T - 1
    BY <1>1, <2>6, <2>7
  <2>10. branch[i] = h + r
    <3>1. branch[i] = r + (i - 1) * I
      BY <1>7, <2>1
    <3> QED BY <1>1, <2>6, <3>1
  <2>11. recent[i] = syms[k]
    BY <1>4, <2>2, <2>3, <2>5
  <2>12. <<recent[i], branch[i]>> = <<syms[k], m - 1 - (k - 1) * I>>
    BY <2>8, <2>10, <2>11
  <2>13. k \in {kk \in DOMAIN syms : m - 1 - (kk - 1) * I \in 0 .. T - 1}
    BY <1>4, <2>5, <2>8, <2>9
  <2> QED BY <2>12, <2>13
<1>14. ASSUME NEW k \in DOMAIN syms, m - 1 - (k - 1) * I \in 0 .. T - 1
       PROVE  <<syms[k], m - 1 - (k - 1) * I>> \in left
  <2>1. k \in 1 .. N /\ k \in Nat /\ k > 0
    BY <1>4
  <2>2. PICK u, g \in Nat : u = (y - 1) * I /\ g = (k - 1) * I
    <3>1. y - 1 \in Nat /\ k - 1 \in Nat
      BY <2>1
    <3> QED BY <1>1, <3>1, Multiples
  <2>3. m - 1 = u + r
    <3>1. m = (u + r) + 1
      BY <1>1, <2>2
    <3> QED BY <1>1, <3>1
  <2>4. (u + r) - g >= 0 /\ (u + r) - g <= T - 1
    BY <1>1, <1>14, <2>2, <2>3
  <2>5. k <= y
    <3>1. SUFFICES ASSUME y < k PROVE FALSE
      BY <2>1
    <3>2. y - 1 \in Nat /\ k - 1 \in Nat /\ y - 1 < k - 1
      BY <2>1, <3>1
    <3>3. u + I <= g
      BY <1>1, <2>2, <3>2, Multiples
    <3> QED BY <1>1, <2>2, <2>4, <3>3
  <2>6. PICK i \in Nat : i = (y - k) + 1 /\ i > 0 /\ k = (y - i) + 1 /\ i <= y
    <3>1. (y - k) + 1 \in Nat /\ (y - k) + 1 > 0 /\ k = (y - ((y - k) + 1)) + 1
          /\ (y - k) + 1 <= y
      BY <2>1, <2>5
    <3> QED BY <3>1
  <2>7. PICK h \in Nat : h = (i - 1) * I
    BY <1>1, <2>6, Multiples
  <2>8. m - 1 - (k - 1) * I = h + r
    <3>1. k \in Int
      BY <2>1
    <3>2. (m - 1) - ((k - 1) * I) = ((i - 1) * I) + r
      BY <1>10, <2>6, <3>1
    <3> QED BY <2>7, <3>2
  <2>9. h + r <= T - 1
    BY <1>1, <1>14, <2>8
  <2>10. i \in 1 .. D
    BY <1>8, <2>6, <2>7, <2>9
  <2>11. branch[i] = h + r
    <3>1. branch[i] = r + (i - 1) * I
      BY <1>7, <2>10
    <3> QED BY <1>1, <2>7, <3>1
  <2>12. recent[i] = SymbolOf(p, k) /\ SymbolOf(p, k) # Zero /\ syms[k] = SymbolOf(p, k)
    BY <1>4, <1>9, <2>1, <2>6, <2>10
  <2>13. <<recent[i], branch[i]>> = <<syms[k], m - 1 - (k - 1) * I>>
    BY <2>8, <2>11, <2>12
  <2>14. i \in {ii \in DOMAIN branch : recent[ii] # Zero}
    BY <1>7, <2>10, <2>12
  <2> QED BY <2>13, <2>14
<1>15. left = right
  <2>1. \A e \in left : e \in right
    BY <1>13
  <2>2. \A e \in right : e \in left
    BY <1>14
  <2> QED BY <2>1, <2>2
<1> QED BY <1>11, <1>12, <1>15

(* What it sees when k symbols more of the burst have come. *)
LEMMA SeesMore ==
  ASSUME NEW p, NEW x \in Nat, Remembers(history, p, x), NEW n \in Nat,
         NEW chunk, \A i \in 1 .. n : chunk[i] = SymbolOf(p, x + i),
         NEW k \in 1 .. n
  PROVE  Sees(FIR!Recent(chunk, k), p, x + k)
<1>1. PICK D \in Nat : D = FIR!Depth
  BY DepthIs
<1>2. ASSUME NEW i \in 1 .. D
      PROVE  FIR!Recent(chunk, k)[i]
               = IF i <= x + k THEN SymbolOf(p, ((x + k) - i) + 1) ELSE Zero
  <2>1. FIR!Recent(chunk, k)[i] = IF i <= k THEN chunk[k - i + 1] ELSE history[i - k]
    BY <1>1 DEF FIR!Recent
  <2>2. CASE i <= k
    <3>1. PICK d \in 1 .. n : d = (k - i) + 1
      <4>1. (k - i) + 1 \in 1 .. n
        BY <2>2
      <4> QED BY <4>1
    <3>2. chunk[d] = SymbolOf(p, x + d)
      OBVIOUS
    <3>3. x + d = ((x + k) - i) + 1 /\ i <= x + k
      BY <2>2, <3>1
    <3> QED BY <2>1, <2>2, <3>1, <3>2, <3>3
  <2>3. CASE ~(i <= k)
    <3>1. PICK d \in 1 .. D - 1 : d = i - k
      <4>1. i - k \in 1 .. D - 1
        BY <2>3
      <4> QED BY <4>1
    <3>2. history[d] = IF d <= x THEN SymbolOf(p, (x - d) + 1) ELSE Zero
      BY <1>1, <3>1 DEF Remembers
    <3>3. (d <= x <=> i <= x + k) /\ (x - d) + 1 = ((x + k) - i) + 1
      BY <3>1
    <3> QED BY <2>1, <2>3, <3>1, <3>2, <3>3
  <2> QED BY <2>2, <2>3
<1> QED BY <1>1, <1>2 DEF Sees

(* It remembers what it saw last. *)
LEMMA SeenLast ==
  ASSUME NEW recent, NEW p, NEW y, Sees(recent, p, y)
  PROVE  Remembers(recent, p, y)
<1>1. PICK D \in Nat : D = FIR!Depth
  BY DepthIs
<1>2. \A i \in 1 .. D - 1 : i \in 1 .. D
  OBVIOUS
<1> QED BY <1>1, <1>2 DEF Sees, Remembers

(* After the flush it remembers nothing. *)
LEMMA Forgotten ==
  ASSUME NEW past, NEW p \in Packets, Remembers(past, p, BurstSize(p)), NEW q
  PROVE  Remembers(past, q, 0)
<1>1. PICK D \in Nat : D = FIR!Depth /\ D - 1 <= FlushSize
  BY DepthIs
<1>2. PICK N, f \in Nat : N = SyncwordSize + p.len + RampDownSize /\ f = FlushSize
  BY PacketSizes, Sizes
<1>3. BurstSize(p) = N + f
  BY <1>2 DEF BurstSize
<1>4. ASSUME NEW i \in 1 .. D - 1
      PROVE  past[i] = Zero
  <2>1. past[i] = IF i <= N + f THEN SymbolOf(p, ((N + f) - i) + 1) ELSE Zero
    BY <1>1, <1>3 DEF Remembers
  <2>2. i <= f /\ ((N + f) - i) + 1 \in Nat /\ ((N + f) - i) + 1 > N
    BY <1>1, <1>2
  <2>3. SymbolOf(p, ((N + f) - i) + 1) = Zero
    BY <1>2, <2>2, BurstSymbols
  <2> QED BY <2>1, <2>3
<1>5. \A i \in 1 .. D - 1 : ~(i <= 0)
  OBVIOUS
<1> QED BY <1>1, <1>4, <1>5 DEF Remembers

(* The samples that a call makes of n symbols of a burst, after x of them. *)
FilterMakes(p, x, n) ==
  /\ \E more \in Seq(Pieces("samples")) :
       /\ filtered' = filtered \o more /\ Len(more) = n * Interpolation
       /\ \A m \in 1 .. Len(more) : more[m] = Piece("samples", p, (x * Interpolation) + m)
  /\ Remembers(history', p, x + n)

(* A call of the filter in a burst makes the samples that are promised. *)
LEMMA FilterCalls ==
  ASSUME Types, NEW n \in 1 .. MuxedCapacity, Filter(n), NEW p \in Packets, NEW x \in Nat,
         Remembers(history, p, x),
         \A i \in 1 .. n : muxed[i] = Piece("symbols", p, x + i)
  PROVE  FilterMakes(p, x, n)
<1>1. PICK I \in Nat : I = Interpolation /\ I > 0
  BY Sizes
<1>2. n \in Nat /\ n > 0
  BY Sizes
<1>3. PICK symbols, samples :
        /\ symbols = [i \in 1 .. n |-> muxed[i].of]
        /\ samples = FIR!Filtered(symbols)
        /\ history' = FIR!Recent(symbols, Len(symbols))
        /\ filtered' = filtered \o
             [m \in DOMAIN samples |->
                [sum |-> samples[m], bits |-> IF m = 1 THEN muxed[1].bits ELSE 0]]
  BY DEF Filter, FIR!ProcessBulk
<1>4. Len(symbols) = n /\ \A i \in 1 .. n : symbols[i] = SymbolOf(p, x + i)
  <2>1. symbols \in [1 .. n -> {muxed[i].of : i \in 1 .. n}]
    BY <1>3
  <2>2. Len(symbols) = n
    BY <1>2, <2>1, FunctionIsSeq
  <2>3. ASSUME NEW i \in 1 .. n PROVE symbols[i] = SymbolOf(p, x + i)
    <3>1. muxed[i] = Piece("symbols", p, x + i)
      OBVIOUS
    <3>2. muxed[i].of = SymbolOf(p, x + i)
      BY <3>1 DEF Piece
    <3> QED BY <1>3, <3>2
  <2> QED BY <2>2, <2>3
<1>5. Remembers(history', p, x + n)
  <2>1. n \in 1 .. n
    BY <1>2
  <2>2. Sees(FIR!Recent(symbols, n), p, x + n)
    BY <1>2, <1>4, <2>1, SeesMore
  <2> QED BY <1>3, <1>4, <2>2, SeenLast
<1>6. PICK c \in Nat : c = n * I
  BY <1>1, <1>2, Multiples
<1>7. PICK g \in Nat : g = x * I
  BY <1>1, Multiples
<1>8. DOMAIN samples = 1 .. c
  BY <1>1, <1>3, <1>4, <1>6 DEF FIR!Filtered
<1>9. ASSUME NEW m \in 1 .. c
      PROVE  samples[m] = Transmission!Sum(p, g + m)
  <2>1. PICK d \in Nat : d = m - 1 /\ d < c
    <3>1. m - 1 \in Nat /\ m - 1 < c
      OBVIOUS
    <3> QED BY <3>1
  <2>2. PICK q, r \in Nat : q = d \div I /\ r = d % I /\ r < I /\ d = (q * I) + r
    BY <1>1, DivisionOf
  <2>3. samples[m] = FIR!InnerProduct(FIR!Branch((m - 1) % I),
                                      FIR!Recent(symbols, ((m - 1) \div I) + 1))
    BY <1>1, <1>3, <1>4, <1>6 DEF FIR!Filtered
  <2>4. samples[m] = FIR!InnerProduct(FIR!Branch(r), FIR!Recent(symbols, q + 1))
    BY <2>1, <2>2, <2>3
  <2>5. q < n
    <3>1. SUFFICES ASSUME n <= q PROVE FALSE
      BY <1>2, <2>2
    <3>2. n * I <= q * I /\ q * I \in Nat
      BY <1>1, <1>2, <2>2, <3>1, Multiples
    <3>3. PICK u \in Nat : u = q * I
      BY <3>2
    <3> QED BY <1>6, <2>1, <2>2, <3>2, <3>3
  <2>6. PICK k \in 1 .. n : k = q + 1
    <3>1. q + 1 \in 1 .. n
      BY <1>2, <2>2, <2>5
    <3> QED BY <3>1
  <2>7. Sees(FIR!Recent(symbols, k), p, x + k)
    BY <1>2, <1>4, <2>6, SeesMore
  <2>8. PICK y \in Nat : y = x + k /\ y > 0 /\ y - 1 = x + q
    BY <2>2, <2>6
  <2>9. PICK mm \in Int : mm = ((y - 1) * I) + r + 1
    BY <1>1, <2>2, <2>8
  <2>10. mm = g + m
    <3>1. (x + q) * I = (x * I) + (q * I)
      BY <1>1, <2>2
    <3>2. PICK u \in Nat : u = q * I
      BY <1>1, <2>2, Multiples
    <3>3. mm = (g + u) + r + 1 /\ d = u + r
      BY <1>7, <2>2, <2>8, <2>9, <3>1, <3>2
    <3> QED BY <2>1, <2>2, <3>3
  <2>11. r \in 0 .. Interpolation - 1
    BY <1>1, <2>2
  <2>12. FIR!InnerProduct(FIR!Branch(r), FIR!Recent(symbols, k)) = Transmission!Sum(p, mm)
    <3>1. mm = ((y - 1) * Interpolation) + r + 1
      BY <1>1, <2>9
    <3>2. Sees(FIR!Recent(symbols, k), p, y)
      BY <2>7, <2>8
    <3> QED BY <2>8, <2>11, <3>1, <3>2, SumIs
  <2> QED BY <2>4, <2>6, <2>10, <2>12
<1>10. PICK more : more = [m \in DOMAIN samples |->
                [sum |-> samples[m], bits |-> IF m = 1 THEN muxed[1].bits ELSE 0]]
  OBVIOUS
<1>11. muxed[1].bits = IF x + 1 = 1 THEN BurstSize(p) ELSE 0
  <2>1. 1 \in 1 .. n
    BY <1>2
  <2>2. muxed[1] = Piece("symbols", p, x + 1)
    BY <2>1
  <2> QED BY <2>2 DEF Piece
<1>12. ASSUME NEW m \in 1 .. c
       PROVE  /\ more[m] = Piece("samples", p, g + m)
              /\ more[m] \in Pieces("samples")
  <2>1. more[m] = [sum |-> Transmission!Sum(p, g + m),
                   bits |-> IF m = 1 THEN muxed[1].bits ELSE 0]
    BY <1>8, <1>9, <1>10
  <2>2. (IF m = 1 THEN muxed[1].bits ELSE 0) = (IF g + m = 1 THEN BurstSize(p) ELSE 0)
    <3>1. CASE x = 0
      <4>1. g = 0
        BY <1>1, <1>7, <3>1
      <4>2. muxed[1].bits = BurstSize(p)
        BY <1>11, <3>1
      <4> QED BY <4>1, <4>2
    <3>2. CASE x # 0
      <4>1. g > 0
        <5>1. 0 * I + I <= x * I
          BY <1>1, <3>2, Multiples
        <5> QED BY <1>1, <1>7, <5>1
      <4>2. muxed[1].bits = 0 /\ g + m # 1
        BY <1>11, <3>2, <4>1
      <4> QED BY <4>2
    <3> QED BY <3>1, <3>2
  <2>3. more[m] = Piece("samples", p, g + m)
    BY <2>1, <2>2 DEF Piece
  <2>4. g + m \in Nat
    BY <1>7
  <2> QED BY <2>3, <2>4 DEF Pieces
<1>13. more \in [1 .. c -> Pieces("samples")]
  BY <1>8, <1>10, <1>12
<1>14. more \in Seq(Pieces("samples")) /\ Len(more) = c
  BY <1>13, FunctionIsSeq
<1>15. filtered' = filtered \o more
  BY <1>3, <1>10
<1>16. \A m \in 1 .. Len(more) : more[m] = Piece("samples", p, (x * Interpolation) + m)
  BY <1>1, <1>7, <1>12, <1>14
<1> QED BY <1>1, <1>5, <1>6, <1>14, <1>15, <1>16 DEF FilterMakes

(* The burst in which a call of the filter, or of a block behind it, is.   *)
InOne(form, list, at, link, n) ==
  \E k \in 1 .. Len(list), x \in Nat :
    /\ at[k] = 0 - x /\ x + n <= Span(form, list[k])
    /\ at[k + 1] = Span(form, list[k]) - x
    /\ \A i \in 1 .. n : link[i] = Piece(form, list[k], x + i)

(* A chunk that a block takes lies in one burst, as the next one begins    *)
(* with a tag.                                                             *)
LEMMA InBurst ==
  ASSUME NEW form \in {"symbols", "samples", "scaled"}, NEW list \in Seq(Packets),
         NEW at, Places(form, list, at), NEW S, NEW link \in Seq(S),
         Holds(form, link, list, at), NEW n \in Nat, n > 0, Chunk(link, n),
         Len(link) <= at[Len(list) + 1], at[1] <= 0
  PROVE  InOne(form, list, at, link, n)
<1>1. form \in Forms
  BY DEF Forms
<1>2. /\ Len(list) \in Nat
      /\ \A k \in 1 .. Len(list) + 1 : at[k] \in Int
      /\ \A k \in 1 .. Len(list) :
           /\ list[k] \in Packets
           /\ Span(form, list[k]) \in Nat /\ Span(form, list[k]) > 0
           /\ at[k] \in Int /\ at[k + 1] \in Int
           /\ at[k + 1] = at[k] + Span(form, list[k])
  BY <1>1, PlaceTypes
<1>3. n <= Len(link) /\ Len(link) \in Nat
  BY LenProperties DEF Chunk
<1>4. Len(list) + 1 \in 1 .. Len(list) + 1
  BY <1>2
<1>5. at[Len(list) + 1] \in Int /\ 0 < at[Len(list) + 1]
  BY <1>2, <1>3, <1>4
<1>6. PICK k \in 1 .. Len(list) : at[k] <= 0 /\ 0 < at[k + 1]
  BY <1>1, <1>5, Located
<1>7. n <= at[k + 1]
  BY <1>6, ChunkInOne
<1>8. PICK x, s \in Nat : x = 0 - at[k] /\ s = Span(form, list[k])
  BY <1>2, <1>6
<1>9. at[k] = 0 - x /\ at[k + 1] = s - x /\ x + n <= s
  BY <1>2, <1>6, <1>7, <1>8
<1>10. ASSUME NEW i \in 1 .. n
       PROVE  link[i] = Piece(form, list[k], x + i)
  <2>1. PICK m \in 1 .. s : m = x + i
    <3>1. x + i \in 1 .. s
      BY <1>9
    <3> QED BY <3>1
  <2>2. at[k] + m = i
    BY <1>9, <2>1
  <2>3. i \in 1 .. Len(link)
    BY <1>3
  <2> QED BY <1>8, <2>1, <2>2, <2>3 DEF Holds
<1> QED BY <1>8, <1>9, <1>10 DEF InOne

(* What the filter leaves alone. *)
FilterLeaves ==
  UNCHANGED <<sync_vars, packet_vars, ramp_vars, flush_vars, mux_vars,
              scaled, shaper_vars, queue, out>>

(* The samples of bursts are where they were: those before the filter came *)
(* nearer by as many symbols as the others went away.                      *)
LEMMA SamplesShift ==
  ASSUME Types, NEW at, \A k \in 1 .. Q + 1 : at[k] \in Int, NEW n \in Nat, NEW c \in Nat,
         NEW next, next = [k \in 1 .. Q + 1 |-> at[k] - n]
  PROVE  SampleAt(next, c + n * Interpolation) = SampleAt(at, c)
<1>1. PICK I \in Nat : I = Interpolation
  BY Sizes
<1>2. PICK g \in Nat : g = n * I
  BY <1>1, Multiples
<1>3. ASSUME NEW k \in 1 .. Q + 1
      PROVE  next[k] * I + (c + g) = at[k] * I + c
  <2>1. PICK x \in Int : x = at[k]
    OBVIOUS
  <2>2. next[k] = x - n
    BY <2>1
  <2>3. PICK y, z \in Int : y = x * I /\ z = (x - n) * I
    OBVIOUS
  <2>4. z = y - g
    <3>1. (x - n) * I = (x * I) - (n * I)
      OBVIOUS
    <3> QED BY <1>2, <2>3, <3>1
  <2>5. z + (c + g) = y + c
    BY <2>4
  <2> QED BY <2>1, <2>2, <2>3, <2>5
<1> QED BY <1>1, <1>2, <1>3 DEF SampleAt

(* The bursts after n symbols of burst k were filtered. *)
LEMMA FilteredBursts ==
  ASSUME Types, ShaperInBurst, NEW at, NEW j, BurstsAt(at), MuxAt(at, j),
         NEW n \in 1 .. MuxedCapacity, n <= Len(muxed), NEW k \in 1 .. Q, NEW x \in Nat,
         at[k] = 0 - x, x + n <= BurstSize(queue[k]),
         FilterMakes(queue[k], x, n), muxed' = From(muxed, n), FilterLeaves,
         NEW next, next = [i \in 1 .. Q + 1 |-> at[i] - n]
  PROVE  /\ BurstsAt(next)' /\ MuxAt(next, j)'
         /\ filtered' \in Seq(Pieces("samples"))
         /\ muxed' \in Seq(SymbolType) /\ Len(muxed') <= MuxedCapacity
<1>1. PICK I \in Nat : I = Interpolation /\ I > 0
  BY Sizes
<1>2. n \in Nat /\ n > 0
  BY Sizes
<1>3. /\ muxed \in Seq(SymbolType) /\ Len(muxed) <= MuxedCapacity
      /\ queue \in Seq(Packets) /\ Q = Len(queue) /\ Q \in Nat
      /\ filtered \in Seq(Pieces("samples"))
      /\ "symbols" \in Forms /\ "samples" \in Forms
  BY TypeFacts DEF Types, NoBlockFails, TypeOK, Q, Forms
<1>4. UNCHANGED <<scaled, queue, shaper_remaining, shaper_packet_len, mux_vars>>
  BY DEF FilterLeaves, shaper_vars
<1>5. Sent' = Sent /\ Q' = Q /\ MuxSent' = MuxSent
  BY <1>4, PartsStay DEF Sent, Q
<1>6. /\ Places("symbols", queue, at) /\ Holds("symbols", muxed, queue, at)
      /\ at[1] * Interpolation + (Len(filtered) + Len(scaled)) = 0 - Sent
      /\ Holds("samples", filtered, queue, SampleAt(at, Len(filtered)))
      /\ Holds("scaled", scaled, queue, SampleAt(at, Len(filtered) + Len(scaled)))
  BY DEF BurstsAt
<1>7. \A i \in 1 .. Q + 1 : at[i] \in Int
  BY BurstPlaces
<1>8. PICK f, s, m \in Nat : f = Len(filtered) /\ s = Len(scaled) /\ m = Len(muxed)
  BY TypeFacts
<1>9. PICK g \in Nat : g = n * I
  BY <1>1, <1>2, Multiples
<1>10. PICK more \in Seq(Pieces("samples")) :
         /\ filtered' = filtered \o more /\ Len(more) = g
         /\ \A i \in 1 .. Len(more) : more[i] = Piece("samples", queue[k], (x * I) + i)
  BY <1>1, <1>9 DEF FilterMakes
<1>11. filtered' \in Seq(Pieces("samples")) /\ Len(filtered') = f + g
  BY <1>3, <1>8, <1>10, JoinProperties
<1>12. /\ Places("symbols", queue, next)
       /\ Holds("symbols", From(muxed, n), queue, next)
  BY <1>2, <1>3, <1>6, ItemsLeave
<1>13. /\ SampleAt(next, f + g) = SampleAt(at, f)
       /\ SampleAt(next, (f + g) + s) = SampleAt(at, f + s)
  <2>1. SampleAt(next, f + n * Interpolation) = SampleAt(at, f)
    BY <1>2, <1>7, SamplesShift
  <2>2. SampleAt(next, (f + s) + n * Interpolation) = SampleAt(at, f + s)
    <3>1. PICK c \in Nat : c = f + s
      OBVIOUS
    <3>2. SampleAt(next, c + n * Interpolation) = SampleAt(at, c)
      BY <1>2, <1>7, SamplesShift
    <3> QED BY <3>1, <3>2
  <2>3. (f + s) + g = (f + g) + s
    OBVIOUS
  <2> QED BY <1>1, <1>9, <2>1, <2>2, <2>3
<1>14. Holds("samples", filtered \o more, queue, SampleAt(at, f))
  <2>1. PICK sat : sat = SampleAt(at, f)
    OBVIOUS
  <2>2. sat = [i \in 1 .. Len(queue) + 1 |-> at[i] * Interpolation + f]
    BY <1>3, <2>1 DEF SampleAt
  <2>3. Places("samples", queue, sat)
    <3>1. "samples" \in {"samples", "scaled"} /\ f \in Int
      OBVIOUS
    <3> QED BY <1>3, <1>6, <2>2, <3>1, SamplePlaces
  <2>4. PICK h \in Nat : h = x * I
    BY <1>1, Multiples
  <2>5. sat[k] + h = Len(filtered)
    <3>1. k \in 1 .. Len(queue) + 1
      BY <1>3
    <3>2. sat[k] = ((0 - x) * I) + f
      BY <1>1, <2>2, <3>1
    <3>3. (0 - x) * I = 0 - (x * I)
      BY <1>1
    <3> QED BY <1>8, <2>4, <3>2, <3>3
  <2>6. h + Len(more) <= Span("samples", queue[k])
    <3>1. PICK b \in Nat : b = BurstSize(queue[k])
      BY TypeFacts, PacketSizes
    <3>2. x + n \in Nat /\ x + n <= b
      BY <1>2, <3>1
    <3>3. (x + n) * I <= b * I
      BY <1>1, <3>1, <3>2, Multiples
    <3>4. (x + n) * I = (x * I) + (n * I)
      BY <1>1, <1>2
    <3>5. Span("samples", queue[k]) = b * I
      BY <1>1, <3>1 DEF Span
    <3>6. PICK z \in Nat : z = b * I
      BY <1>1, Multiples
    <3> QED BY <1>9, <1>10, <2>4, <3>3, <3>4, <3>5, <3>6
  <2>7. \A i \in 1 .. Len(more) : more[i] = Piece("samples", queue[k], h + i)
    BY <1>10, <2>4
  <2>8. Holds("samples", filtered, queue, sat) /\ k \in 1 .. Len(queue)
    BY <1>3, <1>6, <1>8, <2>1
  <2> QED BY <1>3, <2>1, <2>3, <2>5, <2>6, <2>7, <2>8, ItemsCome
<1>15. next[1] * Interpolation + ((f + g) + s) = 0 - Sent
  <2>1. 1 \in 1 .. Q + 1
    BY <1>3
  <2>2. PICK y \in Int : y = at[1]
    BY <1>7, <2>1
  <2>3. next[1] = y - n
    BY <2>1, <2>2
  <2>4. (y - n) * I = (y * I) - (n * I)
    BY <1>1, <1>2
  <2>5. PICK z \in Int : z = y * I
    BY <1>1
  <2>6. PICK e \in Nat : e = Sent
    BY BurstPlaces
  <2>7. z + (f + s) = 0 - e
    BY <1>1, <1>6, <1>8, <2>2, <2>5, <2>6
  <2>8. (z - g) + ((f + g) + s) = 0 - e
    BY <2>7
  <2> QED BY <1>1, <1>9, <2>3, <2>4, <2>5, <2>6, <2>8
<1>16. BurstsAt(next)'
  <2>1. /\ SampleAt(next, Len(filtered))' = SampleAt(at, f)
        /\ SampleAt(next, Len(filtered) + Len(scaled))' = SampleAt(at, f + s)
    <3>1. /\ SampleAt(next, Len(filtered))' = SampleAt(next, Len(filtered'))
          /\ SampleAt(next, Len(filtered) + Len(scaled))'
               = SampleAt(next, Len(filtered') + Len(scaled'))
      BY <1>5 DEF SampleAt
    <3> QED BY <1>4, <1>8, <1>11, <1>13, <3>1
  <2>2. (next[1] * Interpolation + (Len(filtered) + Len(scaled)) = 0 - Sent)'
    BY <1>4, <1>5, <1>8, <1>11, <1>15
  <2>3. Places("symbols", queue', next) /\ Holds("symbols", muxed', queue', next)
    BY <1>4, <1>12
  <2>4. /\ Holds("samples", filtered', queue', SampleAt(at, f))
        /\ Holds("scaled", scaled', queue', SampleAt(at, f + s))
    BY <1>4, <1>6, <1>8, <1>10, <1>14
  <2> QED BY <2>1, <2>2, <2>3, <2>4 DEF BurstsAt
<1>17. n \in 0 .. Len(muxed)
  BY <1>2, <1>8
<1>18. muxed' \in Seq(SymbolType) /\ Len(muxed') = m - n
  BY <1>3, <1>8, <1>17, FromProperties
<1>19. MuxAt(next, j)'
  <2>1. j \in 1 .. Q + 1 /\ at[j] + MuxSent = m
    BY <1>8 DEF MuxAt
  <2>2. PICK y \in Int, z \in Nat : y = at[j] /\ z = MuxSent
    BY <1>7, <2>1, MuxParts
  <2>3. next[j] + MuxSent' = Len(muxed')
    <3>0. y + z = m
      BY <2>1, <2>2
    <3>1. (y - n) + z = m - n
      BY <1>2, <3>0
    <3> QED BY <1>5, <1>18, <2>1, <2>2, <3>1
  <2>4. UNCHANGED <<mux_packet_lens, mux_current_input, mux_remaining>>
    BY <1>4 DEF mux_vars
  <2> QED BY <1>4, <1>5, <2>1, <2>3, <2>4 DEF MuxAt
<1>20. Len(muxed') <= MuxedCapacity
  BY <1>2, <1>3, <1>8, <1>18, Sizes
<1> QED BY <1>11, <1>16, <1>18, <1>19, <1>20

(* What the filter remembers then. *)
LEMMA FilteredHistory ==
  ASSUME Types, ShaperInBurst, NEW at, NEW j, BurstsAt(at), MuxAt(at, j),
         NEW n \in Nat, n > 0, NEW k \in 1 .. Q, NEW x \in Nat,
         at[k] = 0 - x, at[k + 1] = BurstSize(queue[k]) - x,
         x + n <= BurstSize(queue[k]), FilterMakes(queue[k], x, n), queue' = queue,
         NEW next, next = [i \in 1 .. Q + 1 |-> at[i] - n]
  PROVE  HistoryAt(next)'
<1>1. Q \in Nat /\ Q' = Q /\ queue[k] \in Packets
  BY TypeFacts DEF Q
<1>2. /\ \A i \in 1 .. Q + 1 : at[i] \in Int
      /\ \A i, l \in 1 .. Q + 1 : i <= l => at[i] <= at[l]
  BY BurstPlaces
<1>3. PICK b \in Nat : b = BurstSize(queue[k])
  BY <1>1, PacketSizes
<1>4. Remembers(history', queue[k], x + n)
  BY DEF FilterMakes
<1>5. /\ k \in 1 .. Q + 1 /\ k + 1 \in 1 .. Q + 1
      /\ next[k] = (0 - x) - n /\ next[k + 1] = (b - x) - n
  <2>1. k \in 1 .. Q + 1 /\ k + 1 \in 1 .. Q + 1
    BY <1>1
  <2> QED BY <1>3, <2>1
<1>6. ASSUME NEW i \in 1 .. Q + 1, next[i] <= 0,
             IF i <= Q THEN next[i + 1] > 0 ELSE next[i] = 0
      PROVE  Remembers(history', queue[i], 0 - next[i])
  <2>1. PICK y \in Int : y = at[i] /\ next[i] = y - n
    BY <1>2
  <2>2. CASE i < k
    <3>1. i + 1 \in 1 .. Q + 1 /\ i + 1 <= k /\ i <= Q
      BY <1>1, <2>2
    <3>2. PICK z \in Int : z = at[i + 1] /\ next[i + 1] = z - n /\ z <= 0 - x
      BY <1>2, <1>5, <3>1
    <3>3. z - n > 0
      BY <1>6, <3>1, <3>2
    <3> QED BY <3>2, <3>3
  <2>3. CASE i = k
    <3>1. 0 - next[i] = x + n
      BY <1>5, <2>3
    <3> QED BY <1>4, <2>3, <3>1
  <2>4. CASE i > k
    <3>1. k + 1 <= i
      BY <1>1, <2>4
    <3>2. at[k + 1] <= at[i]
      BY <1>2, <1>5, <3>1
    <3>3. b - x <= y
      BY <1>3, <2>1, <3>2
    <3>4. y - n <= 0 /\ x + n <= b
      BY <1>3, <1>6, <2>1
    <3>5. x + n = b /\ 0 - next[i] = 0
      BY <2>1, <3>3, <3>4
    <3>6. Remembers(history', queue[k], BurstSize(queue[k]))
      BY <1>3, <1>4, <3>5
    <3>7. Remembers(history', queue[i], 0)
      BY <1>1, <3>6, Forgotten
    <3> QED BY <3>5, <3>7
  <2> QED BY <1>1, <2>2, <2>3, <2>4
<1>7. ASSUME NEW i \in 1 .. Q' + 1, Filtering(next, i)'
      PROVE  Remembers(history', queue'[i], 0 - next[i])
  <2>1. i \in 1 .. Q + 1
    BY <1>1
  <2>2. next[i] <= 0 /\ (IF i <= Q THEN next[i + 1] > 0 ELSE next[i] = 0)
    BY <1>1, <1>7 DEF Filtering
  <2>3. Remembers(history', queue[i], 0 - next[i])
    BY <1>6, <2>1, <2>2
  <2> QED BY <2>3
<1>8. \A past, p, y : Remembers(past, p, y)' <=> Remembers(past', p, y)
  BY DEF Remembers, FIR!Depth, SymbolOf, Zero
<1> QED BY <1>7, <1>8 DEF HistoryAt, Remembers

(* The filter keeps the invariant. *)
LEMMA FilterKeeps ==
  ASSUME BurstInv, NEW n \in 1 .. MuxedCapacity, Filter(n)
  PROVE  BurstInv' /\ UNCHANGED <<queue, out, shaper_vars>>
<1>1. PICK at, pat, j : InPlace(at, pat, j) /\ Types /\ Chain /\ ShaperInBurst
  BY DEF BurstInv
<1>2. /\ BurstsAt(at) /\ HistoryAt(at) /\ MuxAt(at, j) /\ PacketsAt(pat, j) /\ RowsAt(j)
  BY <1>1 DEF InPlace
<1>3. n \in Nat /\ n > 0
  BY Sizes
<1>4. /\ Chunk(muxed, n) /\ muxed' = From(muxed, n) /\ FilterLeaves
      /\ Len(filtered) + n * Interpolation <= FilteredCapacity
  BY DEF Filter, FilterLeaves
<1>5. /\ muxed \in Seq(SymbolType) /\ queue \in Seq(Packets) /\ Q = Len(queue) /\ Q \in Nat
      /\ Places("symbols", queue, at) /\ Holds("symbols", muxed, queue, at)
  BY <1>1, <1>2, TypeFacts DEF Types, NoBlockFails, TypeOK, Q, BurstsAt
<1>6. Len(muxed) <= at[Q + 1] /\ at[1] <= 0
  BY <1>1, <1>2, BurstPlaces
<1>7. PICK k \in 1 .. Len(queue), x \in Nat :
        /\ at[k] = 0 - x /\ x + n <= Span("symbols", queue[k])
        /\ at[k + 1] = Span("symbols", queue[k]) - x
        /\ \A i \in 1 .. n : muxed[i] = Piece("symbols", queue[k], x + i)
  <2>1. Len(muxed) <= at[Len(queue) + 1]
    BY <1>5, <1>6
  <2>2. "symbols" \in {"symbols", "samples", "scaled"}
    OBVIOUS
  <2>3. InOne("symbols", queue, at, muxed, n)
    BY <1>3, <1>4, <1>5, <1>6, <2>1, <2>2, InBurst
  <2> QED BY <2>3 DEF InOne
<1>8. PICK b \in Nat : b = BurstSize(queue[k]) /\ b = Span("symbols", queue[k])
  <2>1. queue[k] \in Packets
    BY <1>1, <1>5, TypeFacts
  <2> QED BY <2>1, PacketSizes DEF Span
<1>9. k \in 1 .. Q /\ queue[k] \in Packets /\ at[k + 1] = b - x /\ x + n <= b
  BY <1>1, <1>5, <1>7, <1>8, TypeFacts
<1>10. Remembers(history, queue[k], x)
  <2>1. k \in 1 .. Q + 1 /\ 0 - at[k] = x
    BY <1>5, <1>7, <1>9
  <2>2. Filtering(at, k)
    <3>1. at[k] <= 0 /\ at[k + 1] > 0
      BY <1>3, <1>7, <1>9
    <3> QED BY <1>9, <3>1 DEF Filtering
  <2> QED BY <1>2, <2>1, <2>2 DEF HistoryAt
<1>11. FilterMakes(queue[k], x, n)
  BY <1>1, <1>7, <1>9, <1>10, FilterCalls
<1>12. PICK next : next = [i \in 1 .. Q + 1 |-> at[i] - n]
  OBVIOUS
<1>13. n <= Len(muxed)
  BY <1>4 DEF Chunk
<1>14. /\ BurstsAt(next)' /\ MuxAt(next, j)'
       /\ filtered' \in Seq(Pieces("samples"))
       /\ muxed' \in Seq(SymbolType) /\ Len(muxed') <= MuxedCapacity
  BY <1>1, <1>2, <1>4, <1>7, <1>8, <1>9, <1>11, <1>12, <1>13, FilteredBursts
<1>15. HistoryAt(next)'
  <2>1. queue' = queue
    BY <1>4 DEF FilterLeaves
  <2> QED BY <1>1, <1>2, <1>3, <1>7, <1>8, <1>9, <1>11, <1>12, <2>1, FilteredHistory
<1>16. UNCHANGED <<packet, place, packets, syncword, sync_id, sync_position,
                   ramp_down, ramp_id, ramp_count, flush, flush_count, mux_vars, mux_failed,
                   scaled, shaper_remaining, shaper_packet_len, shaper_failed, queue, out>>
  BY <1>4 DEF FilterLeaves, sync_vars, packet_vars, ramp_vars, flush_vars, mux_vars, shaper_vars
<1>17. PacketsAt(pat, j)' /\ RowsAt(j)' /\ Chain' /\ ShaperInBurst'
  <2>1. UNCHANGED <<mux_vars, packet_vars, sync_vars, ramp_vars, flush_vars>>
    BY <1>4 DEF FilterLeaves
  <2> QED BY <1>1, <1>2, <1>16, <2>1, PacketsStay, RowsStay, ChainStays, ShaperStays
<1>18. Types'
  <2>1. TypeOK
    BY <1>1 DEF Types, NoBlockFails
  <2>2. Len(filtered') <= FilteredCapacity
    <3>1. PICK more \in Seq(Pieces("samples")) :
            filtered' = filtered \o more /\ Len(more) = n * Interpolation
      BY <1>11 DEF FilterMakes
    <3>2. filtered \in Seq(Pieces("samples"))
      BY <1>1 DEF Types
    <3>3. Len(filtered') = Len(filtered) + n * Interpolation
      BY <3>1, <3>2, JoinProperties
    <3> QED BY <1>4, <3>3
  <2>3. TypeOK'
    BY <1>14, <1>16, <2>1, <2>2 DEF TypeOK
  <2> QED BY <1>1, <1>14, <1>16, <2>3 DEF Types, NoBlockFails
<1> QED BY <1>4, <1>14, <1>15, <1>16, <1>17, <1>18 DEF BurstInv, InPlace, FilterLeaves

-----------------------------------------------------------------------------
(* The places of samples. *)
SamplesLie(at, c, form, link) ==
  /\ Places(form, queue, SampleAt(at, c))
  /\ Holds(form, link, queue, SampleAt(at, c))
  /\ SampleAt(at, c)[1] <= 0 /\ Len(link) <= SampleAt(at, c)[Len(queue) + 1]

(* Both links of samples hold samples of the bursts, and the first burst   *)
(* is where the shaper is.                                                 *)
LEMMA SamplesThere ==
  ASSUME Types, ShaperInBurst, NEW at, BurstsAt(at), NEW j, MuxAt(at, j)
  PROVE  /\ SamplesLie(at, Len(filtered), "samples", filtered)
         /\ SamplesLie(at, Len(filtered) + Len(scaled), "scaled", scaled)
         /\ SampleAt(at, Len(filtered) + Len(scaled))[1] = 0 - Sent
<1>1. /\ queue \in Seq(Packets) /\ Q = Len(queue) /\ Q \in Nat
      /\ Places("symbols", queue, at)
      /\ Holds("samples", filtered, queue, SampleAt(at, Len(filtered)))
      /\ Holds("scaled", scaled, queue, SampleAt(at, Len(filtered) + Len(scaled)))
      /\ at[1] * Interpolation + (Len(filtered) + Len(scaled)) = 0 - Sent
  BY TypeFacts DEF Types, Q, BurstsAt
<1>2. PICK f, s, I, e \in Nat :
        f = Len(filtered) /\ s = Len(scaled) /\ I = Interpolation /\ e = Sent
  BY Sizes, TypeFacts, BurstPlaces
<1>3. /\ 1 \in 1 .. Q + 1 /\ Q + 1 \in 1 .. Q + 1
      /\ at[1] \in Int /\ at[Q + 1] \in Int /\ at[Q + 1] >= 0
  BY <1>1, BurstPlaces
<1>4. PICK y \in Int, z \in Nat : y = at[1] * I /\ z = at[Q + 1] * I
  <2>1. at[1] * I \in Int
    BY <1>2, <1>3
  <2>2. at[Q + 1] * I \in Nat
    BY <1>2, <1>3, Multiples
  <2> QED BY <2>1, <2>2
<1>5. y + (f + s) = 0 - e
  BY <1>1, <1>2, <1>4
<1>6. ASSUME NEW c \in Nat
      PROVE  /\ SampleAt(at, c) = [k \in 1 .. Len(queue) + 1 |-> at[k] * Interpolation + c]
             /\ SampleAt(at, c)[1] = y + c /\ SampleAt(at, c)[Len(queue) + 1] = z + c
  BY <1>1, <1>2, <1>3, <1>4 DEF SampleAt
<1>7. Places("samples", queue, SampleAt(at, f))
  <2>1. "samples" \in {"samples", "scaled"} /\ f \in Int
    OBVIOUS
  <2> QED BY <1>1, <1>6, <2>1, SamplePlaces
<1>8. Places("scaled", queue, SampleAt(at, f + s))
  <2>1. PICK c \in Nat : c = f + s
    OBVIOUS
  <2>2. "scaled" \in {"samples", "scaled"} /\ c \in Int
    OBVIOUS
  <2>3. Places("scaled", queue, SampleAt(at, c))
    BY <1>1, <1>6, <2>2, SamplePlaces
  <2> QED BY <2>1, <2>3
<1>9. y + f <= 0 /\ f <= z + f
  BY <1>5
<1>10. y + (f + s) <= 0 /\ s <= z + (f + s)
  BY <1>5
<1>11. SamplesLie(at, f, "samples", filtered)
  BY <1>1, <1>2, <1>6, <1>7, <1>9 DEF SamplesLie
<1>12. SamplesLie(at, f + s, "scaled", scaled) /\ SampleAt(at, f + s)[1] = 0 - e
  <2>1. f + s \in Nat
    OBVIOUS
  <2>2. SampleAt(at, f + s)[1] = y + (f + s) /\ SampleAt(at, f + s)[Len(queue) + 1] = z + (f + s)
    BY <1>6, <2>1
  <2>3. Holds("scaled", scaled, queue, SampleAt(at, f + s))
    BY <1>1, <1>2
  <2> QED BY <1>2, <1>5, <1>8, <1>10, <2>2, <2>3 DEF SamplesLie
<1> QED BY <1>2, <1>11, <1>12

(* The pieces that the multiplication of the tags makes. *)
ScaledAre(more, p, x, n) ==
  /\ more \in Seq(Pieces("scaled")) /\ Len(more) = n
  /\ \A i \in 1 .. n : more[i] = Piece("scaled", p, x + i)

(* Those are what it makes. *)
LEMMA ScalePieces ==
  ASSUME NEW p \in Packets, NEW x \in Nat, NEW n \in Nat,
         \A i \in 1 .. n : filtered[i] = Piece("samples", p, x + i),
         NEW more, more = [i \in 1 .. n |-> [filtered[i] EXCEPT !.bits = Multiply(filtered[i].bits)]]
  PROVE  ScaledAre(more, p, x, n)
<1>1. PICK I, b \in Nat : I = Interpolation /\ b = BurstSize(p)
  BY PacketSizes, Sizes
<1>2. ASSUME NEW i \in 1 .. n
      PROVE  more[i] = Piece("scaled", p, x + i) /\ more[i] \in Pieces("scaled")
  <2>1. PICK m \in Nat : m = x + i
    OBVIOUS
  <2>2. filtered[i] = Piece("samples", p, m)
    BY <2>1
  <2>3. filtered[i] = [sum |-> Transmission!Sum(p, m), bits |-> IF m = 1 THEN b ELSE 0]
    BY <1>1, <2>2 DEF Piece
  <2>4. more[i] = [sum |-> Transmission!Sum(p, m), bits |-> Multiply(IF m = 1 THEN b ELSE 0)]
    BY <2>3
  <2>5. Multiply(IF m = 1 THEN b ELSE 0) = IF m = 1 THEN b * I ELSE 0
    <3>1. I * b = b * I /\ I * 0 = 0
      OBVIOUS
    <3> QED BY <1>1, <3>1 DEF Multiply
  <2>6. Piece("scaled", p, m)
          = [sum |-> Transmission!Sum(p, m), bits |-> IF m = 1 THEN b * I ELSE 0]
    BY <1>1 DEF Piece
  <2>7. more[i] = Piece("scaled", p, m)
    BY <2>4, <2>5, <2>6
  <2> QED BY <2>1, <2>7 DEF Pieces
<1>3. more \in [1 .. n -> Pieces("scaled")]
  BY <1>2
<1>4. more \in Seq(Pieces("scaled")) /\ Len(more) = n
  BY <1>3, FunctionIsSeq
<1> QED BY <1>2, <1>4 DEF ScaledAre

(* The bursts after n samples were scaled. *)
LEMMA ScaledBursts ==
  ASSUME Types, ShaperInBurst, NEW at, BurstsAt(at), NEW j, MuxAt(at, j),
         NEW n \in Nat, n > 0, Scale(n)
  PROVE  /\ BurstsAt(at)'
         /\ filtered' \in Seq(Pieces("samples")) /\ Len(filtered') <= FilteredCapacity
         /\ scaled' \in Seq(Pieces("scaled")) /\ Len(scaled') <= ScaledCapacity
<1>1. PICK more : more = [i \in 1 .. n |-> [filtered[i] EXCEPT !.bits = Multiply(filtered[i].bits)]]
  OBVIOUS
<1>2. /\ Chunk(filtered, n) /\ Len(scaled) + n <= ScaledCapacity
      /\ scaled' = scaled \o more /\ filtered' = From(filtered, n)
      /\ UNCHANGED <<muxed, shaper_vars, queue>>
  BY <1>1 DEF Scale
<1>3. /\ filtered \in Seq(Pieces("samples")) /\ scaled \in Seq(Pieces("scaled"))
      /\ queue \in Seq(Packets) /\ Q = Len(queue) /\ Q \in Nat
      /\ Len(filtered) <= FilteredCapacity
  BY TypeFacts DEF Types, NoBlockFails, TypeOK, Q
<1>4. PICK f, s, I \in Nat : f = Len(filtered) /\ s = Len(scaled) /\ I = Interpolation
  BY Sizes, TypeFacts
<1>5. PICK sat, zat : sat = SampleAt(at, f) /\ zat = SampleAt(at, f + s)
  OBVIOUS
<1>6. /\ SamplesLie(at, Len(filtered), "samples", filtered)
      /\ SamplesLie(at, Len(filtered) + Len(scaled), "scaled", scaled)
  BY SamplesThere
<1>7. /\ Places("samples", queue, sat) /\ Holds("samples", filtered, queue, sat)
      /\ sat[1] <= 0 /\ Len(filtered) <= sat[Len(queue) + 1]
      /\ Places("scaled", queue, zat) /\ Holds("scaled", scaled, queue, zat)
  BY <1>4, <1>5, <1>6 DEF SamplesLie
<1>8. PICK k \in 1 .. Len(queue), x \in Nat :
        /\ sat[k] = 0 - x /\ x + n <= Span("samples", queue[k])
        /\ \A i \in 1 .. n : filtered[i] = Piece("samples", queue[k], x + i)
  <2>1. "samples" \in {"symbols", "samples", "scaled"}
    OBVIOUS
  <2>2. InOne("samples", queue, sat, filtered, n)
    BY <1>2, <1>3, <1>7, <2>1, InBurst
  <2> QED BY <2>2 DEF InOne
<1>9. queue[k] \in Packets /\ k \in 1 .. Q + 1
  BY <1>3, TypeFacts
<1>10. /\ more \in Seq(Pieces("scaled")) /\ Len(more) = n
       /\ \A i \in 1 .. n : more[i] = Piece("scaled", queue[k], x + i)
  <2>1. ScaledAre(more, queue[k], x, n)
    BY <1>1, <1>8, <1>9, ScalePieces
  <2> QED BY <2>1 DEF ScaledAre
<1>11. scaled' \in Seq(Pieces("scaled")) /\ Len(scaled') = s + n
  BY <1>2, <1>3, <1>4, <1>10, JoinProperties
<1>12. n \in 0 .. Len(filtered)
  BY <1>2, <1>4 DEF Chunk
<1>13. filtered' \in Seq(Pieces("samples")) /\ Len(filtered') = f - n
  BY <1>2, <1>3, <1>4, <1>12, FromProperties
<1>14. \A i \in 1 .. Q + 1 : at[i] \in Int
  BY BurstPlaces
<1>15. \A c : SampleAt(at, c) = [i \in 1 .. Len(queue) + 1 |-> at[i] * I + c]
  BY <1>3, <1>4 DEF SampleAt
<1>16. Holds("scaled", scaled \o more, queue, zat)
  <2>1. zat[k] + x = Len(scaled)
    <3>1. at[k] \in Int /\ k \in 1 .. Len(queue) + 1
      BY <1>3, <1>9, <1>14
    <3>2. PICK y \in Int : y = at[k] * I
      BY <3>1
    <3>3. sat[k] = y + f /\ zat[k] = y + (f + s)
      BY <1>5, <1>15, <3>1, <3>2
    <3>4. y + f = 0 - x
      BY <1>8, <3>3
    <3>5. (y + (f + s)) + x = s
      BY <3>4
    <3> QED BY <1>4, <3>3, <3>5
  <2>2. x + Len(more) <= Span("scaled", queue[k])
    BY <1>8, <1>10 DEF Span
  <2>3. "scaled" \in Forms
    BY DEF Forms
  <2>4. \A i \in 1 .. Len(more) : more[i] = Piece("scaled", queue[k], x + i)
    BY <1>10
  <2> QED BY <1>3, <1>7, <1>10, <2>1, <2>2, <2>3, <2>4, ItemsCome
<1>17. PICK next : next = [i \in 1 .. Len(queue) + 1 |-> sat[i] - n]
  OBVIOUS
<1>18. Holds("samples", From(filtered, n), queue, next)
  <2>1. "samples" \in Forms /\ n <= Len(filtered)
    BY <1>2 DEF Forms, Chunk
  <2> QED BY <1>3, <1>7, <1>17, <2>1, ItemsLeave
<1>19. next = SampleAt(at, f - n)
  <2>1. ASSUME NEW i \in 1 .. Len(queue) + 1
        PROVE  sat[i] - n = at[i] * I + (f - n)
    <3>1. at[i] \in Int
      BY <1>3, <1>14
    <3>2. PICK y \in Int : y = at[i] * I
      BY <3>1
    <3>3. sat[i] = y + f
      BY <1>5, <1>15, <3>2
    <3> QED BY <3>2, <3>3
  <2> QED BY <1>15, <1>17, <2>1
<1>20. /\ Sent' = Sent /\ Q' = Q /\ queue' = queue /\ muxed' = muxed
  BY <1>2 DEF shaper_vars, Sent, Q
<1>21. (f - n) + (s + n) = f + s
  OBVIOUS
<1>22. /\ SampleAt(at, Len(filtered))' = next
       /\ SampleAt(at, Len(filtered) + Len(scaled))' = zat
  <2>1. /\ SampleAt(at, Len(filtered))' = SampleAt(at, Len(filtered'))
        /\ SampleAt(at, Len(filtered) + Len(scaled))' = SampleAt(at, Len(filtered') + Len(scaled'))
    BY <1>20 DEF SampleAt
  <2> QED BY <1>5, <1>11, <1>13, <1>19, <1>21, <2>1
<1>23. (at[1] * Interpolation + (Len(filtered) + Len(scaled)) = 0 - Sent)'
  <2>1. at[1] * Interpolation + (f + s) = 0 - Sent
    BY <1>4 DEF BurstsAt
  <2> QED BY <1>11, <1>13, <1>20, <1>21, <2>1
<1>24. Places("symbols", queue, at) /\ Holds("symbols", muxed, queue, at)
  BY DEF BurstsAt
<1>25. BurstsAt(at)'
  <2>1. Places("symbols", queue', at) /\ Holds("symbols", muxed', queue', at)
    BY <1>20, <1>24
  <2>2. /\ Holds("samples", filtered', queue', next)
        /\ Holds("scaled", scaled', queue', zat)
    BY <1>2, <1>16, <1>18, <1>20
  <2> QED BY <1>22, <1>23, <2>1, <2>2 DEF BurstsAt
<1>26. Len(filtered') <= FilteredCapacity /\ Len(scaled') <= ScaledCapacity
  BY <1>2, <1>3, <1>4, <1>11, <1>13, Sizes
<1> QED BY <1>11, <1>13, <1>25, <1>26

(* The multiplication of the tags keeps the invariant. *)
LEMMA ScaleKeeps ==
  ASSUME BurstInv, NEW n \in 1 .. FilteredCapacity, Scale(n)
  PROVE  BurstInv' /\ UNCHANGED <<queue, out, shaper_vars>>
<1>1. PICK at, pat, j : InPlace(at, pat, j) /\ Types /\ Chain /\ ShaperInBurst
  BY DEF BurstInv
<1>2. /\ BurstsAt(at) /\ HistoryAt(at) /\ MuxAt(at, j) /\ PacketsAt(pat, j) /\ RowsAt(j)
  BY <1>1 DEF InPlace
<1>3. n \in Nat /\ n > 0
  BY Sizes
<1>4. UNCHANGED <<sync_vars, packet_vars, ramp_vars, flush_vars, mux_vars, muxed,
                  history, shaper_vars, queue, out>>
  BY DEF Scale
<1>5. /\ BurstsAt(at)'
      /\ filtered' \in Seq(Pieces("samples")) /\ Len(filtered') <= FilteredCapacity
      /\ scaled' \in Seq(Pieces("scaled")) /\ Len(scaled') <= ScaledCapacity
  BY <1>1, <1>2, <1>3, ScaledBursts
<1>6. UNCHANGED <<packet, place, packets, syncword, sync_id, sync_position,
                  ramp_down, ramp_id, ramp_count, flush, flush_count, mux_failed,
                  shaper_remaining, shaper_packet_len, shaper_failed>>
  BY <1>4 DEF sync_vars, packet_vars, ramp_vars, flush_vars, mux_vars, shaper_vars
<1>7. /\ HistoryAt(at)' /\ MuxAt(at, j)' /\ PacketsAt(pat, j)' /\ RowsAt(j)'
      /\ Chain' /\ ShaperInBurst'
  BY <1>1, <1>2, <1>4, <1>6, HistoryStays, MuxStays, PacketsStay, RowsStay, ChainStays, ShaperStays
<1>8. Types'
  <2>1. TypeOK
    BY <1>1 DEF Types, NoBlockFails
  <2>2. TypeOK'
    BY <1>4, <1>5, <1>6, <2>1 DEF TypeOK
  <2> QED BY <1>1, <1>4, <1>5, <1>6, <2>2 DEF Types, NoBlockFails
<1> QED BY <1>4, <1>5, <1>7, <1>8 DEF BurstInv, InPlace

(* The constants of the shaper are as it asks for. *)
LEMMA ShaperConstants ==
  /\ Leading \in Nat /\ Trailing \in Nat
  /\ Lengths \subseteq Nat \ {0} /\ ScaledCapacity \in Nat \ {0}
<1>1. \A capacity \in {SyncwordCapacity, PacketsCapacity, RampDownCapacity,
                       FlushCapacity, MuxedCapacity, ScaledCapacity} :
        capacity \in Nat \ {0}
  BY BurstAssumption
<1> QED BY <1>1, BurstAssumption

(* What one call of the shaper does with a chunk that ends within the      *)
(* packet: it takes all of it, and every item gets the shape of its place  *)
(* in the packet.                                                          *)
LEMMA ChunkShaped ==
  ASSUME NEW len \in Nat, NEW left \in Nat, left <= len,
         NEW n \in Nat, n <= left, NEW bits,
         SHAPER!Length(bits) = len, SHAPER!Left(bits) = left
  PROVE  /\ SHAPER!Consumed(bits, n) = n
         /\ \A i \in 1 .. n :
              /\ SHAPER!ShapeOf(bits, n, i) = SHAPER!ProcessOne(len, len - left + i)
              /\ SHAPER!ShapeOf(bits, n, i) \in SHAPER!Shapes
<1> DEFINE pos == len - left
           led == SHAPER!Led(bits, n)
           copied == SHAPER!Copied(bits, n)
           trailed == SHAPER!Trailed(bits, n)
<1>0. /\ Leading \in Nat /\ Trailing \in Nat
      /\ SHAPER!Position(bits) = pos /\ pos \in Nat
  BY ShaperConstants DEF SHAPER!Position
<1>1. /\ led \in Nat /\ led <= n
      /\ pos >= Leading => led = 0
      /\ pos < Leading /\ Leading - pos <= n => led = Leading - pos
      /\ pos < Leading /\ Leading - pos > n => led = n
  BY <1>0 DEF SHAPER!Led, SHAPER!Lesser
<1>2. /\ copied \in Nat /\ led + copied <= n
      /\ left - led <= Trailing => copied = 0
      /\ left - led > Trailing /\ left - Trailing <= n => copied = left - led - Trailing
      /\ left - led > Trailing /\ left - Trailing > n => copied = n - led
  <2> HIDE DEF led
  <2>1. copied = IF left - led > Trailing THEN SHAPER!Lesser(left - led - Trailing, n - led) ELSE 0
    BY DEF SHAPER!Copied, led
  <2>2. QED BY <1>0, <1>1, <2>1 DEF SHAPER!Lesser
<1>3. trailed = n - (led + copied)
  <2> HIDE DEF led, copied
  <2>1. trailed = SHAPER!Lesser(left - (led + copied), n - (led + copied))
    BY DEF SHAPER!Trailed, led, copied
  <2>2. QED BY <1>1, <1>2, <2>1 DEF SHAPER!Lesser
<1>4. SHAPER!Consumed(bits, n) = n
  <2>1. SHAPER!Consumed(bits, n) = led + copied + trailed
    BY DEF SHAPER!Consumed
  <2> HIDE DEF led, copied, trailed
  <2>2. QED BY <1>1, <1>2, <1>3, <2>1
<1>5. ASSUME NEW i \in 1 .. n
      PROVE  /\ SHAPER!ShapeOf(bits, n, i) = SHAPER!ProcessOne(len, pos + i)
             /\ SHAPER!ShapeOf(bits, n, i) \in SHAPER!Shapes
  <2>1. SHAPER!ShapeOf(bits, n, i) =
          CASE i <= led          -> <<"leading", pos + i>>
            [] i > led + copied  -> <<"trailing", Trailing - (left - i)>>
            [] OTHER             -> SHAPER!Plain
    BY <1>0 DEF SHAPER!ShapeOf
  <2>2. SHAPER!ProcessOne(len, pos + i) =
          LET t == IF len > Leading THEN SHAPER!Lesser(len - Leading, Trailing) ELSE 0
          IN CASE pos + i <= SHAPER!Lesser(Leading, len) -> <<"leading", pos + i>>
               [] pos + i > len - t -> <<"trailing", Trailing - (len - (pos + i))>>
               [] OTHER             -> SHAPER!Plain
    BY DEF SHAPER!ProcessOne
  <2> HIDE DEF led, copied, trailed
  <2>3. CASE i <= led
    <3>1. pos + i <= Leading /\ pos + i <= len
      BY <1>0, <1>1, <2>3
    <3>2. SHAPER!ShapeOf(bits, n, i) = <<"leading", pos + i>>
      BY <1>1, <1>2, <2>1, <2>3
    <3>3. SHAPER!ProcessOne(len, pos + i) = <<"leading", pos + i>>
      BY <1>0, <2>2, <3>1 DEF SHAPER!Lesser
    <3>4. pos + i \in Nat
      BY <1>0
    <3>5. QED BY <3>2, <3>3, <3>4 DEF SHAPER!Shapes
  <2>4. CASE i > led + copied
    <3>1. i > led /\ pos + i > Leading /\ pos + i <= len
      BY <1>0, <1>1, <1>2, <2>4
    <3>2. left - i < Trailing
      BY <1>0, <1>1, <1>2, <2>4
    <3>3. len - (pos + i) = left - i
      BY <1>0
    <3>4. QED BY <1>0, <1>1, <1>2, <2>1, <2>2, <2>4, <3>1, <3>2, <3>3
      DEF SHAPER!Lesser, SHAPER!Shapes
  <2>5. CASE i > led /\ i <= led + copied
    <3>1. pos + i > Leading /\ pos + i <= len
      BY <1>0, <1>1, <1>2, <2>5
    <3>2. left - i >= Trailing
      BY <1>0, <1>1, <1>2, <2>5
    <3>3. len - (pos + i) = left - i
      BY <1>0
    <3>4. QED BY <1>0, <1>1, <1>2, <2>1, <2>2, <2>5, <3>1, <3>2, <3>3
      DEF SHAPER!Lesser, SHAPER!Shapes, SHAPER!Plain
  <2>6. QED BY <1>0, <1>1, <1>2, <2>3, <2>4, <2>5
<1>6. QED BY <1>4, <1>5

(* The samples of a burst. *)
LEMMA SizeIs ==
  ASSUME NEW p \in Packets
  PROVE  /\ Transmission!Size(p) = BurstSize(p) * Interpolation
         /\ Transmission!Size(p) \in Nat /\ Transmission!Size(p) > 0
         /\ Leading + Trailing <= Transmission!Size(p)
<1>1. Len(Transmission!Symbols(p)) + FlushSize = BurstSize(p)
  BY BurstSymbols, PacketSizes
<1>2. Transmission!Size(p) = BurstSize(p) * Interpolation
  BY <1>1 DEF Transmission!Size
<1>3. Leading + Trailing <= BurstSize(p) * Interpolation
  <2>1. \A len \in Lengths :
          Leading + Trailing <= (SyncwordSize + len + RampDownSize + FlushSize) * Interpolation
    BY BurstAssumption
  <2> QED BY <2>1, PacketSizes
<1> QED BY <1>2, <1>3, PacketSizes

(* The envelope is what the form of the shaper for whole packets makes. *)
LEMMA EnvelopeIs ==
  ASSUME NEW p \in Packets, NEW m \in Nat, m > 0, m <= Transmission!Size(p)
  PROVE  SHAPER!ProcessOne(Transmission!Size(p), m) = Transmission!Envelope(p, m)
<1>1. PICK size \in Nat : size = Transmission!Size(p) /\ Leading + Trailing <= size
  BY SizeIs
<1>2. Leading \in Nat /\ Trailing \in Nat
  BY Sizes
<1>3. PICK trailed : trailed = IF size > Leading
                                 THEN SHAPER!Lesser(size - Leading, Trailing) ELSE 0
  OBVIOUS
<1>4. SHAPER!ProcessOne(size, m) =
        CASE m <= SHAPER!Lesser(Leading, size) -> <<"leading", m>>
          [] m > size - trailed                -> <<"trailing", Trailing - (size - m)>>
          [] OTHER                             -> <<"plain", 0>>
  BY <1>3 DEF SHAPER!ProcessOne, SHAPER!Plain
<1>5. SHAPER!Lesser(Leading, size) = Leading /\ trailed = Trailing
  BY <1>1, <1>2, <1>3 DEF SHAPER!Lesser
<1>6. Trailing - (size - m) = m - (size - Trailing)
  BY <1>2
<1>7. Transmission!Envelope(p, m) =
        CASE m <= Leading          -> <<"leading", m>>
          [] m > size - Trailing   -> <<"trailing", m - (size - Trailing)>>
          [] OTHER                 -> <<"plain", 0>>
  BY <1>1 DEF Transmission!Envelope
<1>8. SHAPER!ProcessOne(size, m) = Transmission!Envelope(p, m)
  BY <1>4, <1>5, <1>6, <1>7
<1> QED BY <1>1, <1>8

(* One call of the shaper sends the next samples of the first burst. *)
SendsNext(n) ==
  /\ Q > 0 /\ n <= Len(scaled) /\ Sent + n <= BurstSize(queue[1]) * Interpolation
  /\ out' = [i \in 1 .. n |-> Transmission!Sample(queue[1], Sent + i)]
  /\ Len(out') = n
  /\ shaper_packet_len' = BurstSize(queue[1]) * Interpolation
  /\ shaper_remaining' = BurstSize(queue[1]) * Interpolation - (Sent + n)
  /\ UNCHANGED shaper_failed
  /\ scaled' = From(scaled, n)
  /\ queue' = IF shaper_remaining' = 0 THEN Tail(queue) ELSE queue

(* Where the shaper is. *)
AtShaper(n) ==
  /\ Q > 0 /\ n <= Len(scaled) /\ Sent + n <= BurstSize(queue[1]) * Interpolation
  /\ \A i \in 1 .. n : scaled[i] = Piece("scaled", queue[1], Sent + i)

(* The next samples are those of the first burst. *)
LEMMA ShaperIs ==
  ASSUME Types, ShaperInBurst, NEW at, BurstsAt(at), NEW j, MuxAt(at, j),
         NEW n \in 1 .. ScaledCapacity, Chunk(scaled, n)
  PROVE  AtShaper(n)
<1>1. PICK zat : zat = SampleAt(at, Len(filtered) + Len(scaled))
  OBVIOUS
<1>2. /\ Places("scaled", queue, zat) /\ Holds("scaled", scaled, queue, zat)
      /\ zat[1] <= 0 /\ Len(scaled) <= zat[Len(queue) + 1] /\ zat[1] = 0 - Sent
  <2>1. /\ SamplesLie(at, Len(filtered) + Len(scaled), "scaled", scaled)
        /\ SampleAt(at, Len(filtered) + Len(scaled))[1] = 0 - Sent
    BY SamplesThere
  <2> QED BY <1>1, <2>1 DEF SamplesLie
<1>3. /\ queue \in Seq(Packets) /\ scaled \in Seq(Pieces("scaled"))
      /\ Q = Len(queue) /\ Q \in Nat
  BY TypeFacts DEF Types, Q
<1>4. n \in Nat /\ n > 0
  BY Sizes
<1>5. InOne("scaled", queue, zat, scaled, n)
  <2>1. "scaled" \in {"symbols", "samples", "scaled"}
    OBVIOUS
  <2> QED BY <1>2, <1>3, <1>4, <2>1, InBurst
<1>6. PICK k \in 1 .. Len(queue), x \in Nat :
        /\ zat[k] = 0 - x /\ x + n <= Span("scaled", queue[k])
        /\ \A i \in 1 .. n : scaled[i] = Piece("scaled", queue[k], x + i)
  BY <1>5 DEF InOne
<1>7. Q > 0 /\ queue[1] \in Packets
  BY <1>3, <1>6, TypeFacts
<1>8. PICK size \in Nat : size = BurstSize(queue[1]) * Interpolation /\ size > 0
  BY <1>7, PacketSizes
<1>9. PICK sent \in Nat : sent = Sent /\ sent < size
  BY <1>8, BurstPlaces
<1>10. Span("scaled", queue[1]) = size
  BY <1>8 DEF Span
<1>11. k = 1
  <2>1. SUFFICES ASSUME k # 1 PROVE FALSE
    OBVIOUS
  <2>2. zat[2] = zat[1] + Span("scaled", queue[1])
    <3>1. 1 \in 1 .. Len(queue) /\ 1 + 1 = 2
      BY <1>3, <1>7
    <3> QED BY <1>2, <3>1 DEF Places
  <2>3. zat[2] <= zat[k]
    <3>1. 2 \in 1 .. Len(queue) + 1 /\ k \in 1 .. Len(queue) + 1 /\ 2 <= k
      BY <1>3, <2>1
    <3> QED BY <1>2, <3>1 DEF Places
  <2>4. PICK y : y = zat[2]
    OBVIOUS
  <2>5. y = (0 - sent) + size
    BY <1>2, <1>9, <1>10, <2>2, <2>4
  <2>6. y <= 0 - x
    BY <1>6, <2>3, <2>4
  <2> QED BY <1>9, <2>5, <2>6
<1>12. x = Sent
  <2>1. 0 - x = 0 - sent
    BY <1>2, <1>6, <1>9, <1>11
  <2> QED BY <1>9, <2>1
<1>13. n <= Len(scaled)
  BY DEF Chunk
<1>14. /\ Sent + n <= BurstSize(queue[1]) * Interpolation
       /\ \A i \in 1 .. n : scaled[i] = Piece("scaled", queue[1], Sent + i)
  BY <1>6, <1>8, <1>10, <1>11, <1>12
<1> QED BY <1>7, <1>13, <1>14 DEF AtShaper

(* The length and what is left of it, as the shaper sees them. *)
LEMMA ShaperSees ==
  ASSUME Types, ShaperInBurst, NEW n \in 1 .. ScaledCapacity, AtShaper(n)
  PROVE  /\ SHAPER!Length(scaled[1].bits) = BurstSize(queue[1]) * Interpolation
         /\ SHAPER!Left(scaled[1].bits) = BurstSize(queue[1]) * Interpolation - Sent
<1>1. Q > 0 /\ queue[1] \in Packets /\ n \in Nat /\ n > 0 /\ 1 \in 1 .. n
  BY TypeFacts, Sizes DEF AtShaper
<1>2. PICK size \in Nat : size = BurstSize(queue[1]) * Interpolation /\ size > 0
  BY <1>1, PacketSizes
<1>3. scaled[1] = Piece("scaled", queue[1], Sent + 1)
  BY <1>1 DEF AtShaper
<1>4. scaled[1].bits = IF Sent + 1 = 1 THEN size ELSE 0
  BY <1>2, <1>3 DEF Piece
<1>5. CASE shaper_remaining = 0
  <2>1. Sent = 0 /\ size - 0 = size
    BY <1>5 DEF Sent
  <2>2. scaled[1].bits = size
    BY <1>4, <2>1
  <2> QED BY <1>2, <1>5, <2>1, <2>2 DEF SHAPER!Length, SHAPER!Left, SHAPER!AtStart
<1>6. CASE shaper_remaining # 0
  <2>1. shaper_packet_len = size /\ shaper_remaining \in Nat
    BY <1>2, <1>6, TypeFacts DEF ShaperInBurst
  <2>2. Sent = size - shaper_remaining
    BY <1>6, <2>1 DEF Sent
  <2>3. shaper_remaining = size - Sent
    BY <2>1, <2>2
  <2> QED BY <1>2, <1>6, <2>1, <2>3 DEF SHAPER!Length, SHAPER!Left, SHAPER!AtStart
<1> QED BY <1>5, <1>6

(* A call of the shaper sends what is promised. *)
LEMMA ShapeCalls ==
  ASSUME Types, ShaperInBurst, NEW at, BurstsAt(at), NEW j, MuxAt(at, j),
         NEW n \in 1 .. ScaledCapacity, Shape(n)
  PROVE  SendsNext(n)
<1>0. n \in Nat /\ n > 0
  BY Sizes
<1>1. AtShaper(n)
  BY ShaperIs DEF Shape
<1>2. /\ Q > 0 /\ n <= Len(scaled) /\ queue[1] \in Packets
      /\ \A i \in 1 .. n : scaled[i] = Piece("scaled", queue[1], Sent + i)
  BY <1>1, TypeFacts DEF AtShaper
<1>3. PICK b : b = scaled[1].bits
  OBVIOUS
<1>4. PICK p \in Packets : p = queue[1]
  BY <1>2
<1>5. PICK size \in Nat : size = BurstSize(p) * Interpolation /\ size > 0
                          /\ size = Transmission!Size(p)
  BY SizeIs
<1>6. PICK sent \in Nat : sent = Sent /\ sent + n <= size
  <2>1. Sent \in Nat
    BY BurstPlaces
  <2> QED BY <1>1, <1>4, <1>5, <2>1 DEF AtShaper
<1>7. SHAPER!Length(b) = size /\ SHAPER!Left(b) = size - sent
  BY <1>1, <1>3, <1>4, <1>5, <1>6, ShaperSees
<1>8. /\ SHAPER!Consumed(b, n) = n
      /\ \A i \in 1 .. n : SHAPER!ShapeOf(b, n, i) = SHAPER!ProcessOne(size, sent + i)
  <2>1. PICK left \in Nat : left = size - sent /\ left <= size /\ n <= left
    BY <1>0, <1>6
  <2>2. /\ SHAPER!Consumed(b, n) = n
        /\ \A i \in 1 .. n :
             /\ SHAPER!ShapeOf(b, n, i) = SHAPER!ProcessOne(size, size - left + i)
             /\ SHAPER!ShapeOf(b, n, i) \in SHAPER!Shapes
    BY <1>0, <1>7, <2>1, ShaperConstants, ChunkShaped
  <2>3. \A i \in 1 .. n : size - left + i = sent + i
    BY <1>6, <2>1
  <2> QED BY <2>2, <2>3
<1>9. PICK shapes :
        /\ SHAPER!ProcessBulk(b, n, shapes)
        /\ out' = [i \in DOMAIN shapes |->
                     [sum |-> scaled[i].sum, envelope |-> shapes[i], bits |-> scaled[i].bits]]
        /\ scaled' = From(scaled, Len(shapes))
        /\ queue' = IF Len(shapes) > 0 /\ shaper_remaining' = 0 THEN Tail(queue) ELSE queue
  BY <1>3 DEF Shape
<1>10. SHAPER!Shape(b, n, shapes)
  BY <1>5, <1>7, <1>9 DEF SHAPER!ProcessBulk, SHAPER!Fail
<1>11. /\ shapes = [i \in 1 .. n |-> SHAPER!ShapeOf(b, n, i)]
       /\ shaper_packet_len' = size /\ shaper_remaining' = (size - sent) - n
       /\ UNCHANGED shaper_failed
  BY <1>7, <1>8, <1>10 DEF SHAPER!Shape
<1>12. DOMAIN shapes = 1 .. n /\ Len(shapes) = n
  <2>1. PICK S : S = {SHAPER!ShapeOf(b, n, i) : i \in 1 .. n}
    OBVIOUS
  <2>2. shapes \in [1 .. n -> S]
    BY <1>11, <2>1
  <2> QED BY <1>0, <1>11, <2>2, FunctionIsSeq
<1>13. ASSUME NEW i \in 1 .. n
       PROVE  [sum |-> scaled[i].sum, envelope |-> shapes[i], bits |-> scaled[i].bits]
                = Transmission!Sample(p, sent + i)
  <2>1. PICK m \in Nat : m = sent + i /\ m > 0 /\ m <= size
    BY <1>0, <1>6
  <2>2. scaled[i] = [sum |-> Transmission!Sum(p, m), bits |-> IF m = 1 THEN size ELSE 0]
    <3>1. scaled[i] = Piece("scaled", p, m)
      BY <1>2, <1>4, <1>6, <2>1
    <3> QED BY <1>5, <3>1 DEF Piece
  <2>3. shapes[i] = Transmission!Envelope(p, m)
    <3>1. shapes[i] = SHAPER!ProcessOne(size, m)
      BY <1>8, <1>11, <2>1
    <3>2. SHAPER!ProcessOne(Transmission!Size(p), m) = Transmission!Envelope(p, m)
      BY <1>5, <2>1, EnvelopeIs
    <3> QED BY <1>5, <3>1, <3>2
  <2>4. Transmission!Sample(p, m)
          = [sum |-> Transmission!Sum(p, m), envelope |-> Transmission!Envelope(p, m),
             bits |-> IF m = 1 THEN size ELSE 0]
    BY <1>5 DEF Transmission!Sample
  <2> QED BY <2>1, <2>2, <2>3, <2>4
<1>14. out' = [i \in 1 .. n |-> Transmission!Sample(p, sent + i)]
  BY <1>9, <1>12, <1>13
<1>15. Len(out') = n
  <2>1. PICK S : S = {Transmission!Sample(p, sent + i) : i \in 1 .. n}
    OBVIOUS
  <2>2. out' \in [1 .. n -> S]
    BY <1>14, <2>1
  <2> QED BY <1>0, <2>2, FunctionIsSeq
<1>16. queue' = IF shaper_remaining' = 0 THEN Tail(queue) ELSE queue
  BY <1>0, <1>9, <1>12
<1>17. (size - sent) - n = size - (sent + n) /\ scaled' = From(scaled, n)
  BY <1>0, <1>9, <1>12
<1> QED BY <1>2, <1>4, <1>5, <1>6, <1>11, <1>14, <1>15, <1>16, <1>17 DEF SendsNext

(* What the shaper leaves alone. *)
ShapeLeaves ==
  UNCHANGED <<sync_vars, packet_vars, ramp_vars, flush_vars, mux_vars, muxed,
              history, filtered>>

(* What is left of the scaled samples lies nearer by as much. *)
LEMMA ScaledTaken ==
  ASSUME Types, ShaperInBurst, NEW at, BurstsAt(at), NEW j, MuxAt(at, j),
         NEW n \in Nat, n <= Len(scaled), NEW c, c = Len(filtered) + (Len(scaled) - n)
  PROVE  /\ Holds("scaled", From(scaled, n), queue, SampleAt(at, c))
         /\ Places("scaled", queue, SampleAt(at, c))
<1>1. PICK f, s, I \in Nat : f = Len(filtered) /\ s = Len(scaled) /\ I = Interpolation
  BY Sizes, TypeFacts
<1>2. PICK zat : zat = SampleAt(at, f + s)
  OBVIOUS
<1>3. Places("scaled", queue, zat) /\ Holds("scaled", scaled, queue, zat)
  <2>1. SamplesLie(at, Len(filtered) + Len(scaled), "scaled", scaled)
    BY SamplesThere
  <2> QED BY <1>1, <1>2, <2>1 DEF SamplesLie
<1>4. /\ queue \in Seq(Packets) /\ scaled \in Seq(Pieces("scaled")) /\ "scaled" \in Forms
      /\ Q = Len(queue)
  BY DEF Types, Forms, Q
<1>5. PICK next : next = [k \in 1 .. Len(queue) + 1 |-> zat[k] - n]
  OBVIOUS
<1>6. Places("scaled", queue, next) /\ Holds("scaled", From(scaled, n), queue, next)
  BY <1>3, <1>4, <1>5, ItemsLeave
<1>7. next = SampleAt(at, c)
  <2>1. ASSUME NEW k \in 1 .. Len(queue) + 1
        PROVE  zat[k] - n = at[k] * I + c
    <3>1. at[k] \in Int
      BY <1>4, BurstPlaces
    <3>2. PICK y \in Int : y = at[k] * I
      BY <3>1
    <3>3. zat[k] = y + (f + s)
      BY <1>1, <1>2, <1>4, <3>2 DEF SampleAt
    <3>4. c = f + (s - n)
      BY <1>1
    <3> QED BY <3>2, <3>3, <3>4
  <2> QED BY <1>1, <1>4, <1>5, <2>1 DEF SampleAt
<1> QED BY <1>6, <1>7

(* The types after a call of the shaper. *)
LEMMA ShapedTypes ==
  ASSUME Types, NEW n \in Nat, n > 0, SendsNext(n), ShapeLeaves
  PROVE  /\ Types' /\ Len(scaled') = Len(scaled) - n
         /\ shaper_remaining' \in Nat /\ shaper_packet_len' \in Nat
<1>1. /\ scaled \in Seq(Pieces("scaled")) /\ queue \in Seq(Packets) /\ TypeOK
      /\ Q = Len(queue) /\ n \in 0 .. Len(scaled) /\ Len(queue) > 0
      /\ scaled' = From(scaled, n)
  BY DEF Types, NoBlockFails, SendsNext, Q
<1>2. scaled' \in Seq(Pieces("scaled")) /\ Len(scaled') = Len(scaled) - n
  BY <1>1, FromProperties
<1>3. queue[1] \in Packets /\ Tail(queue) \in Seq(Packets)
  BY <1>1, HeadAndTail
<1>4. queue' \in Seq(Packets)
  BY <1>1, <1>3 DEF SendsNext
<1>5. PICK size, s \in Nat : size = BurstSize(queue[1]) * Interpolation /\ s = Len(scaled)
  BY <1>3, PacketSizes, TypeFacts
<1>6. Sent \in Int
  BY TypeFacts DEF Sent
<1>7. shaper_remaining' \in Nat /\ shaper_packet_len' \in Nat
  <2>1. PICK sent \in Int : sent = Sent
    BY <1>6
  <2>2. sent + n <= size /\ shaper_remaining' = size - (sent + n) /\ shaper_packet_len' = size
    BY <1>5, <2>1 DEF SendsNext
  <2> QED BY <1>5, <2>1, <2>2
<1>8. Len(scaled') <= ScaledCapacity
  BY <1>1, <1>2, <1>5, Sizes DEF TypeOK
<1>9. UNCHANGED <<packet, place, packets, syncword, sync_id, sync_position,
                  ramp_down, ramp_id, ramp_count, flush, flush_count, mux_failed,
                  muxed, filtered, shaper_failed>>
  BY DEF ShapeLeaves, SendsNext, sync_vars, packet_vars, ramp_vars, flush_vars, mux_vars
<1>10. TypeOK'
  BY <1>1, <1>7, <1>8, <1>9 DEF TypeOK
<1> QED BY <1>2, <1>4, <1>7, <1>9, <1>10 DEF Types, NoBlockFails

(* Within a burst. *)
LEMMA ShapeGoesOn ==
  ASSUME Types, Chain, ShaperInBurst, NEW at, NEW pat, NEW j, InPlace(at, pat, j),
         NEW n \in Nat, n > 0, SendsNext(n), ShapeLeaves, shaper_remaining' # 0
  PROVE  BurstInv' /\ Sent' = Sent + n
<1>1. /\ BurstsAt(at) /\ HistoryAt(at) /\ MuxAt(at, j) /\ PacketsAt(pat, j) /\ RowsAt(j)
  BY DEF InPlace
<1>2. /\ Types' /\ Len(scaled') = Len(scaled) - n
      /\ shaper_remaining' \in Nat /\ shaper_packet_len' \in Nat
  BY ShapedTypes
<1>3. /\ queue' = queue /\ Q' = Q /\ Q > 0 /\ n <= Len(scaled)
      /\ scaled' = From(scaled, n)
  BY DEF SendsNext, Q
<1>4. PICK size, sent, f, s \in Nat :
        /\ size = BurstSize(queue[1]) * Interpolation /\ sent = Sent
        /\ f = Len(filtered) /\ s = Len(scaled)
  <2>1. queue[1] \in Packets /\ Sent \in Nat
    BY <1>1, <1>3, TypeFacts, BurstPlaces
  <2> QED BY <2>1, PacketSizes, TypeFacts
<1>5. /\ sent + n <= size /\ shaper_packet_len' = size
      /\ shaper_remaining' = size - (sent + n)
  BY <1>4 DEF SendsNext
<1>6. Sent' = sent + n
  <2>1. Sent' = size - (size - (sent + n))
    BY <1>5 DEF Sent
  <2> QED BY <2>1
<1>7. UNCHANGED <<sync_vars, packet_vars, ramp_vars, flush_vars, mux_vars, muxed,
                  history, filtered, queue, packet, place>>
  BY <1>3 DEF ShapeLeaves, packet_vars
<1>8. HistoryAt(at)' /\ MuxAt(at, j)' /\ PacketsAt(pat, j)' /\ RowsAt(j)' /\ Chain'
  BY <1>1, <1>7, HistoryStays, MuxStays, PacketsStay, RowsStay, ChainStays
<1>9. ShaperInBurst'
  <2>1. BurstSize(queue[1])' * Interpolation = size
    BY <1>3, <1>4 DEF BurstSize
  <2>2. Q' > 0 /\ shaper_remaining' < shaper_packet_len'
    BY <1>3, <1>5
  <2> QED BY <1>3, <1>4, <1>5, <2>2 DEF ShaperInBurst, BurstSize
<1>10. PICK c : c = f + (s - n)
  OBVIOUS
<1>11. Holds("scaled", scaled', queue', SampleAt(at, c)')
  <2>1. Holds("scaled", From(scaled, n), queue, SampleAt(at, c))
    BY <1>1, <1>3, <1>4, <1>10, ScaledTaken
  <2>2. SampleAt(at, c)' = SampleAt(at, c)
    BY <1>3 DEF SampleAt
  <2> QED BY <1>3, <2>1, <2>2
<1>12. at[1] * Interpolation + (f + (s - n)) = 0 - (sent + n)
  <2>1. at[1] * Interpolation + (f + s) = 0 - sent
    BY <1>1, <1>4 DEF BurstsAt
  <2>2. at[1] * Interpolation \in Int
    <3>1. 1 \in 1 .. Q + 1 /\ Interpolation \in Nat
      BY <1>3, Sizes, TypeFacts
    <3>2. at[1] \in Int
      BY <1>1, <3>1, BurstPlaces
    <3> QED BY <3>1, <3>2
  <2>3. PICK y \in Int : y = at[1] * Interpolation
    BY <2>2
  <2> QED BY <2>1, <2>3
<1>13. /\ Places("symbols", queue, at) /\ Holds("symbols", muxed, queue, at)
       /\ Holds("samples", filtered, queue, SampleAt(at, Len(filtered)))
  BY <1>1 DEF BurstsAt
<1>14. BurstsAt(at)'
  <2>1. /\ SampleAt(at, Len(filtered))' = SampleAt(at, Len(filtered))
        /\ SampleAt(at, Len(filtered) + Len(scaled))' = SampleAt(at, c)'
    <3>1. Len(filtered') + Len(scaled') = c /\ filtered' = filtered
      BY <1>2, <1>4, <1>7, <1>10
    <3> QED BY <1>3, <3>1 DEF SampleAt
  <2>2. /\ Places("symbols", queue', at) /\ Holds("symbols", muxed', queue', at)
        /\ Holds("samples", filtered', queue', SampleAt(at, Len(filtered))')
    BY <1>7, <1>13, <2>1
  <2>3. (at[1] * Interpolation + (Len(filtered) + Len(scaled)) = 0 - Sent)'
    BY <1>2, <1>4, <1>6, <1>7, <1>12
  <2> QED BY <1>11, <2>1, <2>2, <2>3 DEF BurstsAt
<1>15. InPlace(at, pat, j)'
  BY <1>8, <1>14 DEF InPlace
<1> QED BY <1>2, <1>4, <1>6, <1>8, <1>9, <1>15 DEF BurstInv

(* The first burst has left. *)
BurstLeaves ==
  /\ Q > 0 /\ queue' = Tail(queue) /\ Sent' = 0
  /\ UNCHANGED <<sync_vars, packet_vars, ramp_vars, flush_vars, mux_vars, muxed,
                 history, filtered>>

(* The others move up in the queue. *)
LEMMA QueueLeaves ==
  ASSUME Types, BurstLeaves
  PROVE  /\ Q' = Q - 1 /\ Q' \in Nat /\ queue = queue
         /\ \A k \in 1 .. Q - 1 : queue'[k] = queue[k + 1]
<1>1. queue \in Seq(Packets) /\ Q = Len(queue) /\ Q > 0 /\ queue' = Tail(queue)
  BY DEF Types, Q, BurstLeaves
<1>2. /\ Len(Tail(queue)) = Len(queue) - 1
      /\ \A i \in 1 .. Len(queue) - 1 : Tail(queue)[i] = queue[i + 1]
  BY <1>1, HeadAndTail
<1>3. Q' = Len(queue')
  BY DEF Q
<1> QED BY <1>1, <1>2, <1>3, TypeFacts

(* The multiplexer had left it before. *)
LEMMA MuxIsBeyond ==
  ASSUME Types, ShaperInBurst, NEW at, BurstsAt(at), NEW j, MuxAt(at, j),
         NEW n \in Nat, n > 0, Q > 0, n <= Len(scaled),
         Sent + n = BurstSize(queue[1]) * Interpolation
  PROVE  /\ j \in 2 .. Q + 1
         /\ at[2] * Interpolation + (Len(filtered) + (Len(scaled) - n)) = 0
<1>1. queue[1] \in Packets /\ Q \in Nat
  BY TypeFacts
<1>2. PICK b, size, sent, f, s \in Nat :
        /\ b = BurstSize(queue[1]) /\ size = b * Interpolation /\ sent = Sent
        /\ f = Len(filtered) /\ s = Len(scaled)
  BY <1>1, PacketSizes, TypeFacts, BurstPlaces
<1>3. PICK I \in Nat : I = Interpolation /\ I > 0
  BY Sizes
<1>4. /\ 1 \in 1 .. Q /\ 1 \in 1 .. Q + 1 /\ 2 \in 1 .. Q + 1 /\ 1 + 1 = 2
  BY <1>1
<1>5. at[1] \in Int /\ at[2] \in Int /\ at[1 + 1] = at[1] + BurstSize(queue[1])
  BY <1>4, BurstPlaces
<1>6. PICK a1, a2 \in Int : a1 = at[1] /\ a2 = at[2] /\ a2 = a1 + b
  BY <1>2, <1>4, <1>5
<1>7. a1 * I + (f + s) = 0 - sent
  BY <1>2, <1>3, <1>6 DEF BurstsAt
<1>8. a2 * I = a1 * I + size
  <2>1. \A u, v, w \in Int : (u + v) * w = u * w + v * w
    OBVIOUS
  <2> QED BY <1>2, <1>3, <1>6, <2>1
<1>9. a2 * I + (f + (s - n)) = 0
  <2>1. PICK y, z \in Int : y = a1 * I /\ z = a2 * I
    OBVIOUS
  <2>2. y + (f + s) = 0 - sent /\ z = y + size /\ sent + n = size
    BY <1>2, <1>3, <1>7, <1>8, <2>1
  <2>3. z + (f + (s - n)) = 0
    BY <2>2
  <2> QED BY <2>1, <2>3
<1>10. a2 <= 0
  <2>1. SUFFICES ASSUME a2 > 0 PROVE FALSE
    OBVIOUS
  <2>2. a2 * I > 0
    BY <1>3, <2>1
  <2>3. PICK z \in Int : z = a2 * I
    OBVIOUS
  <2>4. z > 0 /\ z + (f + (s - n)) = 0 /\ n <= s
    BY <1>2, <1>9, <2>2, <2>3
  <2> QED BY <2>4
<1>11. j # 1
  <2>1. SUFFICES ASSUME j = 1 PROVE FALSE
    OBVIOUS
  <2>2. PICK c, m \in Nat : c = MuxSent /\ m = Len(muxed) /\ a1 + c = m
    BY <1>6, <2>1, MuxParts, TypeFacts DEF MuxAt
  <2>3. c < b
    <3>1. b > 0
      BY <1>1, <1>2, PacketSizes
    <3>2. mux_packet_lens = <<>> => c = 0
      BY <2>2, MuxParts
    <3>3. mux_packet_lens # <<>> => c < b
      BY <1>2, <2>1, <2>2, MuxParts
    <3> QED BY <3>1, <3>2, <3>3
  <2> QED BY <1>6, <1>10, <2>2, <2>3
<1>12. j \in 1 .. Q + 1
  BY DEF MuxAt
<1>13. j \in 2 .. Q + 1
  BY <1>1, <1>11, <1>12
<1> QED BY <1>2, <1>3, <1>6, <1>9, <1>13

(* Where the other bursts are. *)
LEMMA BurstsFollow ==
  ASSUME Types, ShaperInBurst, NEW at, BurstsAt(at), NEW j, MuxAt(at, j), BurstLeaves,
         Holds("scaled", scaled', queue, SampleAt(at, Len(filtered) + Len(scaled'))),
         Places("scaled", queue, SampleAt(at, Len(filtered) + Len(scaled'))),
         at[2] * Interpolation + (Len(filtered) + Len(scaled')) = 0,
         NEW next, next = [k \in 1 .. Q |-> at[k + 1]]
  PROVE  BurstsAt(next)'
<1>1. PICK f, c, m, z : /\ f = Len(filtered) /\ c = Len(filtered) + Len(scaled')
                        /\ m = Len(queue) /\ z = scaled'
  OBVIOUS
<1>2. /\ Q = m /\ m \in Nat /\ m > 0 /\ queue \in Seq(Packets)
      /\ {"symbols", "samples", "scaled"} \subseteq Forms
  BY <1>1, TypeFacts DEF Types, Q, BurstLeaves, Forms
<1>3. Q' = m - 1 /\ queue' = Tail(queue) /\ Sent' = 0 /\ muxed' = muxed /\ filtered' = filtered
  BY <1>2, QueueLeaves DEF BurstLeaves
<1>4. \A x : SampleAt(next, x)' = [k \in 1 .. m |-> SampleAt(at, x)[k + 1]]
  <2>1. TAKE x
  <2>2. SampleAt(next, x)' = [k \in 1 .. m |-> next[k] * Interpolation + x]
    <3>1. (m - 1) + 1 = m
      BY <1>2
    <3> QED BY <1>3, <3>1 DEF SampleAt
  <2>3. ASSUME NEW k \in 1 .. m
        PROVE  next[k] * Interpolation + x = SampleAt(at, x)[k + 1]
    <3>1. k + 1 \in 1 .. Q + 1 /\ next[k] = at[k + 1]
      BY <1>2
    <3> QED BY <3>1 DEF SampleAt
  <2> QED BY <2>2, <2>3
<1>5. Places("symbols", Tail(queue), next) /\ Holds("symbols", muxed, Tail(queue), next)
  <2>1. Places("symbols", queue, at) /\ Holds("symbols", muxed, queue, at)
    BY DEF BurstsAt
  <2>2. next = [k \in 1 .. Len(queue) |-> at[k + 1]] /\ Len(queue) > 0 /\ "symbols" \in Forms
    BY <1>1, <1>2
  <2> QED BY <1>2, <2>1, <2>2, PacketLeaves
<1>6. Holds("samples", filtered, Tail(queue), SampleAt(next, f)')
  <2>1. SamplesLie(at, Len(filtered), "samples", filtered)
    BY SamplesThere
  <2>2. PICK sat : sat = SampleAt(at, f)
    OBVIOUS
  <2>3. Places("samples", queue, sat) /\ Holds("samples", filtered, queue, sat)
    BY <1>1, <2>1, <2>2 DEF SamplesLie
  <2>4. PICK to : to = [k \in 1 .. Len(queue) |-> sat[k + 1]]
    OBVIOUS
  <2>5. "samples" \in Forms /\ Len(queue) > 0
    BY <1>1, <1>2
  <2>6. Holds("samples", filtered, Tail(queue), to)
    BY <1>2, <2>3, <2>4, <2>5, PacketLeaves
  <2>7. to = SampleAt(next, f)'
    BY <1>1, <1>4, <2>2, <2>4
  <2> QED BY <2>6, <2>7
<1>7. Holds("scaled", z, Tail(queue), SampleAt(next, c)')
  <2>1. PICK zat : zat = SampleAt(at, c)
    OBVIOUS
  <2>2. Places("scaled", queue, zat) /\ Holds("scaled", z, queue, zat)
    BY <1>1, <2>1
  <2>3. PICK to : to = [k \in 1 .. Len(queue) |-> zat[k + 1]]
    OBVIOUS
  <2>4. "scaled" \in Forms /\ Len(queue) > 0
    BY <1>1, <1>2
  <2>5. Holds("scaled", z, Tail(queue), to)
    BY <1>2, <2>2, <2>3, <2>4, PacketLeaves
  <2>6. to = SampleAt(next, c)'
    <3>1. SampleAt(next, c)' = [k \in 1 .. m |-> SampleAt(at, c)[k + 1]]
      BY <1>4
    <3>2. m = Len(queue)
      BY <1>1
    <3> QED BY <2>1, <2>3, <3>1, <3>2
  <2> QED BY <2>5, <2>6
<1>8. (next[1] * Interpolation + (Len(filtered) + Len(scaled)) = 0 - Sent)'
  <2>1. next[1] = at[2]
    BY <1>2
  <2>2. next[1] * Interpolation + (Len(filtered') + Len(scaled')) = 0 - Sent'
    BY <1>3, <2>1
  <2> QED BY <2>2
<1>9. /\ SampleAt(next, Len(filtered))' = SampleAt(next, f)'
      /\ SampleAt(next, Len(filtered) + Len(scaled))' = SampleAt(next, c)'
  BY <1>1, <1>3 DEF SampleAt
<1>10. /\ Places("symbols", queue', next) /\ Holds("symbols", muxed', queue', next)
       /\ Holds("samples", filtered', queue', SampleAt(next, Len(filtered))')
       /\ Holds("scaled", scaled', queue', SampleAt(next, Len(filtered) + Len(scaled))')
  BY <1>1, <1>3, <1>5, <1>6, <1>7, <1>9
<1> QED BY <1>8, <1>10 DEF BurstsAt

(* The history of the filter, the same. *)
LEMMA HistoryFollows ==
  ASSUME Types, NEW at, HistoryAt(at), BurstLeaves,
         NEW next, next = [k \in 1 .. Q |-> at[k + 1]]
  PROVE  HistoryAt(next)'
<1>1. /\ Q \in Nat /\ Q > 0 /\ Q' = Q - 1 /\ history' = history
      /\ \A k \in 1 .. Q - 1 : queue'[k] = queue[k + 1]
  BY TypeFacts, QueueLeaves DEF BurstLeaves
<1>2. ASSUME NEW k \in 1 .. Q' + 1, Filtering(next, k)'
      PROVE  Remembers(history, queue'[k], 0 - next[k])
  <2>1. PICK l : l = k + 1 /\ l \in 1 .. Q + 1 /\ k \in 1 .. Q /\ next[k] = at[l]
    BY <1>1
  <2>2. CASE k <= Q - 1
    <3>1. k \in 1 .. Q - 1 /\ k + 1 \in 1 .. Q /\ l <= Q /\ next[k + 1] = at[l + 1]
      BY <1>1, <2>1, <2>2
    <3>2. next[k] <= 0 /\ next[k + 1] > 0
      BY <1>1, <1>2, <2>2 DEF Filtering
    <3>3. Filtering(at, l)
      BY <2>1, <3>1, <3>2 DEF Filtering
    <3>4. Remembers(history, queue[l], 0 - at[l])
      BY <2>1, <3>3 DEF HistoryAt
    <3> QED BY <1>1, <2>1, <3>1, <3>4
  <2>3. CASE ~(k <= Q - 1)
    <3>1. l = Q + 1 /\ ~(l <= Q)
      BY <1>1, <2>1, <2>3
    <3>2. next[k] = 0
      BY <1>1, <1>2, <2>3 DEF Filtering
    <3>3. Filtering(at, l)
      BY <2>1, <3>1, <3>2 DEF Filtering
    <3>4. 0 - at[l] = 0
      BY <2>1, <3>2
    <3>5. Remembers(history, queue[l], 0)
      BY <2>1, <3>3, <3>4 DEF HistoryAt
    <3> QED BY <2>1, <3>4, <3>5, NothingYet
  <2> QED BY <2>2, <2>3
<1>3. ASSUME NEW k \in 1 .. Q' + 1
      PROVE  (Filtering(next, k) => Remembers(history, queue[k], 0 - next[k]))'
  <2>1. (Filtering(next, k) => Remembers(history, queue[k], 0 - next[k]))'
          <=> (Filtering(next, k)' => Remembers(history', queue'[k], 0 - next[k]))
    BY DEF Remembers
  <2> QED BY <1>1, <1>2, <2>1
<1> QED BY <1>3 DEF HistoryAt

(* The link of the packets, the same. *)
LEMMA PacketsFollow ==
  ASSUME Types, NEW pat, NEW j \in 2 .. Q + 1, PacketsAt(pat, j), BurstLeaves,
         NEW next, next = [k \in 1 .. Q |-> pat[k + 1]]
  PROVE  PacketsAt(next, j - 1)'
<1>1. /\ Q \in Nat /\ Q > 0 /\ Q' = Q - 1 /\ queue' = Tail(queue)
      /\ Q = Len(queue) /\ queue \in Seq(Packets) /\ "packet" \in Forms
      /\ UNCHANGED <<packet, place, packets, mux_vars>>
  BY TypeFacts, QueueLeaves DEF BurstLeaves, Types, Q, Forms, packet_vars
<1>2. /\ Places("packet", queue, pat) /\ Holds("packet", packets, queue, pat)
      /\ pat[j] = 0 - MuxPart(2) /\ Len(packets) = pat[Q + 1] - Coming
  BY DEF PacketsAt
<1>3. Places("packet", Tail(queue), next) /\ Holds("packet", packets, Tail(queue), next)
  BY <1>1, <1>2, PacketLeaves
<1>4. next[j - 1] = pat[j] /\ next[Q' + 1] = pat[Q + 1]
  BY <1>1
<1>5. MuxPart(2)' = MuxPart(2) /\ Coming' = Coming
  BY <1>1, PartsStay DEF Coming
<1> QED BY <1>1, <1>2, <1>3, <1>4, <1>5 DEF PacketsAt

(* The rows of the other parts, the same. *)
LEMMA RowsFollow ==
  ASSUME Types, NEW j \in 2 .. Q + 1, RowsAt(j), BurstLeaves
  PROVE  RowsAt(j - 1)'
<1>1. /\ Q \in Nat /\ Q > 0 /\ Q' = Q - 1
      /\ \A k \in 1 .. Q - 1 : queue'[k] = queue[k + 1]
      /\ UNCHANGED <<packet, mux_vars, syncword, sync_id, sync_position,
                     ramp_down, ramp_id, ramp_count, flush, flush_count>>
  BY TypeFacts, QueueLeaves DEF BurstLeaves, packet_vars, sync_vars, ramp_vars, flush_vars
<1>2. IdAt(j - 1)' = IdAt(j)
  <2>1. IdAt(j - 1)' = IF j - 1 <= Q' THEN queue'[j - 1].id ELSE NextId(packet'.id)
    BY DEF IdAt, NextId
  <2>2. CASE j <= Q
    <3>1. j - 1 \in 1 .. Q - 1 /\ j - 1 <= Q' /\ (j - 1) + 1 = j
      BY <1>1, <2>2
    <3>2. queue'[j - 1] = queue[j]
      BY <1>1, <3>1
    <3> QED BY <2>1, <2>2, <3>1, <3>2 DEF IdAt
  <2>3. CASE ~(j <= Q)
    <3>1. ~(j - 1 <= Q')
      BY <1>1, <2>3
    <3> QED BY <1>1, <2>1, <2>3, <3>1 DEF IdAt
  <2> QED BY <2>2, <2>3
<1>3. MuxPart(1)' = MuxPart(1) /\ MuxPart(3)' = MuxPart(3) /\ MuxPart(4)' = MuxPart(4)
  BY <1>1, PartsStay
<1> QED BY <1>1, <1>2, <1>3 DEF RowsAt, RowAt, ZerosAt

(* The multiplexer, the same. *)
LEMMA MuxFollows ==
  ASSUME Types, NEW at, NEW j \in 2 .. Q + 1, MuxAt(at, j), BurstLeaves,
         NEW next, next = [k \in 1 .. Q |-> at[k + 1]]
  PROVE  MuxAt(next, j - 1)'
<1>1. /\ Q \in Nat /\ Q > 0 /\ Q' = Q - 1
      /\ \A k \in 1 .. Q - 1 : queue'[k] = queue[k + 1]
      /\ UNCHANGED <<mux_vars, muxed>>
  BY TypeFacts, QueueLeaves DEF BurstLeaves
<1>2. j - 1 \in 1 .. Q' + 1 /\ next[j - 1] = at[j]
  BY <1>1
<1>3. MuxSent' = MuxSent
  BY <1>1, PartsStay
<1>4. next[j - 1] + MuxSent' = Len(muxed')
  BY <1>1, <1>2, <1>3 DEF MuxAt
<1>5. ASSUME mux_packet_lens' # <<>>
      PROVE  /\ j - 1 <= Q' /\ mux_packet_lens' = PartSizes(queue'[j - 1])
             /\ mux_current_input' \in 1 .. 4
             /\ mux_remaining' \in 1 .. mux_packet_lens'[mux_current_input']
             /\ MuxSent' > 0
  <2>1. UNCHANGED <<mux_packet_lens, mux_current_input, mux_remaining>>
    BY <1>1 DEF mux_vars
  <2>2. /\ j <= Q /\ mux_packet_lens = PartSizes(queue[j])
        /\ mux_current_input \in 1 .. 4
        /\ mux_remaining \in 1 .. mux_packet_lens[mux_current_input]
        /\ MuxSent > 0
    BY <1>5, <2>1 DEF MuxAt
  <2>3. j - 1 \in 1 .. Q - 1 /\ (j - 1) + 1 = j /\ j - 1 <= Q'
    BY <1>1, <2>2
  <2>4. queue'[j - 1] = queue[j]
    BY <1>1, <2>3
  <2> QED BY <1>3, <2>1, <2>2, <2>3, <2>4
<1>6. (mux_packet_lens # <<>> =>
        /\ j - 1 <= Q /\ mux_packet_lens = PartSizes(queue[j - 1])
        /\ mux_current_input \in 1 .. 4
        /\ mux_remaining \in 1 .. mux_packet_lens[mux_current_input]
        /\ MuxSent > 0)'
  BY <1>5 DEF PartSizes
<1> QED BY <1>2, <1>4, <1>6 DEF MuxAt

(* The order of the identities, the same: symbols of a packet are to come  *)
(* only while it is in the queue.                                          *)
LEMMA ChainFollows ==
  ASSUME Types, Chain, NEW at, NEW pat, NEW j \in 2 .. Q + 1,
         MuxAt(at, j), PacketsAt(pat, j), BurstLeaves
  PROVE  Chain'
<1>1. /\ Q \in Nat /\ Q > 0 /\ Q' = Q - 1 /\ Coming \in Nat /\ Len(packets) \in Nat
      /\ \A k \in 1 .. Q - 1 : queue'[k] = queue[k + 1]
      /\ UNCHANGED <<packet, place>>
  BY TypeFacts, QueueLeaves DEF BurstLeaves, packet_vars
<1>2. ASSUME NEW k \in 1 .. Q' - 1
      PROVE  queue'[k + 1].id = NextId(queue'[k].id)
  <2>1. k \in 1 .. Q - 1 /\ k + 1 \in 1 .. Q - 1
    BY <1>1
  <2> QED BY <1>1, <2>1 DEF Chain
<1>3. ASSUME Q' > 0
      PROVE  queue'[Q'] = packet'
  <2>1. Q' \in 1 .. Q - 1 /\ Q' + 1 = Q
    BY <1>1, <1>3
  <2> QED BY <1>1, <2>1 DEF Chain
<1>4. Coming' = Coming
  BY <1>1 DEF Coming
<1>5. Coming' > 0 => Q' > 0
  <2>1. SUFFICES ASSUME Coming > 0, Q = 1 PROVE FALSE
    BY <1>1, <1>4
  <2>2. j = 2 /\ Q + 1 = 2
    BY <1>1, <2>1
  <2>3. mux_packet_lens = <<>>
    BY <2>1, <2>2 DEF MuxAt
  <2>4. MuxPart(2) = 0
    BY <2>3, MuxParts
  <2>5. pat[2] = 0 - 0 /\ Len(packets) = pat[2] - Coming
    BY <2>2, <2>4 DEF PacketsAt
  <2> QED BY <1>1, <2>1, <2>5
<1>6. (\A k \in 1 .. Q - 1 : queue[k + 1].id = NextId(queue[k].id))'
  BY <1>2 DEF NextId
<1> QED BY <1>3, <1>5, <1>6 DEF Chain

(* At the end of a burst. *)
LEMMA ShapeEnds ==
  ASSUME Types, Chain, ShaperInBurst, NEW at, NEW pat, NEW j, InPlace(at, pat, j),
         NEW n \in Nat, n > 0, SendsNext(n), ShapeLeaves, shaper_remaining' = 0
  PROVE  BurstInv' /\ Sent' = 0 /\ Sent + n = BurstSize(queue[1]) * Interpolation
<1>1. /\ BurstsAt(at) /\ HistoryAt(at) /\ MuxAt(at, j) /\ PacketsAt(pat, j) /\ RowsAt(j)
  BY DEF InPlace
<1>2. Types' /\ Len(scaled') = Len(scaled) - n
  BY ShapedTypes
<1>3. Sent' = 0
  BY DEF Sent
<1>4. BurstLeaves
  BY <1>3 DEF SendsNext, ShapeLeaves, BurstLeaves
<1>5. Q > 0 /\ n <= Len(scaled) /\ scaled' = From(scaled, n)
  BY DEF SendsNext
<1>6. Sent + n = BurstSize(queue[1]) * Interpolation
  <2>1. queue[1] \in Packets /\ Sent \in Nat
    BY <1>1, <1>5, TypeFacts, BurstPlaces
  <2>2. PICK size, sent \in Nat : size = BurstSize(queue[1]) * Interpolation /\ sent = Sent
    BY <2>1, PacketSizes
  <2>3. 0 = size - (sent + n)
    BY <2>2 DEF SendsNext
  <2>4. sent + n = size
    BY <2>3
  <2> QED BY <2>2, <2>4
<1>7. /\ j \in 2 .. Q + 1
      /\ at[2] * Interpolation + (Len(filtered) + Len(scaled')) = 0
  BY <1>1, <1>2, <1>5, <1>6, MuxIsBeyond
<1>8. PICK next, nextp : /\ next = [k \in 1 .. Q |-> at[k + 1]]
                         /\ nextp = [k \in 1 .. Q |-> pat[k + 1]]
  OBVIOUS
<1>9. BurstsAt(next)'
  <2>1. PICK c : c = Len(filtered) + (Len(scaled) - n)
    OBVIOUS
  <2>2. /\ Holds("scaled", From(scaled, n), queue, SampleAt(at, c))
        /\ Places("scaled", queue, SampleAt(at, c))
    BY <1>1, <1>5, <2>1, ScaledTaken
  <2>3. c = Len(filtered) + Len(scaled')
    BY <1>2, <2>1
  <2>4. /\ Holds("scaled", scaled', queue, SampleAt(at, Len(filtered) + Len(scaled')))
        /\ Places("scaled", queue, SampleAt(at, Len(filtered) + Len(scaled')))
    BY <1>5, <2>2, <2>3
  <2> QED BY <1>1, <1>4, <1>7, <1>8, <2>4, BurstsFollow
<1>10. HistoryAt(next)'
  BY <1>1, <1>4, <1>8, HistoryFollows
<1>11. MuxAt(next, j - 1)'
  BY <1>1, <1>4, <1>7, <1>8, MuxFollows
<1>12. PacketsAt(nextp, j - 1)'
  BY <1>1, <1>4, <1>7, <1>8, PacketsFollow
<1>13. RowsAt(j - 1)'
  BY <1>1, <1>4, <1>7, RowsFollow
<1>14. Chain'
  BY <1>1, <1>4, <1>7, ChainFollows
<1>15. ShaperInBurst'
  BY DEF ShaperInBurst
<1>16. PICK i : i = j - 1
  OBVIOUS
<1>17. InPlace(next, nextp, i)'
  BY <1>9, <1>10, <1>11, <1>12, <1>13, <1>16 DEF InPlace
<1> QED BY <1>2, <1>3, <1>6, <1>14, <1>15, <1>17 DEF BurstInv

(* One call of the shaper keeps the invariant, and it sends the next       *)
(* samples of the first burst.                                             *)
LEMMA ShapeKeeps ==
  ASSUME BurstInv, NEW n \in 1 .. ScaledCapacity, Shape(n)
  PROVE  BurstInv' /\ queue # <<>> /\ Transmission!Send
<1>1. PICK at, pat, j : InPlace(at, pat, j) /\ Types /\ Chain /\ ShaperInBurst
  BY DEF BurstInv
<1>2. BurstsAt(at) /\ MuxAt(at, j)
  BY <1>1 DEF InPlace
<1>3. n \in Nat /\ n > 0
  BY Sizes
<1>4. SendsNext(n)
  BY <1>1, <1>2, ShapeCalls
<1>5. ShapeLeaves
  BY DEF Shape, ShapeLeaves
<1>6. /\ queue # <<>> /\ queue[1] = Head(queue) /\ queue[1] \in Packets
  <2>1. queue \in Seq(Packets) /\ Len(queue) > 0
    BY <1>1, <1>4 DEF Types, SendsNext, Q
  <2> QED BY <2>1, HeadAndTail
<1>7. PICK p \in Packets : p = Head(queue) /\ p = queue[1]
  BY <1>6
<1>8. PICK size, sent \in Nat :
        /\ size = BurstSize(p) * Interpolation /\ size = Transmission!Size(p)
        /\ sent = Sent
  <2>1. Sent \in Nat
    BY <1>1, <1>2, BurstPlaces
  <2> QED BY <1>7, <2>1, SizeIs
<1>9. /\ sent + n <= size /\ Len(out') = n
      /\ out' = [i \in 1 .. n |-> Transmission!Sample(p, sent + i)]
      /\ shaper_remaining' = size - (sent + n)
      /\ queue' = IF shaper_remaining' = 0 THEN Tail(queue) ELSE queue
  BY <1>4, <1>7, <1>8 DEF SendsNext
<1>10. /\ BurstInv'
       /\ Sent' = IF sent + n = size THEN 0 ELSE sent + n
  <2>1. CASE shaper_remaining' = 0
    <3>1. BurstInv' /\ Sent' = 0
      BY <1>1, <1>3, <1>4, <1>5, <2>1, ShapeEnds
    <3>2. sent + n = size
      BY <1>8, <1>9, <2>1
    <3> QED BY <3>1, <3>2
  <2>2. CASE shaper_remaining' # 0
    <3>1. BurstInv' /\ Sent' = Sent + n
      BY <1>1, <1>3, <1>4, <1>5, <2>2, ShapeGoesOn
    <3>2. sent + n # size
      BY <1>8, <1>9, <2>2
    <3> QED BY <1>8, <3>1, <3>2
  <2> QED BY <2>1, <2>2
<1>11. shaper_remaining' = 0 <=> sent + n = size
  BY <1>8, <1>9
<1>12. Transmission!Send
  <2>1. IF sent + n = size
          THEN queue' = Tail(queue) /\ Sent' = 0
          ELSE Sent' = sent + n /\ UNCHANGED queue
    BY <1>9, <1>10, <1>11
  <2>2. sent = IF shaper_remaining = 0 THEN 0 ELSE shaper_packet_len - shaper_remaining
    BY <1>8 DEF Sent
  <2>3. Sent' = (IF shaper_remaining = 0 THEN 0 ELSE shaper_packet_len - shaper_remaining)'
    BY DEF Sent
  <2> QED BY <1>3, <1>7, <1>8, <1>9, <2>1, <2>2, <2>3 DEF Transmission!Send
<1> QED BY <1>6, <1>10, <1>12

-----------------------------------------------------------------------------
(* Every step keeps the invariant and is a step of what is promised: a     *)
(* packet that begins is accepted, a call of the shaper sends samples, and *)
(* the other blocks change nothing that can be seen.                       *)
LEMMA StepKeeps ==
  ASSUME BurstInv, [Next]_vars
  PROVE  BurstInv' /\ [Transmission!Next]_(Transmission!vars)
<1> DEFINE Promised == [Transmission!Next]_(Transmission!vars)
<1>1. UNCHANGED <<queue, out, shaper_vars>> => Promised
  BY DEF Transmission!vars, shaper_vars
<1>2. CASE SyncwordStep
  <2>1. PICK space \in 1 .. SyncwordCapacity : Syncword(space)
    BY <1>2 DEF SyncwordStep
  <2>2. UNCHANGED <<queue, out, shaper_vars>>
    BY <2>1 DEF Syncword
  <2> QED BY <1>1, <2>1, <2>2, SyncwordKeeps
<1>3. CASE PacketStep
  <2>1. PICK len \in Lengths : Packet(len)
    BY <1>3 DEF PacketStep
  <2>2. UNCHANGED <<out, shaper_vars>>
    BY <2>1 DEF Packet
  <2>3. CASE place = packet.len
    <3>1. BurstInv' /\ packet' \in Packets /\ queue' = Append(queue, packet')
      BY <2>1, <2>3, PacketBegins
    <3>2. Transmission!Accept(packet')
      BY <2>2, <3>1 DEF Transmission!Accept, shaper_vars
    <3>3. Promised
      BY <3>1, <3>2 DEF Transmission!Next
    <3> QED BY <3>1, <3>3
  <2>4. CASE place # packet.len
    <3>1. BurstInv' /\ UNCHANGED queue
      BY <2>1, <2>4, PacketGoesOn
    <3> QED BY <1>1, <2>2, <3>1
  <2> QED BY <2>3, <2>4
<1>4. CASE RampDownStep
  <2>1. PICK n \in 1 .. RampDownCapacity : RampDown(n)
    BY <1>4 DEF RampDownStep
  <2>2. UNCHANGED <<queue, out, shaper_vars>>
    BY <2>1 DEF RampDown
  <2> QED BY <1>1, <2>1, <2>2, RampDownKeeps
<1>5. CASE FlushStep
  <2>1. PICK n \in 1 .. FlushCapacity : Flush(n)
    BY <1>5 DEF FlushStep
  <2>2. UNCHANGED <<queue, out, shaper_vars>>
    BY <2>1 DEF Flush
  <2> QED BY <1>1, <2>1, <2>2, FlushKeeps
<1>6. CASE MuxStep
  BY <1>1, <1>6, MuxKeeps DEF MuxStep
<1>7. CASE FilterStep
  BY <1>1, <1>7, FilterKeeps DEF FilterStep
<1>8. CASE ScaleStep
  BY <1>1, <1>8, ScaleKeeps DEF ScaleStep
<1>9. CASE ShapeStep
  <2>1. PICK n \in 1 .. ScaledCapacity : Shape(n)
    BY <1>9 DEF ShapeStep
  <2>2. BurstInv' /\ queue # <<>> /\ Transmission!Send
    BY <2>1, ShapeKeeps
  <2>3. Promised
    BY <2>2 DEF Transmission!Next
  <2> QED BY <2>2, <2>3
<1>10. CASE UNCHANGED vars
  <2>1. UNCHANGED <<sync_vars, packet_vars, ramp_vars, flush_vars, mux_vars, muxed,
                    history, filtered, scaled, shaper_vars, queue, out>>
    BY <1>10 DEF vars
  <2>2. BurstInv'
    BY <2>1, WaitKeeps
  <2> QED BY <1>1, <2>1, <2>2
<1>11. CASE Next
  BY <1>2, <1>3, <1>4, <1>5, <1>6, <1>7, <1>8, <1>9, <1>11 DEF Next
<1> QED BY <1>10, <1>11

(* The invariant holds, for every filter, every size of the parts, every   *)
(* set of lengths and every capacity of the links.                         *)
THEOREM BurstInvHolds == Spec => []BurstInv
<1>1. BurstInv /\ [Next]_vars => BurstInv'
  BY StepKeeps
<1> QED BY InitHolds, <1>1, PTL DEF Spec

(* No block stops: every input of the multiplexer begins its packets with  *)
(* the tag it asks for, and so does what comes to the shaper.              *)
THEOREM NoBlockFailsHolds == Spec => []NoBlockFails
<1>1. BurstInv => NoBlockFails
  BY DEF BurstInv, Types
<1> QED BY BurstInvHolds, <1>1, PTL

(* What leaves is one burst for every packet, in order, whole, filtered    *)
(* without a trace of the burst before, with the right length and under    *)
(* the right envelope.                                                     *)
THEOREM BurstsAreWholeHolds == Spec => BurstsAreWhole
<1>1. Init => Transmission!Init
  BY DEF Init, SHAPER!StreamInit, Transmission!Init
<1>2. BurstInv /\ [Next]_vars => [Transmission!Next]_(Transmission!vars)
  BY StepKeeps
<1> QED BY BurstInvHolds, <1>1, <1>2, PTL DEF Spec, BurstsAreWhole, Transmission!Spec
=============================================================================
