------------------------- MODULE SymbolDecoding_proofs -------------------------
(***************************************************************************)
(* Proofs about the chain of symbols of the receiver, for every value of   *)
(* its constants: SymbolsOfOwnPacket and DescramblesInStep.                *)
(*                                                                         *)
(* The chain keeps ChainInv.  On each link every item follows the one      *)
(* before as in the packets, and the counters of each block follow from    *)
(* the last symbol that it took (WipeKeeps, TrackKeeps, DropKeeps,         *)
(* DecodeKeeps).  The register of the scrambler is where that of the PDU   *)
(* is behind the last bit it took: ScrambleFolds unfolds its calls, and    *)
(* DescramblesAll compares the two.                                        *)
(***************************************************************************)
EXTENDS MCReceiverBlocks_proofs

(* The symbols and their tags.                                             *)

(* The symbols, and the tags of those that have one. *)
ChainSymbols ==
  {s \in [packet : Nat, part : {"syncword", "header", "payload", "noise"}, place : Nat \ {0}] :
     /\ s.part = "syncword" => s.place <= ChainSyncword
     /\ s.part = "header" => s.place <= ChainHeader}
ChainTags == {"none", "detection", "header", "payload"}

(* The next symbol in the packets after another. *)
Succeeds(a, b) ==
  \/ b.part = "syncword" /\ b.place = 1 /\ a.part # "syncword"
  \/ b.packet = a.packet /\ b.part = a.part /\ b.place = a.place + 1
  \/ /\ b.packet = a.packet /\ b.place = 1
     /\ \/ b.part = "header" /\ a.part = "syncword" /\ a.place = ChainSyncword
        \/ b.part = "payload" /\ a.part = "header" /\ a.place = ChainHeader

(* Twice the symbols before it that are decoded. *)
Base(s) == 2 * (s.place - 1 + (IF s.part = "payload" THEN ChainHeader ELSE 0))

(* The next of those that are decoded. *)
DecodedAfter(a, b) ==
  \/ b.part = "header" /\ b.place = 1
  \/ a.part # "noise" /\ Base(b) = Base(a) + 2

(* What a symbol is multiplied by. *)
OwnFactor(s) == IF s.part = "syncword" THEN s.place ELSE 0

(* The items of the links, as they should be. *)
Wipeds ==
  {x \in [symbol : ChainSymbols, tag : ChainTags, factor : Nat] :
     /\ x.symbol.part # "noise" /\ x.tag = DEC!TagOf(x.symbol)
     /\ x.factor = OwnFactor(x.symbol)}
Trackings == [phase : Nat, constellation : {"BPSK", "QPSK", "PILOT"}]
Trackeds ==
  {x \in [symbol : ChainSymbols, tag : ChainTags, factor : Nat, tracking : Trackings] :
     /\ x.symbol.part # "noise" /\ x.tag = DEC!TagOf(x.symbol)
     /\ x.factor = OwnFactor(x.symbol)
     /\ x.tracking.phase = x.symbol.packet
     /\ x.tracking.constellation = IF x.symbol.part = "syncword" THEN "PILOT" ELSE "QPSK"}
Removeds ==
  {x \in [symbol : ChainSymbols, tag : ChainTags] :
     x.symbol.part \in {"header", "payload"} /\ x.tag = DEC!TagOf(x.symbol)}
Softs ==
  {x \in [symbol : ChainSymbols, bit : 1 .. 2, tag : ChainTags] :
     /\ x.symbol.part \in {"header", "payload"}
     /\ x.tag = IF x.bit = 1 THEN DEC!TagOf(x.symbol) ELSE "none"}

(* The pairs of symbols that may meet in a link. *)
InStream == {p \in ChainSymbols \X ChainSymbols : Succeeds(p[1], p[2])}
InDecoded == {p \in ChainSymbols \X ChainSymbols : DecodedAfter(p[1], p[2])}

(* The symbols of a link come after a, each after the other; the last one. *)
Joined(pairs, a, l) ==
  \A i \in 1 .. Len(l) : <<IF i = 1 THEN a ELSE l[i - 1].symbol, l[i].symbol>> \in pairs
LastOf(a, l) == IF Len(l) = 0 THEN a ELSE l[Len(l)].symbol

(* The soft bits of a link come after place p; the place of the last one. *)
JoinedBits(p, l) ==
  \A i \in 1 .. Len(l) :
    DEC!PlaceOf(l[i]) =
      IF l[i].tag = "header" THEN 1 ELSE (IF i = 1 THEN p ELSE DEC!PlaceOf(l[i - 1])) + 1
LastPlace(p, l) == IF Len(l) = 0 THEN p ELSE DEC!PlaceOf(l[Len(l)])

(* The constants. *)
LEMMA ChainSizes ==
  /\ ChainSyncword \in Nat /\ ChainSyncword > 0 /\ ChainHeader \in Nat /\ ChainHeader > 0
  /\ ChainLengths \subseteq Nat /\ NumIds \in Nat /\ NumIds > 0
  /\ Capacity \in Nat /\ SoftCapacity \in Nat
BY BlocksAssumption DEF DEC!DecodingAssumption

(* What is left of a link. *)
LEMMA RestIs ==
  ASSUME NEW X, NEW l \in Seq(X), NEW n \in 0 .. Len(l)
  PROVE  /\ DEC!Rest(l, n) \in Seq(X) /\ Len(DEC!Rest(l, n)) = Len(l) - n
         /\ \A i \in 1 .. Len(l) - n : DEC!Rest(l, n)[i] = l[n + i]
<1>1. PICK k \in Nat : k = Len(l)
  OBVIOUS
<1>2. n + 1 \in 1 .. k + 1 /\ n \in Nat
  BY <1>1
<1>3. \A i \in n + 1 .. k : l[i] \in X
  BY <1>1
<1>4. SubSeq(l, n + 1, k) \in Seq(X) /\ Len(SubSeq(l, n + 1, k)) = k - n
  BY <1>1, <1>2, <1>3
<1>5. ASSUME NEW i \in 1 .. k - n
      PROVE  SubSeq(l, n + 1, k)[i] = l[n + i]
  BY <1>1, <1>2
<1> QED BY <1>1, <1>4, <1>5 DEF DEC!Rest

(* Two links in a row. *)
LEMMA ConcatIs ==
  ASSUME NEW X, NEW l \in Seq(X), NEW m \in Seq(X)
  PROVE  /\ l \o m \in Seq(X) /\ Len(l \o m) = Len(l) + Len(m)
         /\ \A i \in 1 .. Len(l) : (l \o m)[i] = l[i]
         /\ \A i \in 1 .. Len(m) : (l \o m)[Len(l) + i] = m[i]
OBVIOUS

(* They are joined. *)
LEMMA JoinedOn ==
  ASSUME NEW X, NEW l \in Seq(X), NEW m \in Seq(X), NEW pairs, NEW a,
         Joined(pairs, a, l), Joined(pairs, LastOf(a, l), m)
  PROVE  Joined(pairs, a, l \o m) /\ LastOf(a, l \o m) = LastOf(LastOf(a, l), m)
<1>1. PICK k \in Nat, n \in Nat : k = Len(l) /\ n = Len(m)
  OBVIOUS
<1>2. PICK b : b = LastOf(a, l)
  OBVIOUS
<1>3. PICK z : /\ z = l \o m /\ Len(z) = k + n
               /\ \A i \in 1 .. k : z[i] = l[i]
               /\ \A i \in 1 .. n : z[k + i] = m[i]
  <2>1. /\ Len(l \o m) = Len(l) + Len(m)
        /\ \A i \in 1 .. Len(l) : (l \o m)[i] = l[i]
        /\ \A i \in 1 .. Len(m) : (l \o m)[Len(l) + i] = m[i]
    BY ConcatIs
  <2> QED BY <1>1, <2>1
<1>4. ASSUME NEW i \in 1 .. k + n
      PROVE  <<IF i = 1 THEN a ELSE z[i - 1].symbol, z[i].symbol>> \in pairs
  <2>1. CASE i <= k
    <3>1. i \in 1 .. k /\ (i # 1 => i - 1 \in 1 .. k)
      BY <2>1
    <3>2. <<IF i = 1 THEN a ELSE l[i - 1].symbol, l[i].symbol>> \in pairs
      BY <1>1, <3>1 DEF Joined
    <3>3. z[i] = l[i] /\ (i # 1 => z[i - 1] = l[i - 1])
      BY <1>3, <3>1
    <3> QED BY <3>2, <3>3
  <2>2. CASE i > k
    <3>1. PICK j \in 1 .. n : j = i - k /\ i = k + j
      BY <2>2
    <3>2. <<IF j = 1 THEN b ELSE m[j - 1].symbol, m[j].symbol>> \in pairs
      BY <1>1, <1>2 DEF Joined
    <3>3. z[i] = m[j]
      BY <1>3, <3>1
    <3>4. CASE j # 1
      <4>1. j - 1 \in 1 .. n /\ i # 1 /\ i - 1 = k + (j - 1)
        BY <3>1, <3>4
      <4>2. z[i - 1] = m[j - 1]
        BY <1>3, <4>1
      <4> QED BY <3>2, <3>3, <3>4, <4>1, <4>2
    <3>5. CASE j = 1 /\ k = 0
      <4>1. b = a /\ i = 1
        BY <1>1, <1>2, <3>1, <3>5 DEF LastOf
      <4> QED BY <3>2, <3>3, <3>5, <4>1
    <3>6. CASE j = 1 /\ k # 0
      <4>1. b = l[k].symbol /\ i - 1 = k /\ k \in 1 .. k /\ i # 1
        BY <1>1, <1>2, <3>1, <3>6 DEF LastOf
      <4>2. z[i - 1] = l[k]
        BY <1>3, <4>1
      <4> QED BY <3>2, <3>3, <3>6, <4>1, <4>2
    <3> QED BY <3>4, <3>5, <3>6
  <2> QED BY <2>1, <2>2
<1>5. Joined(pairs, a, z)
  BY <1>3, <1>4 DEF Joined
<1>6. LastOf(a, z) = LastOf(b, m)
  <2>1. CASE n = 0 /\ k = 0
    BY <1>1, <1>2, <1>3, <2>1 DEF LastOf
  <2>2. CASE n = 0 /\ k # 0
    <3>1. k \in 1 .. k /\ Len(z) = k
      BY <1>3, <2>2
    <3> QED BY <1>1, <1>2, <1>3, <2>2, <3>1 DEF LastOf
  <2>3. CASE n # 0
    <3>1. n \in 1 .. n /\ k + n # 0
      BY <2>3
    <3> QED BY <1>1, <1>3, <2>3, <3>1 DEF LastOf
  <2> QED BY <2>1, <2>2, <2>3
<1> QED BY <1>2, <1>3, <1>5, <1>6

(* The rest of a link is joined to what was taken from it. *)
LEMMA JoinedRest ==
  ASSUME NEW X, NEW l \in Seq(X), NEW pairs, NEW a, Joined(pairs, a, l), NEW n \in 1 .. Len(l)
  PROVE  /\ Joined(pairs, l[n].symbol, DEC!Rest(l, n))
         /\ LastOf(l[n].symbol, DEC!Rest(l, n)) = LastOf(a, l)
<1>1. PICK k \in Nat : k = Len(l) /\ n \in 1 .. k /\ n \in 0 .. Len(l)
  OBVIOUS
<1>2. PICK r : /\ r = DEC!Rest(l, n) /\ Len(r) = k - n
               /\ \A i \in 1 .. k - n : r[i] = l[n + i]
  <2>1. /\ Len(DEC!Rest(l, n)) = Len(l) - n
        /\ \A i \in 1 .. Len(l) - n : DEC!Rest(l, n)[i] = l[n + i]
    BY <1>1, RestIs
  <2> QED BY <1>1, <2>1
<1>3. ASSUME NEW i \in 1 .. k - n
      PROVE  <<IF i = 1 THEN l[n].symbol ELSE r[i - 1].symbol, r[i].symbol>> \in pairs
  <2>1. n + i \in 1 .. k /\ n + i # 1 /\ (i # 1 => i - 1 \in 1 .. k - n /\ n + (i - 1) = n + i - 1)
        /\ (i = 1 => n + i - 1 = n)
    BY <1>1
  <2>2. <<l[n + i - 1].symbol, l[n + i].symbol>> \in pairs
    BY <1>1, <2>1 DEF Joined
  <2>3. r[i] = l[n + i] /\ (i # 1 => r[i - 1] = l[n + i - 1])
    BY <1>2, <2>1
  <2> QED BY <2>1, <2>2, <2>3
<1>4. Joined(pairs, l[n].symbol, r)
  BY <1>2, <1>3 DEF Joined
<1>5. LastOf(l[n].symbol, r) = LastOf(a, l)
  <2>1. CASE k = n
    BY <1>1, <1>2, <2>1 DEF LastOf
  <2>2. CASE k # n
    <3>1. k - n \in 1 .. k - n /\ n + (k - n) = k /\ k # 0 /\ k - n # 0
      BY <1>1, <2>2
    <3>2. r[k - n] = l[k]
      BY <1>2, <3>1
    <3> QED BY <1>1, <1>2, <3>1, <3>2 DEF LastOf
  <2> QED BY <2>1, <2>2
<1> QED BY <1>2, <1>4, <1>5

(* The next symbol, if it is no detection. *)
LEMMA NextSymbol ==
  ASSUME NEW s \in ChainSymbols, NEW len \in Nat, NEW b, b = DEC!After(s, len)
  PROVE  /\ b \in ChainSymbols /\ b.packet = s.packet
         /\ s.part = "noise" => b.part = "noise"
         /\ b.part = "noise" => s.part # "syncword"
         /\ b.part # "noise" => Succeeds(s, b)
         /\ s.part = "syncword" /\ s.place < ChainSyncword
              => b.part = "syncword" /\ b.place = s.place + 1
         /\ ~(s.part = "syncword" /\ s.place < ChainSyncword) => b.part # "syncword"
         /\ ~(b.part = "syncword" /\ b.place = 1)
<1>1. PICK pk \in Nat, pt \in {"syncword", "header", "payload", "noise"}, pl \in Nat \ {0} :
         /\ s = [packet |-> pk, part |-> pt, place |-> pl]
         /\ pt = "syncword" => pl <= ChainSyncword
         /\ pt = "header" => pl <= ChainHeader
  BY DEF ChainSymbols
<1>2. PICK size \in Nat :
         /\ size = DEC!SizeOf(pt, len)
         /\ pt = "syncword" => size = ChainSyncword
         /\ pt = "header" => size = ChainHeader
         /\ pt = "noise" => size = 1
  <2>1. CASE pt = "syncword"
    BY <2>1, ChainSizes DEF DEC!SizeOf
  <2>2. CASE pt = "header"
    BY <2>2, ChainSizes DEF DEC!SizeOf
  <2>3. CASE pt = "payload"
    BY <2>3 DEF DEC!SizeOf
  <2>4. CASE pt = "noise"
    BY <2>4 DEF DEC!SizeOf
  <2> QED BY <2>1, <2>2, <2>3, <2>4
<1>3. PICK next \in {"header", "payload", "noise"} :
         /\ next = DEC!PartAfter(pt, len)
         /\ pt = "syncword" => next = "header"
         /\ pt = "header" => next \in {"payload", "noise"}
         /\ pt \in {"payload", "noise"} => next = "noise"
  <2>1. CASE pt = "syncword"
    BY <2>1 DEF DEC!PartAfter
  <2>2. CASE pt = "header" /\ len > 0
    BY <2>2 DEF DEC!PartAfter
  <2>3. CASE pt = "header" /\ ~(len > 0)
    BY <2>3 DEF DEC!PartAfter
  <2>4. CASE pt \in {"payload", "noise"}
    BY <2>4 DEF DEC!PartAfter
  <2> QED BY <2>1, <2>2, <2>3, <2>4
<1>4. CASE pl < size
  <2>1. b = [packet |-> pk, part |-> pt, place |-> pl + 1]
    BY <1>1, <1>2, <1>4 DEF DEC!After
  <2>3. b \in ChainSymbols
    BY <1>1, <1>2, <1>4, <2>1 DEF ChainSymbols
  <2>4. pt # "noise"
    BY <1>2, <1>4
  <2>5. Succeeds(s, b)
    BY <1>1, <2>1 DEF Succeeds
  <2>6. ~(pl + 1 = 1)
    OBVIOUS
  <2> QED BY <1>1, <1>2, <1>4, <2>1, <2>3, <2>4, <2>5, <2>6
<1>5. CASE ~(pl < size)
  <2>1. b = [packet |-> pk, part |-> next, place |-> 1]
    BY <1>1, <1>2, <1>3, <1>5 DEF DEC!After
  <2>3. b \in ChainSymbols
    BY <2>1, ChainSizes DEF ChainSymbols
  <2>4. pt = "syncword" => pl = ChainSyncword
    BY <1>1, <1>2, <1>5, ChainSizes
  <2>5. pt = "header" => pl = ChainHeader
    BY <1>1, <1>2, <1>5, ChainSizes
  <2>6. next # "noise" => Succeeds(s, b)
    BY <1>1, <1>3, <2>1, <2>4, <2>5 DEF Succeeds
  <2>7. b.part # "syncword"
    BY <2>1
  <2>8. ~(pt = "syncword" /\ pl < ChainSyncword)
    BY <2>4, ChainSizes
  <2> QED BY <1>1, <1>3, <2>1, <2>3, <2>6, <2>7, <2>8
<1> QED BY <1>2, <1>4, <1>5

(* A detection. *)
LEMMA NextDetection ==
  ASSUME dec_last \in ChainSymbols
  PROVE  /\ DEC!Detection \in ChainSymbols
         /\ DEC!Detection.part = "syncword" /\ DEC!Detection.place = 1
<1>1. dec_last.packet \in Nat
  BY DEF ChainSymbols
<1>2. (dec_last.packet % NumIds) + 1 \in Nat
  BY <1>1, ChainSizes
<1>3. 1 <= ChainSyncword /\ 1 \in Nat \ {0}
  BY ChainSizes
<1> QED BY <1>2, <1>3 DEF DEC!Detection, ChainSymbols

(* The tags of symbols. *)
LEMMA TagIs ==
  ASSUME NEW s \in ChainSymbols
  PROVE  /\ DEC!TagOf(s) \in ChainTags
         /\ DEC!TagOf(s) = "detection" <=> s.part = "syncword" /\ s.place = 1
         /\ DEC!TagOf(s) = "header" <=> s.part = "header" /\ s.place = 1
         /\ DEC!TagOf(s) = "payload" <=> s.part = "payload" /\ s.place = 1
<1>1. s.part \in {"syncword", "header", "payload", "noise"}
  BY DEF ChainSymbols
<1>2. CASE s.place # 1 \/ s.part = "noise"
  BY <1>2 DEF DEC!TagOf, ChainTags
<1>3. CASE s.place = 1 /\ s.part = "syncword"
  BY <1>3 DEF DEC!TagOf, ChainTags
<1>4. CASE s.place = 1 /\ s.part \in {"header", "payload"}
  BY <1>4 DEF DEC!TagOf, ChainTags
<1> QED BY <1>1, <1>2, <1>3, <1>4

(* The symbols of a call as a fold. *)
LEMMA SymbolsFold ==
  ASSUME NEW first \in ChainSymbols, NEW len \in Nat, NEW n \in Nat \ {0}
  PROVE  \E w : /\ w[1] = <<first>>
                /\ \A k \in 2 .. n : w[k] = Append(w[k - 1], DEC!After(w[k - 1][Len(w[k - 1])], len))
                /\ DEC!Symbols(first, len, n) = w[n]
<1> DEFINE S == 2 .. n
           X == Seq(ChainSymbols) \ {<<>>}
           grown(x) == Append(x, DEC!After(x[Len(x)], len))
           seq == [i \in 2 .. n |-> i]
           op(it, s) == IF s = {} THEN <<first>> ELSE grown(it[s \ {DEC!Max(s)}])
           iter == CHOOSE it : it = [s \in SUBSET S |-> op(it, s)]
<1>1. DEC!Symbols(first, len, n) = iter[S]
  <2>1. DOMAIN seq = S
    OBVIOUS
  <2> QED BY <2>1 DEF DEC!Symbols, DEC!FoldLeft, DEC!MapThenFoldSet, DEC!Last
<1>2. \A s : DEC!Max(s) = Greatest(s)
  BY DEF DEC!Max, Greatest
<1>3. PICK step : step = [p \in X \X (1 .. n) |-> grown(p[1])]
  OBVIOUS
<1>4. \A x \in X : grown(x) \in X
  <2>1. ASSUME NEW x \in X
        PROVE  grown(x) \in X
    <3>1. x \in Seq(ChainSymbols) /\ Len(x) \in 1 .. Len(x)
      <4> HIDE DEF ChainSymbols
      <4> QED OBVIOUS
    <3>2. x[Len(x)] \in ChainSymbols
      BY <3>1
    <3>3. PICK y \in ChainSymbols : y = DEC!After(x[Len(x)], len)
      BY <3>2, NextSymbol
    <3>4. Append(x, y) \in Seq(ChainSymbols) /\ Append(x, y) # <<>>
      BY <3>1
    <3> QED BY <3>3, <3>4
  <2> QED BY <2>1
<1> HIDE DEF grown
<1>5. step \in [X \X (1 .. n) -> X]
  BY <1>3, <1>4
<1>6. <<first>> \in X
  OBVIOUS
<1>7. PICK v : /\ v = [s \in SUBSET S |-> FoldOver(v, s, <<first>>, step)]
               /\ \A s \in SUBSET S : v[s] \in X
  <2>1. 2 \in Nat \ {0} /\ n \in Nat
    OBVIOUS
  <2>2. \E v : FoldedFrom(v, 2, n, X, <<first>>, step)
    <3> HIDE DEF X
    <3> QED BY <1>5, <1>6, <2>1, FoldsFrom
  <2> QED BY <2>2 DEF FoldedFrom
<1>8. ASSUME NEW s \in SUBSET S
      PROVE  FoldOver(v, s, <<first>>, step) = op(v, s)
  <2>1. CASE s = {}
    BY <2>1 DEF FoldOver
  <2>2. CASE s # {}
    <3>1. s \in SUBSET (1 .. n)
      OBVIOUS
    <3>2. PICK g \in S : g = Greatest(s) /\ g \in 1 .. n
      BY <2>2, <3>1, GreatestIs
    <3>3. s \ {g} \in SUBSET S
      OBVIOUS
    <3>4. v[s \ {g}] \in X
      BY <1>7, <3>3
    <3>5. step[v[s \ {g}], g] = grown(v[s \ {g}])
      BY <1>3, <3>2, <3>4
    <3> QED BY <1>2, <2>2, <3>2, <3>5 DEF FoldOver
  <2> QED BY <2>1, <2>2
<1>9. v = [s \in SUBSET S |-> op(v, s)]
  <2>1. [s \in SUBSET S |-> op(v, s)] = [s \in SUBSET S |-> FoldOver(v, s, <<first>>, step)]
    BY <1>8
  <2> QED BY <1>7, <2>1
<1>10. iter = [s \in SUBSET S |-> op(iter, s)]
  BY <1>9
<1> HIDE DEF iter
<1>11. PICK w : w = [k \in 1 .. n |-> iter[2 .. k]]
  OBVIOUS
<1>12. w[1] = <<first>>
  <2>1. w[1] = iter[{}]
    BY <1>11
  <2>2. {} \in SUBSET S
    OBVIOUS
  <2>3. iter[{}] = op(iter, {})
    BY <1>10, <2>2
  <2> QED BY <2>1, <2>3
<1>13. ASSUME NEW k \in 2 .. n
       PROVE  w[k] = grown(w[k - 1])
  <2>1. 2 .. k \in SUBSET S /\ 2 .. k \in SUBSET (1 .. k) /\ k \in 2 .. k /\ 2 .. k # {} /\ k \in Nat
    OBVIOUS
  <2>2. Greatest(2 .. k) = k
    BY <2>1, GreatestIs
  <2>3. (2 .. k) \ {k} = 2 .. k - 1
    OBVIOUS
  <2>4. iter[2 .. k] = op(iter, 2 .. k)
    BY <1>10, <2>1
  <2>5. iter[2 .. k] = grown(iter[2 .. k - 1])
    BY <1>2, <2>1, <2>2, <2>3, <2>4
  <2>6. k - 1 \in 1 .. n /\ k \in 1 .. n
    OBVIOUS
  <2> QED BY <1>11, <2>5, <2>6
<1>14. DEC!Symbols(first, len, n) = w[n]
  BY <1>1, <1>11
<1> QED BY <1>12, <1>13, <1>14 DEF grown

(* What the symbols of a call are. *)
LEMMA SymbolsAre ==
  ASSUME NEW first \in ChainSymbols, NEW len \in Nat, NEW n \in Nat \ {0}
  PROVE  /\ DEC!Symbols(first, len, n) \in Seq(ChainSymbols) /\ Len(DEC!Symbols(first, len, n)) = n
         /\ DEC!Symbols(first, len, n)[1] = first
         /\ \A j \in 2 .. n : DEC!Symbols(first, len, n)[j] = DEC!After(DEC!Symbols(first, len, n)[j - 1], len)
<1>1. PICK w : /\ w[1] = <<first>>
               /\ \A k \in 2 .. n : w[k] = Append(w[k - 1], DEC!After(w[k - 1][Len(w[k - 1])], len))
               /\ DEC!Symbols(first, len, n) = w[n]
  BY SymbolsFold
<1> DEFINE Grown(f, k) == /\ f \in Seq(ChainSymbols) /\ Len(f) = k /\ f[1] = first
                          /\ \A j \in 2 .. k : f[j] = DEC!After(f[j - 1], len)
           Wrong == {k \in 1 .. n : ~Grown(w[k], k)}
<1>2. SUFFICES ASSUME Wrong # {}
               PROVE  FALSE
  <2>1. n \in 1 .. n /\ n \notin Wrong => Grown(w[n], n)
    OBVIOUS
  <2> QED BY <1>1, <2>1
<1>3. Wrong \subseteq Nat
  OBVIOUS
<1>4. PICK k \in Wrong : \A j \in Wrong : k <= j
  BY <1>2, <1>3, Least
<1>5. k \in 1 .. n /\ ~Grown(w[k], k)
  OBVIOUS
<1>6. CASE k = 1
  <2>1. Grown(<<first>>, 1)
    OBVIOUS
  <2> QED BY <1>1, <1>5, <1>6, <2>1
<1>7. CASE k # 1
  <2>1. k \in 2 .. n /\ k - 1 \in 1 .. n /\ k - 1 \in Nat /\ k \in Nat /\ ~(k <= k - 1)
    BY <1>5, <1>7
  <2>2. k - 1 \notin Wrong
    BY <1>4, <2>1
  <2>3. Grown(w[k - 1], k - 1)
    BY <2>1, <2>2
  <2>4. PICK f \in Seq(ChainSymbols) : f = w[k - 1] /\ Len(f) = k - 1 /\ f[1] = first
                                  /\ \A j \in 2 .. k - 1 : f[j] = DEC!After(f[j - 1], len)
    BY <2>3
  <2>5. f[k - 1] \in ChainSymbols
    BY <2>1, <2>4
  <2>6. PICK y \in ChainSymbols : y = DEC!After(f[k - 1], len)
    BY <2>5, NextSymbol
  <2>7. w[k] = Append(f, y)
    BY <1>1, <2>1, <2>4, <2>6
  <2>8. PICK g : g = Append(f, y)
    OBVIOUS
  <2>9. g \in Seq(ChainSymbols) /\ Len(g) = k /\ g[k] = y /\ \A j \in 1 .. k - 1 : g[j] = f[j]
    BY <2>1, <2>4, <2>8
  <2>10. g[1] = first
    BY <2>1, <2>4, <2>9
  <2>11. ASSUME NEW j \in 2 .. k
         PROVE  g[j] = DEC!After(g[j - 1], len)
    <3>1. j - 1 \in 1 .. k - 1
      OBVIOUS
    <3>2. CASE j = k
      BY <2>6, <2>9, <3>1, <3>2
    <3>3. CASE j # k
      <4>1. j \in 2 .. k - 1 /\ j \in 1 .. k - 1
        BY <3>3
      <4> QED BY <2>4, <2>9, <3>1, <4>1
    <3> QED BY <3>2, <3>3
  <2>12. Grown(g, k)
    BY <2>9, <2>10, <2>11
  <2> QED BY <1>5, <2>7, <2>8, <2>12
<1> QED BY <1>6, <1>7

(* The symbols of a call, each after the other. *)
Following(sy, len, n) ==
  /\ sy \in Seq(ChainSymbols) /\ Len(sy) = n
  /\ \A j \in 2 .. n : sy[j] = DEC!After(sy[j - 1], len)

(* Those in the packet are the first ones. *)
LEMMA InPacketIs ==
  ASSUME NEW len \in Nat, NEW n \in Nat \ {0}, NEW sy, Following(sy, len, n)
  PROVE  \E m \in 0 .. n : /\ m = DEC!InPacket(sy)
                           /\ \A i \in 1 .. n : sy[i].part # "noise" <=> i <= m
<1>1. sy \in Seq(ChainSymbols) /\ Len(sy) = n /\ DOMAIN sy = 1 .. n
      /\ \A i \in 1 .. n : sy[i] \in ChainSymbols
  <2> HIDE DEF ChainSymbols
  <2> QED BY DEF Following
<1> DEFINE P(m) == \A i \in 1 .. n : sy[i].part # "noise" <=> i <= m
           T == {i \in 1 .. n : sy[i].part = "noise"}
<1>2. \E m \in 0 .. n : P(m)
  <2>1. CASE T = {}
    <3>1. P(n) /\ n \in 0 .. n
      BY <2>1
    <3> QED BY <3>1
  <2>2. CASE T # {}
    <3>1. T \subseteq Nat
      OBVIOUS
    <3>2. PICK k \in T : \A y \in T : k <= y
      BY <2>2, <3>1, Least
    <3>3. k \in 1 .. n /\ sy[k].part = "noise"
      OBVIOUS
    <3> DEFINE B == {i \in k .. n : sy[i].part # "noise"}
    <3>4. B = {}
      <4> SUFFICES ASSUME B # {} PROVE FALSE
        OBVIOUS
      <4>1. B \subseteq Nat
        BY <3>3
      <4>2. PICK j \in B : \A y \in B : j <= y
        BY <4>1, Least
      <4>3. j \in k .. n /\ sy[j].part # "noise" /\ j # k
        BY <3>3
      <4>4. j - 1 \in k .. n /\ j \in 2 .. n /\ ~(j <= j - 1) /\ j - 1 \in 1 .. n
        BY <3>3, <4>3
      <4>5. sy[j - 1].part = "noise"
        BY <4>2, <4>4
      <4>6. sy[j] = DEC!After(sy[j - 1], len) /\ sy[j - 1] \in ChainSymbols
        BY <1>1, <4>4 DEF Following
      <4>7. sy[j].part = "noise"
        BY <4>5, <4>6, NextSymbol
      <4> QED BY <4>3, <4>7
    <3>5. ASSUME NEW i \in 1 .. n
          PROVE  sy[i].part # "noise" <=> i <= k - 1
      <4>1. CASE i < k
        <5>1. i \notin T
          BY <3>2, <3>3, <4>1
        <5> QED BY <3>3, <4>1, <5>1
      <4>2. CASE ~(i < k)
        <5>1. i \in k .. n
          BY <3>3, <4>2
        <5>2. sy[i].part = "noise"
          BY <3>4, <5>1
        <5> QED BY <3>3, <4>2, <5>2
      <4> QED BY <4>1, <4>2
    <3>6. k - 1 \in 0 .. n
      BY <3>3
    <3> QED BY <3>5, <3>6
  <2> QED BY <2>1, <2>2
<1>3. DEC!InPacket(sy) = CHOOSE m \in 0 .. n : P(m)
  BY <1>1 DEF DEC!InPacket
<1>4. (CHOOSE m \in 0 .. n : P(m)) \in 0 .. n /\ P(CHOOSE m \in 0 .. n : P(m))
  <2> HIDE DEF P
  <2> QED BY <1>2
<1> QED BY <1>3, <1>4

(* From place f of a syncword on, or from its end on. *)
LEMMA SyncwordGoesOn ==
  ASSUME NEW len \in Nat, NEW n \in Nat \ {0}, NEW sy, Following(sy, len, n),
         NEW f \in 0 .. ChainSyncword,
         IF f < ChainSyncword THEN sy[1].part = "syncword" /\ sy[1].place = f + 1
                              ELSE sy[1].part # "syncword"
  PROVE  \A k \in 1 .. n :
           IF f + k <= ChainSyncword THEN sy[k].part = "syncword" /\ sy[k].place = f + k
                                     ELSE sy[k].part # "syncword"
<1>1. \A i \in 1 .. n : sy[i] \in ChainSymbols
  <2> HIDE DEF ChainSymbols
  <2> QED BY DEF Following
<1> DEFINE P(k) == IF f + k <= ChainSyncword THEN sy[k].part = "syncword" /\ sy[k].place = f + k
                                             ELSE sy[k].part # "syncword"
           T == {k \in 1 .. n : ~P(k)}
<1>2. SUFFICES ASSUME T # {}
               PROVE  FALSE
  OBVIOUS
<1>3. T \subseteq Nat
  OBVIOUS
<1>4. PICK k \in T : \A y \in T : k <= y
  BY <1>2, <1>3, Least
<1>5. k \in 1 .. n /\ ~P(k)
  OBVIOUS
<1>6. CASE k = 1
  <2>1. f + 1 <= ChainSyncword <=> f < ChainSyncword
    BY ChainSizes
  <2> QED BY <1>5, <1>6, <2>1
<1>7. CASE k # 1
  <2>1. k \in 2 .. n /\ k - 1 \in 1 .. n /\ ~(k <= k - 1)
    BY <1>5, <1>7
  <2>2. P(k - 1)
    BY <1>4, <2>1
  <2>3. PICK a \in ChainSymbols : a = sy[k - 1] /\ sy[k] = DEC!After(a, len)
    BY <1>1, <2>1 DEF Following
  <2>4. CASE f + k <= ChainSyncword
    <3>1. f + (k - 1) <= ChainSyncword
      BY <1>5, <2>4, ChainSizes
    <3>2. a.part = "syncword" /\ a.place = f + (k - 1)
      BY <2>2, <2>3, <3>1
    <3>3. a.place < ChainSyncword /\ a.place + 1 = f + k
      BY <1>5, <2>4, <3>2, ChainSizes
    <3>4. sy[k].part = "syncword" /\ sy[k].place = a.place + 1
      <4> HIDE DEF P, T
      <4>1. PICK b : b = sy[k] /\ b = DEC!After(a, len)
        BY <2>3
      <4>2. a.part = "syncword" /\ a.place < ChainSyncword
        BY <3>2, <3>3
      <4>3. b.part = "syncword" /\ b.place = a.place + 1
        BY <4>1, <4>2, NextSymbol
      <4> QED BY <4>1, <4>3
    <3> QED BY <1>5, <2>4, <3>3, <3>4
  <2>5. CASE ~(f + k <= ChainSyncword)
    <3>1. ~(a.part = "syncword" /\ a.place < ChainSyncword)
      <4>1. CASE f + (k - 1) <= ChainSyncword
        <5>1. a.place = f + (k - 1)
          BY <2>2, <2>3, <4>1
        <5> QED BY <1>5, <2>5, <5>1, ChainSizes
      <4>2. CASE ~(f + (k - 1) <= ChainSyncword)
        BY <2>2, <2>3, <4>2
      <4> QED BY <4>1, <4>2
    <3>2. sy[k].part # "syncword"
      BY <2>3, <3>1, NextSymbol
    <3> QED BY <1>5, <2>5, <3>2
  <2> QED BY <2>4, <2>5
<1> QED BY <1>6, <1>7

(* SyncwordWipeoff is behind symbol s. *)
WipeAt(s) ==
  /\ wipeoff_in_syncword \in BOOLEAN /\ wipeoff_position \in 0 .. ChainSyncword
  /\ wipeoff_in_syncword <=> (s.part = "syncword" /\ s.place < ChainSyncword)
  /\ wipeoff_in_syncword => wipeoff_position = s.place

(* A call multiplies every symbol by its own, and is behind the last. *)
LEMMA WipeIs ==
  ASSUME NEW last \in ChainSymbols, WipeAt(last),
         NEW len \in Nat, NEW n \in Nat \ {0}, NEW sy, Following(sy, len, n), NEW tagged \in BOOLEAN,
         \/ ~tagged /\ sy[1] = DEC!After(last, len)
         \/ tagged /\ last.part # "syncword" /\ sy[1].part = "syncword" /\ sy[1].place = 1,
         DEC!WIPE!Wipeoff(n, tagged), NEW z, z = sy[n]
  PROVE  /\ WipeAt(z)'
         /\ \A k \in 1 .. n : DEC!WIPE!Factors(n, tagged)[k] = OwnFactor(sy[k])
<1> DEFINE in == wipeoff_in_syncword
           from == DEC!WIPE!From(tagged)
<1>1. sy[1] \in ChainSymbols /\ 1 \in 1 .. n /\ n \in 1 .. n
  <2> HIDE DEF ChainSymbols
  <2> QED BY DEF Following
<1>2. DEC!WIPE!Inside(tagged) \in BOOLEAN /\ (DEC!WIPE!Inside(tagged) <=> in \/ tagged)
  BY DEF DEC!WIPE!Inside, WipeAt
<1>3. PICK f \in 0 .. ChainSyncword :
         /\ DEC!WIPE!Inside(tagged) => f = from /\ f < ChainSyncword
         /\ ~DEC!WIPE!Inside(tagged) => f = ChainSyncword
         /\ IF f < ChainSyncword THEN sy[1].part = "syncword" /\ sy[1].place = f + 1
                                 ELSE sy[1].part # "syncword"
  <2>1. CASE tagged
    <3>1. ~in /\ from = 0
      BY <2>1 DEF WipeAt, DEC!WIPE!From, DEC!WIPE!Starts
    <3>2. 0 \in 0 .. ChainSyncword /\ 0 < ChainSyncword /\ 0 + 1 = 1
      BY ChainSizes
    <3> QED BY <1>2, <2>1, <3>1, <3>2
  <2>2. CASE ~tagged /\ in
    <3>1. from = last.place /\ last.part = "syncword" /\ last.place < ChainSyncword
      BY <2>2 DEF WipeAt, DEC!WIPE!From, DEC!WIPE!Starts
    <3>2. last.place \in 0 .. ChainSyncword
      BY <2>2 DEF WipeAt
    <3>3. sy[1].part = "syncword" /\ sy[1].place = last.place + 1
      BY <2>2, <3>1, NextSymbol
    <3> QED BY <1>2, <2>2, <3>1, <3>2, <3>3
  <2>3. CASE ~tagged /\ ~in
    <3>1. ~(last.part = "syncword" /\ last.place < ChainSyncword)
      BY <2>3 DEF WipeAt
    <3>2. sy[1].part # "syncword"
      BY <2>3, <3>1, NextSymbol
    <3>3. ChainSyncword \in 0 .. ChainSyncword /\ ~(ChainSyncword < ChainSyncword)
      BY ChainSizes
    <3> QED BY <1>2, <2>3, <3>2, <3>3
  <2> QED BY <2>1, <2>2, <2>3
<1>4. \A k \in 1 .. n :
        IF f + k <= ChainSyncword THEN sy[k].part = "syncword" /\ sy[k].place = f + k
                                  ELSE sy[k].part # "syncword"
  BY <1>3, SyncwordGoesOn
<1>5. ASSUME NEW k \in 1 .. n
      PROVE  DEC!WIPE!Factors(n, tagged)[k] = OwnFactor(sy[k])
  <2>1. DEC!WIPE!Factors(n, tagged)[k]
          = IF DEC!WIPE!Inside(tagged) /\ from + k <= ChainSyncword THEN from + k ELSE 0
    BY DEF DEC!WIPE!Factors
  <2>2. CASE DEC!WIPE!Inside(tagged)
    BY <1>3, <1>4, <2>1, <2>2 DEF OwnFactor
  <2>3. CASE ~DEC!WIPE!Inside(tagged)
    <3>1. ~(f + k <= ChainSyncword)
      BY <1>3, <2>3, ChainSizes
    <3> QED BY <1>4, <2>1, <2>3, <3>1 DEF OwnFactor
  <2> QED BY <1>2, <2>2, <2>3
<1>6. WipeAt(z)'
  <2>1. IF f + n <= ChainSyncword THEN z.part = "syncword" /\ z.place = f + n
                                  ELSE z.part # "syncword"
    BY <1>1, <1>4
  <2>2. CASE DEC!WIPE!Inside(tagged)
    <3>1. f = from /\ f \in Nat /\ n \in Nat /\ f + n \in Nat
      BY <1>3, <2>2
    <3>2. /\ wipeoff_position' = (IF f + n <= ChainSyncword THEN f + n ELSE ChainSyncword)
          /\ wipeoff_in_syncword' \in BOOLEAN
          /\ wipeoff_in_syncword' <=> wipeoff_position' # ChainSyncword
      <4>1. wipeoff_position' = (IF f + n <= ChainSyncword THEN f + n ELSE ChainSyncword)
        BY <2>2, <3>1 DEF DEC!WIPE!Wipeoff, DEC!WIPE!After
      <4>2. wipeoff_in_syncword' = (DEC!WIPE!After(n, tagged) # ChainSyncword)
            /\ wipeoff_position' = DEC!WIPE!After(n, tagged)
        BY <2>2 DEF DEC!WIPE!Wipeoff
      <4> QED BY <4>1, <4>2
    <3>3. CASE f + n <= ChainSyncword
      <4>1. wipeoff_position' = f + n /\ f + n \in 0 .. ChainSyncword /\ z.place = f + n
        BY <2>1, <3>1, <3>2, <3>3, ChainSizes
      <4>2. wipeoff_in_syncword' <=> f + n < ChainSyncword
        BY <3>1, <3>2, <3>3, <4>1, ChainSizes
      <4> QED BY <2>1, <3>2, <3>3, <4>1, <4>2 DEF WipeAt
    <3>4. CASE ~(f + n <= ChainSyncword)
      <4>1. wipeoff_position' = ChainSyncword /\ ~wipeoff_in_syncword' /\ ChainSyncword \in 0 .. ChainSyncword
        BY <3>2, <3>4, ChainSizes
      <4> QED BY <2>1, <3>2, <3>4, <4>1 DEF WipeAt
    <3> QED BY <3>3, <3>4
  <2>3. CASE ~DEC!WIPE!Inside(tagged)
    <3>1. wipeoff_in_syncword' = in /\ wipeoff_position' = wipeoff_position /\ ~in
      BY <1>2, <2>3 DEF DEC!WIPE!Wipeoff
    <3>2. z.part # "syncword"
      BY <1>3, <2>1, <2>3, ChainSizes
    <3> QED BY <3>1, <3>2 DEF WipeAt
  <2> QED BY <1>2, <2>2, <2>3
<1> QED BY <1>5, <1>6

(* SyncwordRemove is behind symbol s. *)
RemoveAt(s) ==
  /\ remove_in_syncword \in BOOLEAN /\ remove_position \in 0 .. ChainSyncword
  /\ remove_in_syncword <=> (s.part = "syncword" /\ s.place < ChainSyncword)
  /\ remove_in_syncword => remove_position = s.place

(* The loop follows the packet of symbol s. *)
TracksAt(s) ==
  /\ phase \in Nat /\ constellation \in {"BPSK", "QPSK", "PILOT"}
  /\ s.part # "noise" =>
       /\ phase = s.packet
       /\ constellation = IF s.part = "syncword" THEN "PILOT" ELSE "QPSK"

(* The scrambler's state behind bit p of a packet. *)
PduRun(p) == DEC!SCR!Run(DEC!SCR!Reset, [i \in 1 .. p |-> FALSE])

(* CostasLoop is behind symbol t, SyncwordRemove behind d,                 *)
(* ConstellationLLRDecoder behind e and AdditiveScrambler behind bit p.    *)
SourceAt(t) ==
  /\ dec_last \in ChainSymbols /\ payload \in Nat /\ WipeAt(dec_last)
  /\ wiped \in Seq(Wipeds) /\ Joined(InStream, t, wiped)
  /\ IF dec_last.part # "noise" THEN dec_last = LastOf(t, wiped)
                                ELSE LastOf(t, wiped).part # "syncword"
TrackedAt(t, d) ==
  /\ TracksAt(t)
  /\ tracked \in Seq(Trackeds) /\ Joined(InStream, d, tracked) /\ t = LastOf(d, tracked)
RemovedAt(d, e) ==
  /\ RemoveAt(d)
  /\ removed \in Seq(Removeds) /\ Joined(InDecoded, e, removed)
  /\ d.part \in {"header", "payload"} => LastOf(e, removed) = d
SoftAt(e, p) ==
  /\ llr_constellation = "QPSK" /\ refused = FALSE
  /\ soft \in Seq(Softs) /\ Len(soft) <= SoftCapacity /\ JoinedBits(p, soft)
  /\ e.part # "noise" => LastPlace(p, soft) = Base(e) + 2
ScrambledAt(p) == reg = PduRun(p).reg /\ current_count = PduRun(p).count

ChainInv ==
  /\ DEC!DescramblesInStep
  /\ \E t \in ChainSymbols :
       /\ SourceAt(t)
       /\ \E d \in ChainSymbols :
            /\ TrackedAt(t, d)
            /\ \E e \in ChainSymbols :
                 /\ RemovedAt(d, e)
                 /\ \E p \in Nat : SoftAt(e, p) /\ ScrambledAt(p)

(* The symbol that a link ends with. *)
LEMMA LastIn ==
  ASSUME NEW X, NEW l \in Seq(X), NEW a \in ChainSymbols, \A x \in X : x.symbol \in ChainSymbols
  PROVE  LastOf(a, l) \in ChainSymbols
<1> HIDE DEF ChainSymbols
<1>1. PICK k \in Nat : k = Len(l)
  OBVIOUS
<1>2. CASE k = 0
  BY <1>1, <1>2 DEF LastOf
<1>3. CASE k # 0
  <2>1. k \in 1 .. Len(l)
    BY <1>1, <1>3
  <2>2. l[k] \in X
    BY <2>1
  <2> QED BY <1>1, <1>3, <2>2 DEF LastOf
<1> QED BY <1>2, <1>3

(* Which is not at the beginning of a syncword. *)
LEMMA NextOnward ==
  ASSUME NEW s \in ChainSymbols, NEW len \in Nat, NEW b, b = DEC!After(s, len)
  PROVE  ~(b.part = "syncword" /\ b.place = 1)
BY NextSymbol

(* A call of SyncwordWipeoff on the symbols from s on. *)
LEMMA WipeKeeps ==
  ASSUME NEW t \in ChainSymbols, SourceAt(t),
         NEW len \in Nat, NEW n \in Nat \ {0}, NEW s, DEC!Wipe(s, len, n),
         \/ s = DEC!After(dec_last, payload) /\ len = payload
         \/ DEC!After(dec_last, payload).part = "noise" /\ s = DEC!Detection
  PROVE  SourceAt(t)'
<1>1. /\ dec_last \in ChainSymbols /\ payload \in Nat /\ WipeAt(dec_last)
      /\ wiped \in Seq(Wipeds) /\ Joined(InStream, t, wiped)
  BY DEF SourceAt
<1>2. PICK a : a = LastOf(t, wiped)
  OBVIOUS
<1>3. a \in ChainSymbols
  <2>1. \A x \in Wipeds : x.symbol \in ChainSymbols
    <3> HIDE DEF ChainSymbols
    <3> QED BY DEF Wipeds
  <2> QED BY <1>1, <1>2, <2>1, LastIn
<1>4. PICK q : q = DEC!After(dec_last, payload)
  OBVIOUS
<1>5. /\ q \in ChainSymbols
      /\ dec_last.part = "noise" => q.part = "noise"
      /\ q.part = "noise" => dec_last.part # "syncword"
      /\ q.part # "noise" => Succeeds(dec_last, q)
      /\ ~(q.part = "syncword" /\ q.place = 1)
  <2>1. PICK c \in ChainSymbols, k \in Nat : c = dec_last /\ k = payload /\ q = DEC!After(c, k)
    BY <1>1, <1>4
  <2>2. q \in ChainSymbols
    BY <2>1, NextSymbol
  <2>6. ~(q.part = "syncword" /\ q.place = 1)
    BY <2>1, NextOnward
  <2>3. c.part = "noise" => q.part = "noise"
    BY <2>1, NextSymbol
  <2>4. q.part = "noise" => c.part # "syncword"
    BY <2>1, NextSymbol
  <2>5. q.part # "noise" => Succeeds(c, q)
    BY <2>1, NextSymbol
  <2> QED BY <2>1, <2>2, <2>3, <2>4, <2>5, <2>6
<1>6. IF dec_last.part # "noise" THEN dec_last = a ELSE a.part # "syncword"
  BY <1>2 DEF SourceAt
<1>7. PICK tagged \in BOOLEAN : tagged <=> DEC!TagOf(s) = "detection"
  OBVIOUS
<1>8. tagged = (DEC!TagOf(s) = "detection")
  BY <1>7
<1>9. \/ ~tagged /\ s = q /\ len = payload
      \/ tagged /\ q.part = "noise" /\ s \in ChainSymbols /\ s.part = "syncword" /\ s.place = 1
  <2>1. CASE s = q /\ len = payload
    <3>1. ~(DEC!TagOf(s) = "detection")
      BY <1>5, <2>1, TagIs
    <3> QED BY <1>7, <2>1, <3>1
  <2>2. CASE q.part = "noise" /\ s = DEC!Detection
    <3>1. s \in ChainSymbols /\ s.part = "syncword" /\ s.place = 1
      BY <1>1, <2>2, NextDetection
    <3>2. DEC!TagOf(s) = "detection"
      BY <3>1, TagIs
    <3> QED BY <1>7, <2>2, <3>1, <3>2
  <2> QED BY <1>4, <2>1, <2>2
<1>10. s \in ChainSymbols
  BY <1>5, <1>9
<1>11. PICK sy : sy = DEC!Symbols(s, len, n)
  OBVIOUS
<1>12. Following(sy, len, n) /\ sy[1] = s
  <2>1. /\ DEC!Symbols(s, len, n) \in Seq(ChainSymbols) /\ Len(DEC!Symbols(s, len, n)) = n
        /\ DEC!Symbols(s, len, n)[1] = s
        /\ \A j \in 2 .. n : DEC!Symbols(s, len, n)[j] = DEC!After(DEC!Symbols(s, len, n)[j - 1], len)
    BY <1>10, SymbolsAre
  <2> QED BY <1>11, <2>1 DEF Following
<1>13. PICK m \in 0 .. n : /\ m = DEC!InPacket(sy)
                           /\ \A i \in 1 .. n : sy[i].part # "noise" <=> i <= m
  <2>1. \E m \in 0 .. n : /\ m = DEC!InPacket(sy)
                           /\ \A i \in 1 .. n : sy[i].part # "noise" <=> i <= m
    BY <1>12, InPacketIs
  <2> QED BY <2>1
<1>14. PICK items : items = [i \in 1 .. n |-> [symbol |-> sy[i], tag |-> DEC!TagOf(sy[i]),
                                              factor |-> DEC!WIPE!Factors(n, tagged)[i]]]
  OBVIOUS
<1>15. /\ DEC!WIPE!Wipeoff(n, tagged)
       /\ wiped' = wiped \o SubSeq(items, 1, m)
       /\ dec_last' = sy[n] /\ payload' = len
  BY <1>8, <1>11, <1>13, <1>14 DEF DEC!Wipe
<1>16. \A i \in 1 .. n : sy[i] \in ChainSymbols
  <2> HIDE DEF ChainSymbols
  <2> QED BY <1>12 DEF Following
<1>17. WipeAt(sy[n])' /\ \A k \in 1 .. n : DEC!WIPE!Factors(n, tagged)[k] = OwnFactor(sy[k])
  <2>1. dec_last \in ChainSymbols /\ WipeAt(dec_last)
    BY <1>1
  <2>2. \/ ~tagged /\ sy[1] = DEC!After(dec_last, len)
        \/ tagged /\ dec_last.part # "syncword" /\ sy[1].part = "syncword" /\ sy[1].place = 1
    BY <1>4, <1>5, <1>9, <1>12
  <2> QED BY <1>12, <1>15, <2>1, <2>2, WipeIs
<1>18. PICK add : add = SubSeq(items, 1, m)
  OBVIOUS
<1>19. \A i \in 1 .. m : items[i] \in Wipeds /\ items[i].symbol = sy[i]
  <2>1. ASSUME NEW i \in 1 .. m
        PROVE  items[i] \in Wipeds /\ items[i].symbol = sy[i]
    <3>1. i \in 1 .. n /\ sy[i] \in ChainSymbols /\ sy[i].part # "noise"
      BY <1>13, <1>16
    <3>2. items[i] = [symbol |-> sy[i], tag |-> DEC!TagOf(sy[i]), factor |-> OwnFactor(sy[i])]
      BY <1>14, <1>17, <3>1
    <3>3. DEC!TagOf(sy[i]) \in ChainTags
      BY <3>1, TagIs
    <3>4. OwnFactor(sy[i]) \in Nat
      BY <3>1 DEF OwnFactor, ChainSymbols
    <3> HIDE DEF ChainSymbols
    <3> QED BY <3>1, <3>2, <3>3, <3>4 DEF Wipeds
  <2> QED BY <2>1
<1>20. add \in Seq(Wipeds) /\ Len(add) = m /\ \A i \in 1 .. m : add[i].symbol = sy[i]
  <2> HIDE DEF Wipeds
  <2>1. Len(items) = n /\ DOMAIN items = 1 .. n
    BY <1>14
  <2>2. add \in Seq(Wipeds) /\ Len(add) = m /\ \A i \in 1 .. m : add[i] = items[i]
    BY <1>18, <1>19, <2>1
  <2> QED BY <1>19, <2>2
<1>21. \A i \in 2 .. n : /\ sy[i - 1] \in ChainSymbols
                         /\ sy[i].part # "noise" => <<sy[i - 1], sy[i]>> \in InStream
                         /\ sy[i].part = "noise" => sy[i - 1].part # "syncword"
  <2>1. ASSUME NEW i \in 2 .. n
        PROVE  /\ sy[i - 1] \in ChainSymbols
               /\ sy[i].part # "noise" => <<sy[i - 1], sy[i]>> \in InStream
               /\ sy[i].part = "noise" => sy[i - 1].part # "syncword"
    <3>1. i - 1 \in 1 .. n
      OBVIOUS
    <3>2. sy[i] = DEC!After(sy[i - 1], len) /\ sy[i - 1] \in ChainSymbols
      BY <1>12, <1>16, <3>1 DEF Following
    <3>3. PICK c, b : c = sy[i - 1] /\ b = sy[i] /\ b = DEC!After(c, len) /\ c \in ChainSymbols
      BY <3>2
    <3>4. /\ b \in ChainSymbols
          /\ b.part # "noise" => Succeeds(c, b)
          /\ b.part = "noise" => c.part # "syncword"
      BY <3>3, NextSymbol DEF Succeeds
    <3> HIDE DEF ChainSymbols
    <3>5. b.part # "noise" => <<c, b>> \in InStream
      BY <3>3, <3>4 DEF InStream
    <3> QED BY <3>3, <3>4, <3>5
  <2> QED BY <2>1
<1>22. Joined(InStream, a, add)
  <2>1. ASSUME NEW i \in 1 .. m
        PROVE  <<IF i = 1 THEN a ELSE add[i - 1].symbol, add[i].symbol>> \in InStream
    <3>1. i \in 1 .. n /\ sy[i] \in ChainSymbols /\ sy[i].part # "noise" /\ add[i].symbol = sy[i]
      BY <1>13, <1>16, <1>20
    <3>2. CASE i = 1
      <4>1. Succeeds(a, s)
        <5>1. CASE ~tagged /\ s = q /\ len = payload
          BY <1>5, <1>6, <1>12, <3>1, <3>2, <5>1
        <5>2. CASE tagged /\ q.part = "noise" /\ s.part = "syncword" /\ s.place = 1
          <6>1. a.part # "syncword"
            BY <1>5, <1>6, <5>2
          <6> QED BY <5>2, <6>1 DEF Succeeds
        <5> QED BY <1>9, <5>1, <5>2
      <4> HIDE DEF ChainSymbols
      <4> QED BY <1>3, <1>12, <3>1, <3>2, <4>1 DEF InStream
    <3>3. CASE i # 1
      <4>1. i \in 2 .. n /\ i - 1 \in 1 .. m
        BY <3>1, <3>3
      <4>2. <<sy[i - 1], sy[i]>> \in InStream /\ add[i - 1].symbol = sy[i - 1]
        <5>1. add[i - 1].symbol = sy[i - 1]
          BY <1>20, <4>1
        <5>2. <<sy[i - 1], sy[i]>> \in InStream
          BY <1>21, <3>1, <4>1
        <5> QED BY <5>1, <5>2
      <4> QED BY <3>1, <3>3, <4>2
    <3> QED BY <3>2, <3>3
  <2> QED BY <1>20, <2>1 DEF Joined
<1>23. wiped' \in Seq(Wipeds) /\ Joined(InStream, t, wiped')
       /\ LastOf(t, wiped') = LastOf(a, add)
  <2>1. Joined(InStream, t, wiped \o add) /\ LastOf(t, wiped \o add) = LastOf(a, add)
    BY <1>1, <1>2, <1>20, <1>22, JoinedOn
  <2>2. wiped \o add \in Seq(Wipeds)
    BY <1>1, <1>20, ConcatIs
  <2> QED BY <1>15, <1>18, <2>1, <2>2
<1>24. dec_last' \in ChainSymbols /\ payload' \in Nat
  BY <1>15, <1>16
<1>25. IF dec_last'.part # "noise" THEN dec_last' = LastOf(a, add) ELSE LastOf(a, add).part # "syncword"
  <2>1. CASE sy[n].part # "noise"
    <3>1. m = n
      BY <1>13, <2>1
    <3> QED BY <1>15, <1>20, <2>1, <3>1 DEF LastOf
  <2>2. CASE sy[n].part = "noise" /\ m = 0
    <3>1. LastOf(a, add) = a
      BY <1>20, <2>2 DEF LastOf
    <3>2. sy[1].part = "noise"
      BY <1>13, <2>2
    <3>3. a.part # "syncword"
      BY <1>5, <1>6, <1>9, <1>12, <3>2
    <3> QED BY <1>15, <2>2, <3>1, <3>3
  <2>3. CASE sy[n].part = "noise" /\ m # 0
    <3>1. m + 1 \in 2 .. n /\ m \in 1 .. m /\ m + 1 - 1 = m
      BY <1>13, <2>3
    <3>2. sy[m + 1].part = "noise"
      BY <1>13, <3>1
    <3>3. sy[m].part # "syncword"
      <4>1. PICK j \in 2 .. n : j = m + 1 /\ j - 1 = m
        BY <3>1
      <4>2. sy[j].part = "noise" => sy[j - 1].part # "syncword"
        BY <1>21
      <4> QED BY <3>2, <4>1, <4>2
    <3>4. LastOf(a, add) = sy[m]
      BY <1>20, <2>3, <3>1 DEF LastOf
    <3> QED BY <1>15, <2>3, <3>3, <3>4
  <2> QED BY <2>1, <2>2, <2>3
<1>26. WipeAt(dec_last)'
  BY <1>15, <1>17 DEF WipeAt
<1> QED BY <1>23, <1>24, <1>25, <1>26 DEF SourceAt

(* What the tag of a symbol says of the one before. *)
LEMMA FirstIs ==
  ASSUME NEW a, NEW b, <<a, b>> \in InStream, b.part # "noise"
  PROVE  /\ a \in ChainSymbols /\ b \in ChainSymbols
         /\ DEC!TagOf(b) = "detection" =>
              b.part = "syncword" /\ b.place = 1 /\ a.part # "syncword"
         /\ DEC!TagOf(b) = "header" =>
              /\ b.part = "header" /\ b.place = 1 /\ b.packet = a.packet
              /\ a.part = "syncword" /\ a.place = ChainSyncword
         /\ DEC!TagOf(b) = "payload" =>
              /\ b.part = "payload" /\ b.place = 1 /\ b.packet = a.packet
              /\ a.part = "header" /\ a.place = ChainHeader
         /\ DEC!TagOf(b) = "none" =>
              b.packet = a.packet /\ b.part = a.part /\ b.place = a.place + 1
         /\ DEC!TagOf(b) \in ChainTags
<1>1. a \in ChainSymbols /\ b \in ChainSymbols /\ Succeeds(a, b)
  <2> HIDE DEF ChainSymbols
  <2> QED BY DEF InStream
<1>2. /\ a.place \in Nat \ {0} /\ b.place \in Nat \ {0}
      /\ a.part \in {"syncword", "header", "payload", "noise"}
      /\ b.part \in {"syncword", "header", "payload"}
  BY <1>1 DEF ChainSymbols
<1>3. a.place + 1 # 1
  BY <1>2
<1>4. CASE b.place = 1
  <2>1. DEC!TagOf(b) = IF b.part = "syncword" THEN "detection" ELSE b.part
    BY <1>2, <1>4 DEF DEC!TagOf
  <2>2. \/ b.part = "syncword" /\ a.part # "syncword"
        \/ /\ b.packet = a.packet
           /\ \/ b.part = "header" /\ a.part = "syncword" /\ a.place = ChainSyncword
              \/ b.part = "payload" /\ a.part = "header" /\ a.place = ChainHeader
    BY <1>1, <1>3, <1>4 DEF Succeeds
  <2> QED BY <1>1, <1>2, <1>4, <2>1, <2>2 DEF ChainTags
<1>5. CASE b.place # 1
  <2>1. DEC!TagOf(b) = "none"
    BY <1>5 DEF DEC!TagOf
  <2>2. b.packet = a.packet /\ b.part = a.part /\ b.place = a.place + 1
    BY <1>1, <1>5 DEF Succeeds
  <2> QED BY <1>1, <2>1, <2>2 DEF ChainTags
<1> QED BY <1>4, <1>5

(* The symbols of a chunk are neighbours in one part of a packet. *)
LEMMA ChunkSame ==
  ASSUME NEW l, NEW a, Joined(InStream, a, l), Len(l) \in Nat, NEW n \in 1 .. Len(l),
         \A i \in 1 .. n : l[i].symbol.part # "noise" /\ l[i].tag = DEC!TagOf(l[i].symbol),
         DEC!IsChunk(l, n)
  PROVE  \A i \in 1 .. n : /\ l[i].symbol \in ChainSymbols
                           /\ l[i].symbol.packet = l[1].symbol.packet
                           /\ l[i].symbol.part = l[1].symbol.part
                           /\ l[i].symbol.place = l[1].symbol.place + (i - 1)
<1> DEFINE P(i) == /\ l[i].symbol.packet = l[1].symbol.packet
                   /\ l[i].symbol.part = l[1].symbol.part
                   /\ l[i].symbol.place = l[1].symbol.place + (i - 1)
           T == {i \in 1 .. n : ~P(i)}
<1>1. \A i \in 1 .. n : l[i].symbol \in ChainSymbols
  <2>1. ASSUME NEW i \in 1 .. n
        PROVE  l[i].symbol \in ChainSymbols
    <3>1. <<IF i = 1 THEN a ELSE l[i - 1].symbol, l[i].symbol>> \in InStream /\ l[i].symbol.part # "noise"
      BY DEF Joined
    <3> QED BY <3>1, FirstIs
  <2> QED BY <2>1
<1>2. T = {}
  <2> SUFFICES ASSUME T # {} PROVE FALSE
    OBVIOUS
  <2>1. T \subseteq Nat
    OBVIOUS
  <2>2. PICK k \in T : \A y \in T : k <= y
    BY <2>1, Least
  <2>3. k \in 1 .. n /\ ~P(k) /\ 1 \in 1 .. n
    OBVIOUS
  <2>4. CASE k = 1
    <3>1. l[1].symbol.place \in Nat
      BY <1>1, <2>3 DEF ChainSymbols
    <3> QED BY <2>3, <2>4, <3>1
  <2>5. CASE k # 1
    <3>1. k - 1 \in 1 .. n /\ k \in 2 .. n /\ ~(k <= k - 1) /\ k \in 1 .. Len(l)
      BY <2>3, <2>5
    <3>2. P(k - 1)
      BY <2>2, <3>1
    <3>3. <<l[k - 1].symbol, l[k].symbol>> \in InStream
      BY <2>5, <3>1 DEF Joined
    <3>4. l[k].symbol.part # "noise" /\ DEC!TagOf(l[k].symbol) = "none"
      <4>1. l[k].tag = "none"
        BY <3>1 DEF DEC!IsChunk
      <4> QED BY <2>3, <4>1
    <3>5. PICK x, y : x = l[k - 1].symbol /\ y = l[k].symbol
      OBVIOUS
    <3>6. y.packet = x.packet /\ y.part = x.part /\ y.place = x.place + 1
      BY <3>3, <3>4, <3>5, FirstIs
    <3>7. l[1].symbol.place \in Nat
      BY <1>1, <2>3 DEF ChainSymbols
    <3>8. P(k)
      <4>1. PICK z : z = l[1].symbol /\ z.place \in Nat
        BY <3>7
      <4>2. x.packet = z.packet /\ x.part = z.part /\ x.place = z.place + ((k - 1) - 1)
        BY <3>2, <3>5, <4>1
      <4>3. PICK q \in Nat : q = z.place
        BY <4>1
      <4>4. q + ((k - 1) - 1) + 1 = q + (k - 1)
        BY <2>3
      <4>5. y.packet = z.packet /\ y.part = z.part /\ y.place = z.place + (k - 1)
        BY <3>6, <4>2, <4>3, <4>4
      <4> QED BY <3>5, <4>1, <4>5
    <3> QED BY <2>3, <3>8
  <2> QED BY <2>4, <2>5
<1> QED BY <1>1, <1>2

(* A call of CostasLoop on n symbols. *)
LEMMA TrackKeeps ==
  ASSUME NEW t \in ChainSymbols, NEW d \in ChainSymbols, SourceAt(t), TrackedAt(t, d),
         NEW n \in Nat \ {0}, n <= Len(wiped), DEC!Track(n)
  PROVE  \E u \in ChainSymbols : SourceAt(u)' /\ TrackedAt(u, d)'
<1>1. /\ wiped \in Seq(Wipeds) /\ Joined(InStream, t, wiped)
      /\ tracked \in Seq(Trackeds) /\ Joined(InStream, d, tracked) /\ t = LastOf(d, tracked)
  BY DEF SourceAt, TrackedAt
<1>2. PICK k \in Nat : k = Len(wiped) /\ n \in 1 .. k /\ n \in 1 .. Len(wiped)
  <2> HIDE DEF Wipeds
  <2> QED BY <1>1
<1>3. \A i \in 1 .. k : /\ wiped[i] \in Wipeds
                        /\ wiped[i].symbol \in ChainSymbols /\ wiped[i].symbol.part # "noise"
                        /\ wiped[i].tag = DEC!TagOf(wiped[i].symbol) /\ wiped[i].tag \in ChainTags
                        /\ wiped[i].factor = OwnFactor(wiped[i].symbol) /\ wiped[i].factor \in Nat
  <2>1. ASSUME NEW i \in 1 .. k
        PROVE  wiped[i] \in Wipeds
    <3> HIDE DEF Wipeds
    <3> QED BY <1>1, <1>2
  <2>2. \A x \in Wipeds : /\ x.symbol \in ChainSymbols /\ x.symbol.part # "noise"
                          /\ x.tag = DEC!TagOf(x.symbol) /\ x.tag \in ChainTags
                          /\ x.factor = OwnFactor(x.symbol) /\ x.factor \in Nat
    <3> HIDE DEF ChainSymbols
    <3> QED BY DEF Wipeds
  <2> QED BY <2>1, <2>2
<1>4. /\ DEC!IsChunk(wiped, n) /\ phase' = DEC!PhaseOf(wiped[1])
      /\ constellation' = DEC!SettingOf(constellation, wiped[1].tag)
      /\ tracked' = tracked \o
           [i \in 1 .. n |-> [symbol |-> wiped[i].symbol, tag |-> wiped[i].tag,
                              factor |-> wiped[i].factor,
                              tracking |-> [phase |-> phase', constellation |-> constellation']]]
      /\ wiped' = DEC!Rest(wiped, n)
      /\ dec_last' = dec_last /\ payload' = payload
      /\ wipeoff_in_syncword' = wipeoff_in_syncword /\ wipeoff_position' = wipeoff_position
  BY DEF DEC!Track, DEC!source_vars, DEC!wipe_vars
<1>5. PICK f : f = wiped[1].symbol
  OBVIOUS
<1>6. f \in ChainSymbols /\ f.part # "noise" /\ wiped[1].tag = DEC!TagOf(f)
      /\ \A i \in 1 .. n : /\ wiped[i].symbol.packet = f.packet
                           /\ wiped[i].symbol.part = f.part
  <2>1. \A i \in 1 .. n : /\ wiped[i].symbol \in ChainSymbols
                          /\ wiped[i].symbol.packet = wiped[1].symbol.packet
                          /\ wiped[i].symbol.part = wiped[1].symbol.part
                          /\ wiped[i].symbol.place = wiped[1].symbol.place + (i - 1)
    <3>1. \A i \in 1 .. n : wiped[i].symbol.part # "noise" /\ wiped[i].tag = DEC!TagOf(wiped[i].symbol)
      BY <1>2, <1>3
    <3>2. Len(wiped) \in Nat
      BY <1>2
    <3> QED BY <1>1, <1>2, <1>4, <3>1, <3>2, ChunkSame
  <2>2. 1 \in 1 .. k
    BY <1>2
  <2> QED BY <1>3, <1>5, <2>1, <2>2
<1>7. <<t, f>> \in InStream
  BY <1>1, <1>2, <1>5 DEF Joined
<1>8. /\ phase' \in Nat /\ constellation' \in {"BPSK", "QPSK", "PILOT"}
      /\ phase' = f.packet
      /\ constellation' = IF f.part = "syncword" THEN "PILOT" ELSE "QPSK"
  <2>1. /\ phase \in Nat /\ constellation \in {"BPSK", "QPSK", "PILOT"}
        /\ t.part # "noise" =>
             /\ phase = t.packet
             /\ constellation = IF t.part = "syncword" THEN "PILOT" ELSE "QPSK"
    BY DEF TrackedAt, TracksAt
  <2>2. f.packet \in Nat
    BY <1>6 DEF ChainSymbols
  <2>3. DEC!TagOf(f) \in ChainTags
    BY <1>6, <1>7, FirstIs
  <2>4. phase' = (IF DEC!TagOf(f) = "detection" THEN f.packet ELSE phase)
    BY <1>4, <1>5, <1>6 DEF DEC!PhaseOf
  <2>5. constellation' = DEC!SettingOf(constellation, DEC!TagOf(f))
    BY <1>4, <1>6
  <2>6. CASE DEC!TagOf(f) = "detection"
    <3>1. f.part = "syncword"
      BY <1>6, <1>7, <2>6, FirstIs
    <3>2. constellation' = "PILOT"
      BY <2>5, <2>6 DEF DEC!SettingOf, DEC!Constellation
    <3> QED BY <2>2, <2>4, <2>6, <3>1, <3>2
  <2>7. CASE DEC!TagOf(f) = "header"
    <3>1. f.part = "header" /\ f.packet = t.packet /\ t.part = "syncword"
      BY <1>6, <1>7, <2>7, FirstIs
    <3>2. constellation' = "QPSK"
      BY <2>5, <2>7 DEF DEC!SettingOf, DEC!Constellation
    <3> QED BY <2>1, <2>4, <2>7, <3>1, <3>2
  <2>8. CASE DEC!TagOf(f) = "payload"
    <3>1. f.part = "payload" /\ f.packet = t.packet /\ t.part = "header"
      BY <1>6, <1>7, <2>8, FirstIs
    <3>2. constellation' = constellation
      BY <2>5, <2>8 DEF DEC!SettingOf, DEC!Constellation
    <3> QED BY <2>1, <2>4, <2>8, <3>1, <3>2
  <2>9. CASE DEC!TagOf(f) = "none"
    <3>1. f.packet = t.packet /\ f.part = t.part
      BY <1>6, <1>7, <2>9, FirstIs
    <3>2. constellation' = constellation
      BY <2>5, <2>9 DEF DEC!SettingOf, DEC!Constellation
    <3> QED BY <1>6, <2>1, <2>4, <2>9, <3>1, <3>2
  <2> QED BY <2>3, <2>6, <2>7, <2>8, <2>9 DEF ChainTags
<1>9. PICK tracking \in Trackings : tracking = [phase |-> phase', constellation |-> constellation']
  BY <1>8 DEF Trackings
<1>10. PICK add : add = [i \in 1 .. n |-> [symbol |-> wiped[i].symbol, tag |-> wiped[i].tag,
                                           factor |-> wiped[i].factor, tracking |-> tracking]]
  OBVIOUS
<1>11. \A i \in 1 .. n : add[i] \in Trackeds /\ add[i].symbol = wiped[i].symbol
  <2>1. ASSUME NEW i \in 1 .. n
        PROVE  add[i] \in Trackeds /\ add[i].symbol = wiped[i].symbol
    <3>1. i \in 1 .. k
      BY <1>2
    <3>2. PICK x, g, h : x = wiped[i].symbol /\ g = wiped[i].tag /\ h = wiped[i].factor
      OBVIOUS
    <3>3. /\ x \in ChainSymbols /\ x.part # "noise" /\ x.packet = f.packet /\ x.part = f.part
          /\ g = DEC!TagOf(x) /\ g \in ChainTags /\ h = OwnFactor(x) /\ h \in Nat
      BY <1>3, <1>6, <3>1, <3>2
    <3>4. PICK y : y = [symbol |-> x, tag |-> g, factor |-> h, tracking |-> tracking]
      OBVIOUS
    <3>5. y = add[i]
      BY <1>10, <3>2, <3>4
    <3>6. y.tracking.phase = x.packet
          /\ y.tracking.constellation = (IF x.part = "syncword" THEN "PILOT" ELSE "QPSK")
      BY <1>8, <1>9, <3>3, <3>4
    <3>7. y \in [symbol : ChainSymbols, tag : ChainTags, factor : Nat, tracking : Trackings]
          /\ y.symbol = x /\ y.tag = g /\ y.factor = h
      <4> HIDE DEF ChainSymbols, Trackings
      <4> QED BY <1>9, <3>3, <3>4
    <3>8. y \in Trackeds
      BY <3>3, <3>6, <3>7 DEF Trackeds
    <3> QED BY <3>2, <3>5, <3>7, <3>8
  <2> QED BY <2>1
<1>12. add \in Seq(Trackeds) /\ Len(add) = n
  <2> HIDE DEF Trackeds
  <2> QED BY <1>10, <1>11
<1>13. Joined(InStream, t, add)
  <2>1. ASSUME NEW i \in 1 .. n
        PROVE  <<IF i = 1 THEN t ELSE add[i - 1].symbol, add[i].symbol>> \in InStream
    <3>1. <<IF i = 1 THEN t ELSE wiped[i - 1].symbol, wiped[i].symbol>> \in InStream
      BY <1>1, <1>2 DEF Joined
    <3>2. i # 1 => i - 1 \in 1 .. n
      OBVIOUS
    <3> QED BY <1>11, <3>1, <3>2
  <2> QED BY <1>12, <2>1 DEF Joined
<1>14. PICK u : u = wiped[n].symbol
  OBVIOUS
<1>15. u \in ChainSymbols /\ u.packet = f.packet /\ u.part = f.part
  <2>1. n \in 1 .. n /\ n \in 1 .. k
    BY <1>2
  <2> QED BY <1>3, <1>6, <1>14, <2>1
<1>16. LastOf(t, add) = u
  <2>1. n \in 1 .. n /\ n # 0
    OBVIOUS
  <2> QED BY <1>11, <1>12, <1>14, <2>1 DEF LastOf
<1>17. tracked' \in Seq(Trackeds) /\ Joined(InStream, d, tracked') /\ u = LastOf(d, tracked')
  <2>1. tracked' = tracked \o add
    BY <1>4, <1>9, <1>10
  <2>2. tracked \o add \in Seq(Trackeds)
    BY <1>1, <1>12, ConcatIs
  <2>3. Joined(InStream, d, tracked \o add) /\ LastOf(d, tracked \o add) = LastOf(LastOf(d, tracked), add)
    BY <1>1, <1>12, <1>13, JoinedOn
  <2> QED BY <1>1, <1>16, <2>1, <2>2, <2>3
<1>18. TrackedAt(u, d)'
  BY <1>8, <1>15, <1>17 DEF TrackedAt, TracksAt
<1>19. wiped' \in Seq(Wipeds) /\ Joined(InStream, u, wiped') /\ LastOf(u, wiped') = LastOf(t, wiped)
  <2>1. DEC!Rest(wiped, n) \in Seq(Wipeds)
    <3>1. n \in 0 .. Len(wiped)
      BY <1>2
    <3> QED BY <1>1, <3>1, RestIs
  <2>2. /\ Joined(InStream, wiped[n].symbol, DEC!Rest(wiped, n))
        /\ LastOf(wiped[n].symbol, DEC!Rest(wiped, n)) = LastOf(t, wiped)
    BY <1>1, <1>2, JoinedRest
  <2> QED BY <1>4, <1>14, <2>1, <2>2
<1>20. SourceAt(u)'
  BY <1>4, <1>19 DEF SourceAt, WipeAt
<1> QED BY <1>15, <1>18, <1>20

(* The symbol after another that is decoded. *)
LEMMA DecodedNext ==
  ASSUME NEW a \in ChainSymbols, NEW b \in ChainSymbols, a.part \in {"header", "payload"},
         \/ b.part = a.part /\ b.place = a.place + 1
         \/ b.part = "payload" /\ b.place = 1 /\ a.part = "header" /\ a.place = ChainHeader
  PROVE  <<a, b>> \in InDecoded
<1>1. a.place \in Nat \ {0} /\ b.place \in Nat \ {0} /\ ChainHeader \in Nat
  BY ChainSizes DEF ChainSymbols
<1>2. Base(b) = Base(a) + 2
  BY <1>1 DEF Base
<1> HIDE DEF ChainSymbols
<1> QED BY <1>2 DEF InDecoded, DecodedAfter

(* A call of SyncwordRemove on n symbols, from f to u. *)
LEMMA RemoveIs ==
  ASSUME NEW d, NEW f, <<d, f>> \in InStream, f.part # "noise", RemoveAt(d),
         NEW n \in Nat \ {0}, NEW u \in ChainSymbols, u.part = f.part, u.place = f.place + (n - 1),
         NEW tag, tag = DEC!TagOf(f), NEW tagged \in BOOLEAN, tagged <=> tag = "detection",
         DEC!REMOVE!Remove(n, tagged)
  PROVE  /\ RemoveAt(u)'
         /\ f.part = "syncword" => DEC!REMOVE!Drops(n, tagged) = n
         /\ f.part # "syncword" => DEC!REMOVE!Drops(n, tagged) = 0 /\ DEC!REMOVE!Passes(tagged)
<1>1. /\ remove_in_syncword \in BOOLEAN /\ remove_position \in 0 .. ChainSyncword
      /\ remove_in_syncword <=> (d.part = "syncword" /\ d.place < ChainSyncword)
      /\ remove_in_syncword => remove_position = d.place
  BY DEF RemoveAt
<1>2. d \in ChainSymbols /\ f \in ChainSymbols /\ tag \in ChainTags
  BY FirstIs
<1>3. /\ d.place \in Nat \ {0} /\ f.place \in Nat \ {0} /\ u.place \in Nat \ {0}
      /\ u.part = "syncword" => u.place <= ChainSyncword
      /\ f.part = "syncword" => f.place <= ChainSyncword
      /\ f.part \in {"syncword", "header", "payload"}
  BY <1>2 DEF ChainSymbols
<1>4. CASE f.part = "syncword"
  <2>1. /\ DEC!REMOVE!Inside(tagged)
        /\ DEC!REMOVE!From(tagged) = f.place - 1
    <3>1. CASE tag = "detection"
      <4>1. f.place = 1 /\ d.part # "syncword"
        BY <3>1, FirstIs
      <4>2. ~remove_in_syncword
        BY <1>1, <4>1
      <4>3. tagged /\ f.place - 1 = 0
        BY <3>1, <4>1
      <4> QED BY <4>2, <4>3 DEF DEC!REMOVE!Inside, DEC!REMOVE!From, DEC!REMOVE!Starts
    <3>2. CASE tag = "none"
      <4>1. d.part = "syncword" /\ f.place = d.place + 1
        BY <1>4, <3>2, FirstIs
      <4>2. d.place < ChainSyncword /\ d.place = f.place - 1
        BY <1>3, <1>4, <4>1, ChainSizes
      <4>3. remove_in_syncword /\ remove_position = d.place
        BY <1>1, <4>1, <4>2
      <4> QED BY <4>2, <4>3 DEF DEC!REMOVE!Inside, DEC!REMOVE!From, DEC!REMOVE!Starts
    <3>3. tag # "header" /\ tag # "payload"
      BY <1>4, FirstIs
    <3> QED BY <1>2, <3>1, <3>2, <3>3 DEF ChainTags
  <2>2. u.place \in Nat /\ f.place - 1 \in Nat /\ (f.place - 1) + n = u.place /\ u.place <= ChainSyncword
    BY <1>3, <1>4
  <2>3. DEC!REMOVE!Drops(n, tagged) = n
    BY <2>1, <2>2, ChainSizes DEF DEC!REMOVE!Drops, DEC!REMOVE!Lesser
  <2>4. remove_position' = u.place
    BY <2>1, <2>2, <2>3 DEF DEC!REMOVE!Remove
  <2>5. remove_in_syncword' = (remove_position' < ChainSyncword)
    BY <2>1 DEF DEC!REMOVE!Remove
  <2>6. remove_in_syncword' \in BOOLEAN /\ (remove_in_syncword' <=> u.place < ChainSyncword)
    <3>1. remove_in_syncword' = (u.place < ChainSyncword)
      BY <2>4, <2>5
    <3>2. (u.place < ChainSyncword) \in BOOLEAN
      OBVIOUS
    <3> QED BY <3>1, <3>2
  <2>7. u.place \in 0 .. ChainSyncword
    BY <2>2, ChainSizes
  <2>8. RemoveAt(u)'
    BY <1>4, <2>4, <2>6, <2>7 DEF RemoveAt
  <2> QED BY <1>4, <2>3, <2>8
<1>5. CASE f.part # "syncword"
  <2>1. tag # "detection" /\ ~(d.part = "syncword" /\ d.place < ChainSyncword)
    <3>1. tag # "detection"
      BY <1>5, FirstIs
    <3>2. CASE tag = "header"
      <4>1. d.place = ChainSyncword
        BY <3>2, FirstIs
      <4> QED BY <3>1, <4>1, ChainSizes
    <3>3. CASE tag = "payload"
      <4>1. d.part = "header"
        BY <3>3, FirstIs
      <4> QED BY <3>1, <4>1
    <3>4. CASE tag = "none"
      <4>1. d.part = f.part
        BY <3>4, FirstIs
      <4> QED BY <1>5, <3>1, <4>1
    <3> QED BY <1>2, <3>1, <3>2, <3>3, <3>4 DEF ChainTags
  <2>2. ~remove_in_syncword
    BY <1>1, <2>1
  <2>3. ~DEC!REMOVE!Inside(tagged)
    BY <2>1, <2>2 DEF DEC!REMOVE!Inside
  <2>4. DEC!REMOVE!Drops(n, tagged) = 0 /\ DEC!REMOVE!Passes(tagged)
    BY <2>3 DEF DEC!REMOVE!Drops, DEC!REMOVE!Passes
  <2>5. remove_in_syncword' = remove_in_syncword /\ remove_position' = remove_position
    BY <2>3 DEF DEC!REMOVE!Remove
  <2>6. RemoveAt(u)'
    BY <1>1, <1>5, <2>2, <2>5 DEF RemoveAt
  <2> QED BY <1>5, <2>4, <2>6
<1> QED BY <1>4, <1>5

(* A call of SyncwordRemove takes the syncword out of the link. *)
LEMMA DropKeeps ==
  ASSUME NEW t \in ChainSymbols, NEW d \in ChainSymbols, NEW e \in ChainSymbols,
         TrackedAt(t, d), RemovedAt(d, e),
         NEW n \in Nat \ {0}, n <= Len(tracked), DEC!Drop(n)
  PROVE  \E u \in ChainSymbols : TrackedAt(t, u)' /\ RemovedAt(u, e)'
<1>1. /\ tracked \in Seq(Trackeds) /\ Joined(InStream, d, tracked) /\ t = LastOf(d, tracked)
      /\ removed \in Seq(Removeds) /\ Joined(InDecoded, e, removed) /\ RemoveAt(d)
      /\ d.part \in {"header", "payload"} => LastOf(e, removed) = d
  BY DEF TrackedAt, RemovedAt
<1>2. PICK k \in Nat : k = Len(tracked) /\ n \in 1 .. k /\ n \in 1 .. Len(tracked)
  <2> HIDE DEF Trackeds
  <2> QED BY <1>1
<1>3. \A i \in 1 .. k : /\ tracked[i].symbol \in ChainSymbols /\ tracked[i].symbol.part # "noise"
                        /\ tracked[i].tag = DEC!TagOf(tracked[i].symbol)
                        /\ tracked[i].tag \in ChainTags
  <2>1. ASSUME NEW i \in 1 .. k
        PROVE  tracked[i] \in Trackeds
    <3> HIDE DEF Trackeds
    <3> QED BY <1>1, <1>2
  <2>2. \A x \in Trackeds : /\ x.symbol \in ChainSymbols /\ x.symbol.part # "noise"
                            /\ x.tag = DEC!TagOf(x.symbol) /\ x.tag \in ChainTags
    <3> HIDE DEF ChainSymbols, Trackings
    <3> QED BY DEF Trackeds
  <2> QED BY <2>1, <2>2
<1>4. PICK f, u, tag, tagged :
         /\ f = tracked[1].symbol /\ u = tracked[n].symbol
         /\ tag = tracked[1].tag /\ tagged = (tracked[1].tag = "detection")
  OBVIOUS
<1>5. PICK drops : drops = DEC!REMOVE!Drops(n, tagged)
  OBVIOUS
<1>6. PICK add : add = [i \in 1 .. n - drops |->
                          [symbol |-> tracked[drops + i].symbol,
                           tag |-> IF i = 1 /\ DEC!REMOVE!Passes(tagged) THEN tag ELSE "none"]]
  OBVIOUS
<1>7. /\ DEC!IsChunk(tracked, n) /\ DEC!REMOVE!Remove(n, tagged)
      /\ removed' = removed \o add /\ tracked' = DEC!Rest(tracked, n)
      /\ phase' = phase /\ constellation' = constellation
  BY <1>4, <1>5, <1>6 DEF DEC!Drop, DEC!costas_vars
<1>8. \A i \in 1 .. n : /\ tracked[i].symbol \in ChainSymbols
                        /\ tracked[i].symbol.packet = f.packet
                        /\ tracked[i].symbol.part = f.part
                        /\ tracked[i].symbol.place = f.place + (i - 1)
  <2>1. \A i \in 1 .. n : /\ tracked[i].symbol \in ChainSymbols
                          /\ tracked[i].symbol.packet = tracked[1].symbol.packet
                          /\ tracked[i].symbol.part = tracked[1].symbol.part
                          /\ tracked[i].symbol.place = tracked[1].symbol.place + (i - 1)
    <3>1. \A i \in 1 .. n : tracked[i].symbol.part # "noise" /\ tracked[i].tag = DEC!TagOf(tracked[i].symbol)
      BY <1>2, <1>3
    <3>2. Len(tracked) \in Nat
      BY <1>2
    <3> QED BY <1>1, <1>2, <1>7, <3>1, <3>2, ChunkSame
  <2> QED BY <1>4, <2>1
<1>9. f \in ChainSymbols /\ f.part # "noise" /\ tag = DEC!TagOf(f) /\ tag \in ChainTags
  <2>1. 1 \in 1 .. k
    BY <1>2
  <2> QED BY <1>3, <1>4, <2>1
<1>10. u \in ChainSymbols /\ u.part = f.part /\ u.place = f.place + (n - 1)
  <2>1. n \in 1 .. n
    OBVIOUS
  <2> QED BY <1>4, <1>8, <2>1
<1>11. <<d, f>> \in InStream
  BY <1>1, <1>2, <1>4 DEF Joined
<1>12. /\ RemoveAt(u)'
       /\ f.part = "syncword" => drops = n
       /\ f.part # "syncword" => drops = 0 /\ DEC!REMOVE!Passes(tagged)
  <2>1. /\ RemoveAt(u)'
        /\ f.part = "syncword" => DEC!REMOVE!Drops(n, tagged) = n
        /\ f.part # "syncword" => DEC!REMOVE!Drops(n, tagged) = 0 /\ DEC!REMOVE!Passes(tagged)
    <3>1. tagged \in BOOLEAN /\ (tagged <=> tag = "detection")
      BY <1>4
    <3>2. n \in Nat \ {0} /\ RemoveAt(d) /\ DEC!REMOVE!Remove(n, tagged)
      BY <1>1, <1>7 DEF RemovedAt
    <3>3. /\ f.part # "noise" /\ tag = DEC!TagOf(f)
          /\ u \in ChainSymbols /\ u.part = f.part /\ u.place = f.place + (n - 1)
      BY <1>9, <1>10
    <3> QED BY <1>11, <3>1, <3>2, <3>3, RemoveIs
  <2> QED BY <1>5, <2>1
<1>13. TrackedAt(t, u)'
  <2>1. DEC!Rest(tracked, n) \in Seq(Trackeds)
    <3>1. n \in 0 .. Len(tracked)
      BY <1>2
    <3> QED BY <1>1, <3>1, RestIs
  <2>2. /\ Joined(InStream, tracked[n].symbol, DEC!Rest(tracked, n))
        /\ LastOf(tracked[n].symbol, DEC!Rest(tracked, n)) = LastOf(d, tracked)
    BY <1>1, <1>2, JoinedRest
  <2>3. TracksAt(t)'
    BY <1>7 DEF TrackedAt, TracksAt
  <2> QED BY <1>1, <1>4, <1>7, <2>1, <2>2, <2>3 DEF TrackedAt
<1>14. PICK x : x = LastOf(e, removed)
  OBVIOUS
<1>15. /\ add \in Seq(Removeds) /\ Joined(InDecoded, x, add)
       /\ u.part \in {"header", "payload"} => LastOf(x, add) = u
  <2>1. CASE f.part = "syncword"
    <3>1. add = << >>
      BY <1>6, <1>12, <2>1
    <3>2. add \in Seq(Removeds) /\ Len(add) = 0
      BY <3>1
    <3> QED BY <1>10, <2>1, <3>2 DEF Joined
  <2>2. CASE f.part # "syncword"
    <3>1. add = [i \in 1 .. n |-> [symbol |-> tracked[0 + i].symbol, tag |-> IF i = 1 THEN tag ELSE "none"]]
      BY <1>6, <1>12, <2>2
    <3>2. f.part \in {"header", "payload"}
      BY <1>9, <2>2 DEF ChainSymbols
    <3>3. \A i \in 1 .. n : add[i] \in Removeds /\ add[i].symbol = tracked[i].symbol
      <4>1. ASSUME NEW i \in 1 .. n
            PROVE  add[i] \in Removeds /\ add[i].symbol = tracked[i].symbol
        <5>1. PICK y, g : y = tracked[i].symbol /\ g = tracked[i].tag
          OBVIOUS
        <5>2. i \in 1 .. k /\ 0 + i = i
          BY <1>2
        <5>3. y \in ChainSymbols /\ g = DEC!TagOf(y) /\ g \in ChainTags /\ y.part = f.part
          BY <1>3, <1>8, <5>1, <5>2
        <5>4. g = IF i = 1 THEN tag ELSE "none"
          <6>1. i # 1 => i \in 2 .. n
            OBVIOUS
          <6>2. i # 1 => tracked[i].tag = "none"
            BY <1>7, <6>1 DEF DEC!IsChunk
          <6> QED BY <1>4, <5>1, <6>2
        <5>5. add[i] = [symbol |-> y, tag |-> g]
          BY <3>1, <5>1, <5>2, <5>4
        <5> HIDE DEF ChainSymbols
        <5> QED BY <3>2, <5>1, <5>3, <5>5 DEF Removeds
      <4> QED BY <4>1
    <3>4. add \in Seq(Removeds) /\ Len(add) = n
      <4> HIDE DEF Removeds
      <4> QED BY <3>1, <3>3
    <3>5. <<x, f>> \in InDecoded
      <4>1. CASE tag = "header"
        <5>1. f.part = "header" /\ f.place = 1
          BY <1>9, <1>11, <4>1, FirstIs
        <5>2. x \in ChainSymbols
          <6>1. \A y \in Removeds : y.symbol \in ChainSymbols
            <7> HIDE DEF ChainSymbols
            <7> QED BY DEF Removeds
          <6> QED BY <1>1, <1>14, <6>1, LastIn
        <5> HIDE DEF ChainSymbols
        <5> QED BY <1>9, <5>1, <5>2 DEF InDecoded, DecodedAfter
      <4>2. CASE tag = "payload"
        <5>1. f.part = "payload" /\ f.place = 1 /\ d.part = "header" /\ d.place = ChainHeader
          BY <1>9, <1>11, <4>2, FirstIs
        <5>2. x = d
          BY <1>1, <1>14, <5>1
        <5> QED BY <1>9, <5>1, <5>2, DecodedNext
      <4>3. CASE tag = "none"
        <5>1. f.part = d.part /\ f.place = d.place + 1
          BY <1>9, <1>11, <4>3, FirstIs
        <5>2. x = d /\ d.part \in {"header", "payload"}
          BY <1>1, <1>14, <3>2, <5>1
        <5> QED BY <1>9, <5>1, <5>2, DecodedNext
      <4>4. tag # "detection"
        BY <1>9, <1>11, <2>2, FirstIs
      <4> QED BY <1>9, <4>1, <4>2, <4>3, <4>4 DEF ChainTags
    <3>6. Joined(InDecoded, x, add)
      <4>1. ASSUME NEW i \in 1 .. n
            PROVE  <<IF i = 1 THEN x ELSE add[i - 1].symbol, add[i].symbol>> \in InDecoded
        <5>1. CASE i = 1
          BY <1>4, <3>3, <3>5, <5>1
        <5>2. CASE i # 1
          <6>1. i - 1 \in 1 .. n /\ i \in Nat
            BY <5>2
          <6>2. PICK y, z : y = tracked[i - 1].symbol /\ z = tracked[i].symbol
            OBVIOUS
          <6>3. y \in ChainSymbols /\ y.part = f.part /\ y.place = f.place + ((i - 1) - 1)
            BY <1>8, <6>1, <6>2
          <6>4. z \in ChainSymbols /\ z.part = f.part /\ z.place = f.place + (i - 1)
            BY <1>8, <6>2
          <6>5. f.place \in Nat
            BY <1>9 DEF ChainSymbols
          <6>6. z.place = y.place + 1
            BY <6>1, <6>3, <6>4, <6>5
          <6>7. <<y, z>> \in InDecoded
            BY <3>2, <6>3, <6>4, <6>6, DecodedNext
          <6>8. add[i - 1].symbol = y /\ add[i].symbol = z
            BY <3>3, <6>1, <6>2
          <6> QED BY <5>2, <6>7, <6>8
        <5> QED BY <5>1, <5>2
      <4> QED BY <3>4, <4>1 DEF Joined
    <3>7. LastOf(x, add) = u
      <4>1. n \in 1 .. n /\ n # 0
        OBVIOUS
      <4> QED BY <1>4, <3>3, <3>4, <4>1 DEF LastOf
    <3> QED BY <3>4, <3>6, <3>7
  <2> QED BY <2>1, <2>2
<1>16. removed' \in Seq(Removeds) /\ Joined(InDecoded, e, removed')
       /\ LastOf(e, removed') = LastOf(x, add)
  <2>1. removed \o add \in Seq(Removeds)
    BY <1>1, <1>15, ConcatIs
  <2>2. Joined(InDecoded, e, removed \o add) /\ LastOf(e, removed \o add) = LastOf(x, add)
    BY <1>1, <1>14, <1>15, JoinedOn
  <2> QED BY <1>7, <2>1, <2>2
<1>17. RemovedAt(u, e)'
  BY <1>12, <1>15, <1>16 DEF RemovedAt
<1> QED BY <1>10, <1>13, <1>17

(* Two stretches of soft bits, one behind the other. *)
LEMMA JoinedBitsOn ==
  ASSUME NEW X, NEW l \in Seq(X), NEW m \in Seq(X), NEW p,
         JoinedBits(p, l), JoinedBits(LastPlace(p, l), m)
  PROVE  JoinedBits(p, l \o m) /\ LastPlace(p, l \o m) = LastPlace(LastPlace(p, l), m)
<1>1. PICK k \in Nat, n \in Nat : k = Len(l) /\ n = Len(m)
  OBVIOUS
<1>2. PICK q : q = LastPlace(p, l)
  OBVIOUS
<1>3. PICK z : /\ z = l \o m /\ Len(z) = k + n
               /\ \A i \in 1 .. k : z[i] = l[i]
               /\ \A i \in 1 .. n : z[k + i] = m[i]
  <2>1. /\ Len(l \o m) = Len(l) + Len(m)
        /\ \A i \in 1 .. Len(l) : (l \o m)[i] = l[i]
        /\ \A i \in 1 .. Len(m) : (l \o m)[Len(l) + i] = m[i]
    BY ConcatIs
  <2> QED BY <1>1, <2>1
<1>4. ASSUME NEW i \in 1 .. k + n
      PROVE  DEC!PlaceOf(z[i]) =
               IF z[i].tag = "header" THEN 1
               ELSE (IF i = 1 THEN p ELSE DEC!PlaceOf(z[i - 1])) + 1
  <2>1. CASE i <= k
    <3>1. i \in 1 .. k /\ (i # 1 => i - 1 \in 1 .. k)
      BY <2>1
    <3>2. DEC!PlaceOf(l[i]) =
            IF l[i].tag = "header" THEN 1
            ELSE (IF i = 1 THEN p ELSE DEC!PlaceOf(l[i - 1])) + 1
      BY <1>1, <3>1 DEF JoinedBits
    <3>3. z[i] = l[i] /\ (i # 1 => z[i - 1] = l[i - 1])
      BY <1>3, <3>1
    <3> QED BY <3>2, <3>3
  <2>2. CASE i > k
    <3>1. PICK j \in 1 .. n : j = i - k /\ i = k + j
      BY <2>2
    <3>2. DEC!PlaceOf(m[j]) =
            IF m[j].tag = "header" THEN 1
            ELSE (IF j = 1 THEN q ELSE DEC!PlaceOf(m[j - 1])) + 1
      BY <1>1, <1>2 DEF JoinedBits
    <3>3. z[i] = m[j]
      BY <1>3, <3>1
    <3>4. CASE j # 1
      <4>1. j - 1 \in 1 .. n /\ i # 1 /\ i - 1 = k + (j - 1)
        BY <3>1, <3>4
      <4>2. z[i - 1] = m[j - 1]
        BY <1>3, <4>1
      <4> QED BY <3>2, <3>3, <3>4, <4>1, <4>2
    <3>5. CASE j = 1 /\ k = 0
      <4>1. q = p /\ i = 1
        BY <1>1, <1>2, <3>1, <3>5 DEF LastPlace
      <4> QED BY <3>2, <3>3, <3>5, <4>1
    <3>6. CASE j = 1 /\ k # 0
      <4>1. q = DEC!PlaceOf(l[k]) /\ i - 1 = k /\ k \in 1 .. k /\ i # 1
        BY <1>1, <1>2, <3>1, <3>6 DEF LastPlace
      <4>2. z[i - 1] = l[k]
        BY <1>3, <4>1
      <4> QED BY <3>2, <3>3, <3>6, <4>1, <4>2
    <3> QED BY <3>4, <3>5, <3>6
  <2> QED BY <2>1, <2>2
<1>5. JoinedBits(p, z)
  BY <1>3, <1>4 DEF JoinedBits
<1>6. LastPlace(p, z) = LastPlace(q, m)
  <2>1. CASE n = 0 /\ k = 0
    BY <1>1, <1>2, <1>3, <2>1 DEF LastPlace
  <2>2. CASE n = 0 /\ k # 0
    <3>1. k \in 1 .. k /\ Len(z) = k
      BY <1>3, <2>2
    <3> QED BY <1>1, <1>2, <1>3, <2>2, <3>1 DEF LastPlace
  <2>3. CASE n # 0
    <3>1. n \in 1 .. n /\ k + n # 0
      BY <2>3
    <3> QED BY <1>1, <1>3, <2>3, <3>1 DEF LastPlace
  <2> QED BY <2>1, <2>2, <2>3
<1> QED BY <1>2, <1>3, <1>5, <1>6

(* Nothing is taken. *)
LEMMA RestNone ==
  ASSUME NEW X, NEW l \in Seq(X)
  PROVE  DEC!Rest(l, 0) = l
<1>1. 0 \in 0 .. Len(l)
  OBVIOUS
<1>2. /\ DEC!Rest(l, 0) \in Seq(X) /\ Len(DEC!Rest(l, 0)) = Len(l) - 0
      /\ \A i \in 1 .. Len(l) - 0 : DEC!Rest(l, 0)[i] = l[0 + i]
  BY <1>1, RestIs
<1>3. PICK r \in Seq(X) : r = DEC!Rest(l, 0)
  BY <1>2
<1>4. Len(r) = Len(l) /\ \A i \in 1 .. Len(l) : r[i] = l[i]
  BY <1>2, <1>3
<1> QED BY <1>3, <1>4

(* Where bit b of symbol j is among the soft bits, and the item there. *)
BitPlace(j, b) == 2 * (j - 1) + b
SoftItem(l, g, i) ==
  [symbol |-> l[((i - 1) \div 2) + 1].symbol, bit |-> ((i - 1) % 2) + 1,
   tag |-> IF i = 1 THEN g ELSE "none"]

(* The soft bits of the first c symbols of l. *)
AreBits(add, l, c) ==
  /\ Len(add) = 2 * c
  /\ \A j \in 1 .. c, b \in 1 .. 2 :
       add[BitPlace(j, b)] = [symbol |-> l[j].symbol, bit |-> b,
                              tag |-> IF j = 1 /\ b = 1 THEN l[1].tag ELSE "none"]

(* Every bit has its place, of which there are two for a symbol. *)
LEMMA BitOf ==
  ASSUME NEW c \in Nat, NEW i \in 1 .. 2 * c
  PROVE  \E j \in 1 .. c, b \in 1 .. 2 : i = BitPlace(j, b)
<1>1. PICK j : j = ((i - 1) \div 2) + 1
  OBVIOUS
<1>2. PICK b : b = ((i - 1) % 2) + 1
  OBVIOUS
<1>3. j \in 1 .. c /\ b \in 1 .. 2 /\ i = 2 * (j - 1) + b
  BY <1>1, <1>2
<1> QED BY <1>3 DEF BitPlace

(* The symbol and the bit of a place. *)
LEMMA BitAt ==
  ASSUME NEW c \in Nat, NEW j \in 1 .. c, NEW b \in 1 .. 2
  PROVE  /\ BitPlace(j, b) \in 1 .. 2 * c
         /\ ((BitPlace(j, b) - 1) \div 2) + 1 = j
         /\ ((BitPlace(j, b) - 1) % 2) + 1 = b
BY DEF BitPlace

(* What is in that place. *)
LEMMA BitIs ==
  ASSUME NEW l, NEW c \in Nat, NEW g, NEW j \in 1 .. c, NEW b \in 1 .. 2
  PROVE  SoftItem(l, g, BitPlace(j, b)) = [symbol |-> l[j].symbol, bit |-> b,
                                           tag |-> IF j = 1 /\ b = 1 THEN g ELSE "none"]
<1>1. PICK i : i = BitPlace(j, b)
  OBVIOUS
<1>2. ((i - 1) \div 2) + 1 = j /\ ((i - 1) % 2) + 1 = b
  BY <1>1, BitAt
<1>3. i = 1 <=> j = 1 /\ b = 1
  BY <1>1 DEF BitPlace
<1>4. SoftItem(l, g, i) = [symbol |-> l[j].symbol, bit |-> b, tag |-> IF i = 1 THEN g ELSE "none"]
  BY <1>2, Zenon DEF SoftItem
<1>5. (IF i = 1 THEN g ELSE "none") = (IF j = 1 /\ b = 1 THEN g ELSE "none")
  BY <1>3, Zenon
<1> QED BY <1>1, <1>4, <1>5, Zenon

(* The places of a symbol's bits. *)
LEMMA PlaceIs ==
  ASSUME NEW s \in ChainSymbols, NEW x, x.symbol = s, x.bit \in 1 .. 2
  PROVE  DEC!PlaceOf(x) = Base(s) + x.bit /\ Base(s) \in Nat
<1>1. s.place \in Nat \ {0} /\ ChainHeader \in Nat
  BY ChainSizes DEF ChainSymbols
<1> QED BY <1>1 DEF DEC!PlaceOf, Base

(* The symbol behind another. *)
LEMMA DecodedIs ==
  ASSUME NEW a, NEW b, <<a, b>> \in InDecoded, b.part \in {"header", "payload"}
  PROVE  /\ DEC!TagOf(b) = "header" => Base(b) = 0
         /\ DEC!TagOf(b) # "header" => a.part # "noise" /\ Base(b) = Base(a) + 2
         /\ a \in ChainSymbols /\ b \in ChainSymbols
<1>1. a \in ChainSymbols /\ b \in ChainSymbols /\ DecodedAfter(a, b)
  <2> HIDE DEF ChainSymbols
  <2> QED BY DEF InDecoded
<1>2. DEC!TagOf(b) = "header" <=> b.part = "header" /\ b.place = 1
  BY <1>1, TagIs
<1> QED BY <1>1, <1>2 DEF DecodedAfter, Base

(* The bits of c symbols. *)
LEMMA BitsJoin ==
  ASSUME NEW e \in ChainSymbols, NEW q, e.part # "noise" => q = Base(e) + 2,
         NEW l, NEW c \in Nat, Len(l) \in Nat, c <= Len(l), Joined(InDecoded, e, l),
         \A i \in 1 .. c : l[i] \in Removeds,
         \A i \in 2 .. c : l[i].tag = "none",
         NEW add, AreBits(add, l, c)
  PROVE  /\ \A i \in 1 .. 2 * c : add[i] \in Softs
         /\ JoinedBits(q, add)
<1>1. \A i \in 1 .. c : /\ l[i].symbol \in ChainSymbols /\ l[i].symbol.part \in {"header", "payload"}
                        /\ l[i].tag = DEC!TagOf(l[i].symbol) /\ l[i].tag \in ChainTags
  <2>1. \A x \in Removeds : /\ x.symbol \in ChainSymbols /\ x.symbol.part \in {"header", "payload"}
                            /\ x.tag = DEC!TagOf(x.symbol) /\ x.tag \in ChainTags
    <3> HIDE DEF ChainSymbols
    <3> QED BY DEF Removeds
  <2> QED BY <2>1
<1>2. ASSUME NEW j \in 1 .. c, NEW b \in 1 .. 2
      PROVE  /\ l[j].symbol \in ChainSymbols /\ l[j].symbol.part \in {"header", "payload"}
             /\ add[BitPlace(j, b)] \in Softs
             /\ DEC!PlaceOf(add[BitPlace(j, b)]) = Base(l[j].symbol) + b /\ Base(l[j].symbol) \in Nat
             /\ add[BitPlace(j, b)].tag = IF b = 1 THEN DEC!TagOf(l[j].symbol) ELSE "none"
  <2>0. PICK i, s : i = BitPlace(j, b) /\ s = l[j].symbol
    OBVIOUS
  <2>1. PICK g : g = IF j = 1 /\ b = 1 THEN l[1].tag ELSE "none"
    OBVIOUS
  <2>2. add[i] = [symbol |-> s, bit |-> b, tag |-> g]
    BY <2>0, <2>1 DEF AreBits
  <2>3. /\ s \in ChainSymbols /\ s.part \in {"header", "payload"}
        /\ l[j].tag = DEC!TagOf(s) /\ l[j].tag \in ChainTags
    BY <1>1, <2>0
  <2>4. j # 1 => l[j].tag = "none"
    <3>1. j # 1 => j \in 2 .. c
      OBVIOUS
    <3> QED BY <3>1
  <2>5. g = IF b = 1 THEN DEC!TagOf(s) ELSE "none"
    BY <2>1, <2>3, <2>4
  <2>6. g \in ChainTags
    BY <2>3, <2>5 DEF ChainTags
  <2>7. add[i] \in Softs
    <3> HIDE DEF ChainSymbols, ChainTags
    <3> QED BY <2>2, <2>3, <2>5, <2>6 DEF Softs
  <2>8. DEC!PlaceOf(add[i]) = Base(s) + add[i].bit /\ Base(s) \in Nat
    <3>1. add[i].symbol = s /\ add[i].bit \in 1 .. 2
      BY <2>2
    <3> QED BY <2>3, <3>1, PlaceIs
  <2>9. add[i].bit = b /\ add[i].tag = g
    BY <2>2
  <2> QED BY <2>0, <2>3, <2>5, <2>7, <2>8, <2>9
<1>3. \A i \in 1 .. 2 * c : add[i] \in Softs
  <2>1. ASSUME NEW i \in 1 .. 2 * c
        PROVE  add[i] \in Softs
    <3>1. PICK j \in 1 .. c, b \in 1 .. 2 : i = BitPlace(j, b)
      BY BitOf
    <3> QED BY <1>2, <3>1
  <2> QED BY <2>1
<1>4. ASSUME NEW i \in 1 .. 2 * c
      PROVE  DEC!PlaceOf(add[i]) =
               IF add[i].tag = "header" THEN 1
               ELSE (IF i = 1 THEN q ELSE DEC!PlaceOf(add[i - 1])) + 1
  <2>1. PICK j \in 1 .. c, b \in 1 .. 2 : i = BitPlace(j, b)
    BY BitOf
  <2>2. /\ i = 1 <=> j = 1 /\ b = 1
        /\ b = 2 => i # 1 /\ i - 1 = BitPlace(j, 1)
        /\ b = 1 /\ j # 1 => i # 1 /\ j - 1 \in 1 .. c /\ i - 1 = BitPlace(j - 1, 2)
    BY <2>1 DEF BitPlace
  <2>3. PICK s : s = l[j].symbol
    OBVIOUS
  <2>4. PICK x : x = add[i]
    OBVIOUS
  <2>5. /\ s \in ChainSymbols /\ s.part \in {"header", "payload"}
        /\ DEC!PlaceOf(x) = Base(s) + b /\ Base(s) \in Nat
        /\ x.tag = IF b = 1 THEN DEC!TagOf(s) ELSE "none"
    BY <1>2, <2>1, <2>3, <2>4
  <2>6. PICK h, y : h = i - 1 /\ y = add[h]
    OBVIOUS
  <2>7. CASE b = 2
    <3>1. DEC!PlaceOf(y) = Base(s) + 1
      <4>1. h = BitPlace(j, 1) /\ 1 \in 1 .. 2
        BY <2>2, <2>6, <2>7
      <4> QED BY <1>2, <2>3, <2>6, <4>1
    <3>2. i # 1 /\ x.tag = "none"
      BY <2>2, <2>5, <2>7
    <3>3. DEC!PlaceOf(x) = DEC!PlaceOf(y) + 1
      BY <2>5, <2>7, <3>1
    <3> QED BY <2>4, <2>6, <3>2, <3>3
  <2>8. PICK a : a = IF j = 1 THEN e ELSE l[j - 1].symbol
    OBVIOUS
  <2>9. /\ DEC!TagOf(s) = "header" => Base(s) = 0
        /\ DEC!TagOf(s) # "header" => a.part # "noise" /\ Base(s) = Base(a) + 2
        /\ a \in ChainSymbols
    <3>1. j \in 1 .. Len(l)
      OBVIOUS
    <3>2. <<a, s>> \in InDecoded
      BY <2>3, <2>8, <3>1 DEF Joined
    <3>3. DEC!TagOf(s) = "header" => Base(s) = 0
      BY <2>5, <3>2, DecodedIs
    <3>4. DEC!TagOf(s) # "header" => a.part # "noise" /\ Base(s) = Base(a) + 2
      BY <2>5, <3>2, DecodedIs
    <3>5. a \in ChainSymbols
      BY <2>5, <3>2, DecodedIs
    <3> QED BY <3>3, <3>4, <3>5
  <2>10. CASE b = 1 /\ DEC!TagOf(s) = "header"
    BY <2>4, <2>5, <2>9, <2>10
  <2>11. CASE b = 1 /\ DEC!TagOf(s) # "header" /\ j = 1
    <3>1. i = 1
      BY <2>2, <2>11
    <3>2. q = Base(e) + 2 /\ a = e
      BY <2>8, <2>9, <2>11
    <3> QED BY <2>4, <2>5, <2>9, <2>11, <3>1, <3>2
  <2>12. CASE b = 1 /\ DEC!TagOf(s) # "header" /\ j # 1
    <3>1. PICK k \in 1 .. c : k = j - 1 /\ i # 1 /\ h = BitPlace(k, 2) /\ 2 \in 1 .. 2
      BY <2>2, <2>6, <2>12
    <3>2. a = l[k].symbol
      BY <2>8, <2>12, <3>1
    <3>3. DEC!PlaceOf(y) = Base(a) + 2
      <4>1. DEC!PlaceOf(add[BitPlace(k, 2)]) = Base(l[k].symbol) + 2
        BY <1>2, <3>1
      <4> QED BY <2>6, <3>1, <3>2, <4>1
    <3>4. DEC!PlaceOf(x) = DEC!PlaceOf(y) + 1 /\ x.tag # "header"
      BY <2>5, <2>9, <2>12, <3>3
    <3> QED BY <2>4, <2>6, <3>1, <3>4
  <2> QED BY <2>7, <2>10, <2>11, <2>12
<1>5. JoinedBits(q, add)
  BY <1>4 DEF JoinedBits, AreBits
<1> QED BY <1>3, <1>5

(* The place of the last of these bits. *)
LEMMA BitsEnd ==
  ASSUME NEW q, NEW l, NEW c \in Nat \ {0}, l[c] \in Removeds, NEW add, AreBits(add, l, c)
  PROVE  LastPlace(q, add) = Base(l[c].symbol) + 2
<1>1. PICK s, x : s = l[c].symbol /\ x = add[BitPlace(c, 2)]
  OBVIOUS
<1>2. s \in ChainSymbols
  <2>1. \A y \in Removeds : y.symbol \in ChainSymbols
    <3> HIDE DEF ChainSymbols
    <3> QED BY DEF Removeds
  <2> QED BY <1>1, <2>1
<1>3. c \in 1 .. c /\ 2 \in 1 .. 2 /\ BitPlace(c, 2) = 2 * c /\ 2 * c # 0
  BY DEF BitPlace
<1>4. x.symbol = s /\ x.bit = 2
  <2>1. \A j \in 1 .. c, b \in 1 .. 2 :
          add[BitPlace(j, b)] = [symbol |-> l[j].symbol, bit |-> b,
                                 tag |-> IF j = 1 /\ b = 1 THEN l[1].tag ELSE "none"]
    BY DEF AreBits
  <2>2. x = [symbol |-> s, bit |-> 2, tag |-> IF c = 1 /\ 2 = 1 THEN l[1].tag ELSE "none"]
    BY <1>1, <1>3, <2>1
  <2> QED BY <2>2
<1>5. DEC!PlaceOf(x) = Base(s) + 2
  <2>1. x.bit \in 1 .. 2
    BY <1>4
  <2>2. DEC!PlaceOf(x) = Base(s) + x.bit
    BY <1>2, <1>4, <2>1, PlaceIs
  <2> QED BY <1>4, <2>2
<1> QED BY <1>1, <1>3, <1>5 DEF LastPlace, AreBits

(* A call of ConstellationLLRDecoder. *)
LEMMA DecodeKeeps ==
  ASSUME NEW d \in ChainSymbols, NEW e \in ChainSymbols, NEW p \in Nat,
         RemovedAt(d, e), SoftAt(e, p),
         NEW n \in Nat \ {0}, NEW space \in Nat \ {0}, n <= Len(removed), DEC!Decode(n, space)
  PROVE  \E v \in ChainSymbols : RemovedAt(d, v)' /\ SoftAt(v, p)'
<1>1. /\ removed \in Seq(Removeds) /\ Joined(InDecoded, e, removed) /\ RemoveAt(d)
      /\ d.part \in {"header", "payload"} => LastOf(e, removed) = d
      /\ llr_constellation = "QPSK" /\ refused = FALSE
      /\ soft \in Seq(Softs) /\ Len(soft) <= SoftCapacity /\ JoinedBits(p, soft)
      /\ e.part # "noise" => LastPlace(p, soft) = Base(e) + 2
  BY DEF RemovedAt, SoftAt
<1>2. PICK k \in Nat : k = Len(removed) /\ n \in 1 .. k
  <2> HIDE DEF Removeds
  <2> QED BY <1>1
<1>3. \A i \in 1 .. k : removed[i] \in Removeds /\ removed[i].symbol \in ChainSymbols
  <2>1. ASSUME NEW i \in 1 .. k
        PROVE  removed[i] \in Removeds
    <3> HIDE DEF Removeds
    <3> QED BY <1>1, <1>2
  <2>2. \A x \in Removeds : x.symbol \in ChainSymbols
    <3> HIDE DEF ChainSymbols
    <3> QED BY DEF Removeds
  <2> QED BY <2>1, <2>2
<1>4. PICK setting : setting = DEC!SettingOf(llr_constellation, removed[1].tag)
  OBVIOUS
<1>5. setting = "QPSK"
  <2>1. 1 \in 1 .. k
    BY <1>2
  <2>2. PICK g : g = removed[1].tag
    OBVIOUS
  <2>3. \A x \in Removeds : x.symbol \in ChainSymbols /\ x.symbol.part \in {"header", "payload"}
                            /\ x.tag = DEC!TagOf(x.symbol)
    <3> HIDE DEF ChainSymbols
    <3> QED BY DEF Removeds
  <2>4. PICK s \in ChainSymbols : s.part \in {"header", "payload"} /\ g = DEC!TagOf(s)
    BY <1>3, <2>1, <2>2, <2>3
  <2>5. g # "detection"
    BY <2>4, TagIs
  <2>6. setting = DEC!SettingOf("QPSK", g)
    BY <1>1, <1>4, <2>2
  <2>7. DEC!Constellation(g) \in {"QPSK", "same"}
    <3>1. CASE g = "header"
      BY <3>1 DEF DEC!Constellation
    <3>2. CASE g # "header"
      BY <2>5, <3>2 DEF DEC!Constellation
    <3> QED BY <3>1, <3>2
  <2> QED BY <2>6, <2>7 DEF DEC!SettingOf
<1>6. PICK c : c = DEC!Consumed(n, space, setting)
  OBVIOUS
<1>7. c \in Nat /\ c <= n /\ 2 * c <= space
  <2>1. c = IF n <= space \div 2 THEN n ELSE space \div 2
    BY <1>5, <1>6 DEF DEC!Consumed, DEC!Lesser, DEC!ChunkSize
  <2>2. space \div 2 \in Nat /\ 2 * (space \div 2) <= space
    OBVIOUS
  <2> QED BY <2>1, <2>2
<1>8. PICK add : add = [i \in 1 .. 2 * c |-> SoftItem(removed, removed[1].tag, i)]
  OBVIOUS
<1>9. /\ DEC!IsChunk(removed, n) /\ Len(soft) + space <= SoftCapacity
      /\ IF setting \in {"BPSK", "QPSK"}
           THEN llr_constellation' = setting /\ refused' = refused
           ELSE refused' = TRUE /\ llr_constellation' = llr_constellation
      /\ soft' = soft \o DEC!SoftBits(n, space, setting)
      /\ removed' = DEC!Rest(removed, c)
      /\ remove_in_syncword' = remove_in_syncword /\ remove_position' = remove_position
  BY <1>4, <1>6 DEF DEC!Decode, DEC!remove_vars
<1>10. llr_constellation' = "QPSK" /\ refused' = FALSE
  BY <1>1, <1>5, <1>9
<1>11. DEC!SoftBits(n, space, setting) = add
  BY <1>5, <1>6, <1>8 DEF DEC!SoftBits, DEC!ChunkSize, SoftItem
<1>12. PICK q : q = LastPlace(p, soft)
  OBVIOUS
<1>13. /\ add \in Seq(Softs) /\ Len(add) = 2 * c /\ JoinedBits(q, add)
       /\ c # 0 => LastPlace(q, add) = Base(removed[c].symbol) + 2
  <2>1. \A i \in 1 .. c : removed[i] \in Removeds
    BY <1>2, <1>3, <1>7
  <2>2. \A i \in 2 .. c : removed[i].tag = "none"
    BY <1>7, <1>9 DEF DEC!IsChunk
  <2>3. Len(removed) \in Nat /\ c <= Len(removed)
    BY <1>2, <1>7
  <2>4. e.part # "noise" => q = Base(e) + 2
    BY <1>1, <1>12
  <2>5. PICK l, g : l = removed /\ g = l[1].tag
    OBVIOUS
  <2>6. ASSUME NEW j \in 1 .. c, NEW b \in 1 .. 2
        PROVE  add[BitPlace(j, b)] = [symbol |-> l[j].symbol, bit |-> b,
                                      tag |-> IF j = 1 /\ b = 1 THEN g ELSE "none"]
    <3>1. PICK i : i = BitPlace(j, b)
      OBVIOUS
    <3>2. i \in 1 .. 2 * c
      BY <1>7, <3>1, BitAt
    <3>3. add[i] = SoftItem(l, g, i)
      BY <1>8, <2>5, <3>2
    <3>4. SoftItem(l, g, BitPlace(j, b)) = [symbol |-> l[j].symbol, bit |-> b,
                                            tag |-> IF j = 1 /\ b = 1 THEN g ELSE "none"]
      BY <1>7, BitIs
    <3> QED BY <3>1, <3>3, <3>4
  <2>7. Len(add) = 2 * c
    BY <1>7, <1>8
  <2>8. /\ \A i \in 1 .. 2 * c : add[i] \in Softs
        /\ JoinedBits(q, add)
        /\ c # 0 => LastPlace(q, add) = Base(l[c].symbol) + 2
    <3>1. AreBits(add, l, c)
      BY <2>5, <2>6, <2>7 DEF AreBits
    <3>2. /\ c \in Nat /\ Len(l) \in Nat /\ c <= Len(l) /\ Joined(InDecoded, e, l)
          /\ \A i \in 1 .. c : l[i] \in Removeds
          /\ \A i \in 2 .. c : l[i].tag = "none"
      BY <1>1, <1>7, <2>1, <2>2, <2>3, <2>5
    <3>3. \A i \in 1 .. 2 * c : add[i] \in Softs
      BY <2>4, <3>1, <3>2, BitsJoin
    <3>4. JoinedBits(q, add)
      BY <2>4, <3>1, <3>2, BitsJoin
    <3>5. ASSUME c # 0
          PROVE  LastPlace(q, add) = Base(l[c].symbol) + 2
      <4>1. c \in Nat \ {0} /\ l[c] \in Removeds
        BY <3>2, <3>5
      <4> QED BY <3>1, <4>1, BitsEnd
    <3> QED BY <3>3, <3>4, <3>5
  <2>9. add \in Seq(Softs)
    <3> HIDE DEF Softs
    <3>1. 2 * c \in Nat
      BY <1>7
    <3> QED BY <1>8, <2>8, <3>1
  <2> QED BY <2>5, <2>7, <2>8, <2>9
<1>14. /\ soft' \in Seq(Softs) /\ JoinedBits(p, soft')
       /\ LastPlace(p, soft') = LastPlace(q, add) /\ Len(soft') <= SoftCapacity
  <2>1. soft' = soft \o add
    BY <1>9, <1>11
  <2>2. soft \o add \in Seq(Softs) /\ Len(soft \o add) = Len(soft) + Len(add)
    BY <1>1, <1>13, ConcatIs
  <2>3. JoinedBits(p, soft \o add) /\ LastPlace(p, soft \o add) = LastPlace(q, add)
    BY <1>1, <1>12, <1>13, JoinedBitsOn
  <2>4. PICK z \in Nat : z = Len(soft)
    <3> HIDE DEF Softs
    <3> QED BY <1>1
  <2>5. z + 2 * c <= SoftCapacity
    BY <1>7, <1>9, <2>4, ChainSizes
  <2> QED BY <1>13, <2>1, <2>2, <2>3, <2>4, <2>5
<1>15. CASE c = 0
  <2>1. removed' = removed
    BY <1>1, <1>9, <1>15, RestNone
  <2>2. LastPlace(q, add) = q
    BY <1>13, <1>15 DEF LastPlace
  <2>3. RemovedAt(d, e)'
    BY <1>1, <1>9, <2>1 DEF RemovedAt, RemoveAt
  <2>4. SoftAt(e, p)'
    BY <1>1, <1>10, <1>12, <1>14, <2>2 DEF SoftAt
  <2> QED BY <2>3, <2>4
<1>16. CASE c # 0
  <2>1. PICK v : v = removed[c].symbol
    OBVIOUS
  <2>2. c \in 1 .. k /\ c \in 1 .. Len(removed) /\ c \in 0 .. Len(removed)
    BY <1>2, <1>7, <1>16
  <2>3. v \in ChainSymbols
    BY <1>3, <2>1, <2>2
  <2>4. DEC!Rest(removed, c) \in Seq(Removeds)
    BY <1>1, <2>2, RestIs
  <2>5. /\ Joined(InDecoded, removed[c].symbol, DEC!Rest(removed, c))
        /\ LastOf(removed[c].symbol, DEC!Rest(removed, c)) = LastOf(e, removed)
    BY <1>1, <2>2, JoinedRest
  <2>6. RemovedAt(d, v)'
    BY <1>1, <1>9, <2>1, <2>4, <2>5 DEF RemovedAt, RemoveAt
  <2>7. SoftAt(v, p)'
    BY <1>10, <1>13, <1>14, <1>16, <2>1 DEF SoftAt
  <2> QED BY <2>3, <2>6, <2>7
<1> QED BY <1>15, <1>16

(* The scrambler's states, and what is left of one between two calls. *)
ScrStates == [reg : SUBSET (0 .. Length), count : Nat, bits : Seq({0, 1})]
ScrStart(start) == [reg |-> start.reg, count |-> start.count, bits |-> <<>>]

(* From where it scrambles an item. *)
ScrNow(s, tagged) ==
  IF tagged \/ (Count # 0 /\ s.count = Count)
    THEN DEC!SCR!Reset ELSE [reg |-> s.reg, count |-> s.count]

(* A step of the register, from there. *)
LEMMA ScrambleIs ==
  ASSUME NEW s, NEW tagged, NEW now, now = ScrNow(s, tagged)
  PROVE  DEC!SCR!Scramble(s, tagged)
           = [count |-> now.count + 1, bits |-> Append(s.bits, DEC!SCR!LfsrBit(now.reg)),
              reg |-> DEC!SCR!Shift(now.reg)]
BY Zenon DEF DEC!SCR!Scramble, ScrNow

(* It stays among its states, and has a bit more. *)
LEMMA ScrambleIn ==
  ASSUME NEW s \in ScrStates, NEW tagged \in BOOLEAN
  PROVE  /\ DEC!SCR!Scramble(s, tagged) \in ScrStates
         /\ Len(DEC!SCR!Scramble(s, tagged).bits) = Len(s.bits) + 1
         /\ \A j \in 1 .. Len(s.bits) : DEC!SCR!Scramble(s, tagged).bits[j] = s.bits[j]
<1>1. Length \in Nat /\ Count \in Nat /\ Mask \subseteq 0 .. Length /\ Seed \subseteq 0 .. Length
  BY BlocksAssumption DEF DEC!SCR!ScramblerAssumption
<1>2. PICK now : now = ScrNow(s, tagged)
  OBVIOUS
<1>3. s.reg \in SUBSET (0 .. Length) /\ s.count \in Nat /\ s.bits \in Seq({0, 1})
  BY DEF ScrStates
<1>4. now.reg \subseteq 0 .. Length /\ now.count \in Nat
  <2>1. CASE now = DEC!SCR!Reset
    <3>1. now.reg = Seed /\ now.count = 0
      BY <2>1 DEF DEC!SCR!Reset
    <3> QED BY <1>1, <3>1
  <2>2. CASE now = [reg |-> s.reg, count |-> s.count]
    <3>1. now.reg = s.reg /\ now.count = s.count
      BY <2>2
    <3> QED BY <1>3, <3>1
  <2> QED BY <1>2, <2>1, <2>2 DEF ScrNow
<1>5. PICK r, b : r = DEC!SCR!Shift(now.reg) /\ b = DEC!SCR!LfsrBit(now.reg)
  OBVIOUS
<1>6. r \in SUBSET (0 .. Length)
  <2>1. DEC!SCR!ShiftRight(now.reg) \subseteq 0 .. Length
    BY <1>1, <1>4 DEF DEC!SCR!ShiftRight
  <2>2. Length \in 0 .. Length
    BY <1>1
  <2>3. r = DEC!SCR!ShiftRight(now.reg)
             \cup (IF DEC!SCR!Parity(now.reg \cap Mask) = 1 THEN {Length} ELSE {})
    BY <1>5 DEF DEC!SCR!Shift
  <2> QED BY <2>1, <2>2, <2>3
<1>7. b \in {0, 1}
  BY <1>5 DEF DEC!SCR!LfsrBit
<1>8. PICK x : x = DEC!SCR!Scramble(s, tagged)
  OBVIOUS
<1>9. x = [count |-> now.count + 1, bits |-> Append(s.bits, b), reg |-> r]
  <2>1. DEC!SCR!Scramble(s, tagged)
          = [count |-> now.count + 1, bits |-> Append(s.bits, DEC!SCR!LfsrBit(now.reg)),
             reg |-> DEC!SCR!Shift(now.reg)]
    BY <1>2, ScrambleIs
  <2> QED BY <1>5, <1>8, <2>1
<1>10. x \in ScrStates
  BY <1>3, <1>4, <1>6, <1>7, <1>9 DEF ScrStates
<1>11. x.bits = Append(s.bits, b)
  BY <1>9
<1>12. Len(x.bits) = Len(s.bits) + 1 /\ \A j \in 1 .. Len(s.bits) : x.bits[j] = s.bits[j]
  BY <1>3, <1>7, <1>11
<1> QED BY <1>8, <1>10, <1>12

(* The states that x and y follow from are not told apart by the bits. *)
Alike(x, s, y, z) ==
  /\ x.reg = y.reg /\ x.count = y.count
  /\ x.bits[Len(s.bits) + 1] = y.bits[Len(z.bits) + 1]

(* The bit and what follows depend on that alone. *)
LEMMA ScrambleLike ==
  ASSUME NEW s, NEW z, NEW on, NEW off,
         s.bits \in Seq({0, 1}), z.bits \in Seq({0, 1}), ScrNow(s, on) = ScrNow(z, off)
  PROVE  Alike(DEC!SCR!Scramble(s, on), s, DEC!SCR!Scramble(z, off), z)
<1>1. PICK now, x, y : /\ now = ScrNow(s, on) /\ now = ScrNow(z, off)
                       /\ x = DEC!SCR!Scramble(s, on) /\ y = DEC!SCR!Scramble(z, off)
  OBVIOUS
<1>2. x = [count |-> now.count + 1, bits |-> Append(s.bits, DEC!SCR!LfsrBit(now.reg)),
           reg |-> DEC!SCR!Shift(now.reg)]
  BY <1>1, ScrambleIs
<1>3. y = [count |-> now.count + 1, bits |-> Append(z.bits, DEC!SCR!LfsrBit(now.reg)),
           reg |-> DEC!SCR!Shift(now.reg)]
  BY <1>1, ScrambleIs
<1>4. PICK b : b = DEC!SCR!LfsrBit(now.reg)
  OBVIOUS
<1>5. Append(s.bits, b)[Len(s.bits) + 1] = b /\ Append(z.bits, b)[Len(z.bits) + 1] = b
  OBVIOUS
<1>6. Alike(x, s, y, z)
  BY <1>2, <1>3, <1>4, <1>5 DEF Alike
<1> QED BY <1>1, <1>6

(* What follows depends on the register and the count. *)
LEMMA ScrambleSame ==
  ASSUME NEW s \in ScrStates, NEW z \in ScrStates, NEW tagged,
         s.reg = z.reg, s.count = z.count, NEW x, NEW y,
         x = DEC!SCR!Scramble(s, tagged), y = DEC!SCR!Scramble(z, tagged)
  PROVE  /\ x.reg = y.reg /\ x.count = y.count
         /\ x.bits[Len(s.bits) + 1] = y.bits[Len(z.bits) + 1]
<1>1. ScrNow(s, tagged) = ScrNow(z, tagged)
  BY DEF ScrNow
<1>2. s.bits \in Seq({0, 1}) /\ z.bits \in Seq({0, 1})
  BY DEF ScrStates
<1>3. Alike(DEC!SCR!Scramble(s, tagged), s, DEC!SCR!Scramble(z, tagged), z)
  BY <1>1, <1>2, ScrambleLike
<1> QED BY <1>3 DEF Alike

(* With the tag, it does what it does at the beginning of a PDU. *)
LEMMA ScrambleReset ==
  ASSUME NEW s \in ScrStates, NEW z, z = ScrStart(DEC!SCR!Reset),
         NEW on \in BOOLEAN, on, NEW off \in BOOLEAN, ~off
  PROVE  Alike(DEC!SCR!Scramble(s, on), s, DEC!SCR!Scramble(z, off), z) /\ Len(z.bits) = 0
<1>1. PICK now : now = DEC!SCR!Reset
  OBVIOUS
<1>2. now = ScrNow(s, on)
  BY <1>1 DEF ScrNow
<1>3. now.count = 0 /\ now = [reg |-> now.reg, count |-> now.count]
  BY <1>1 DEF DEC!SCR!Reset
<1>4. z = [reg |-> now.reg, count |-> now.count, bits |-> <<>>]
  BY <1>1 DEF ScrStart
<1>5. now = ScrNow(z, off)
  <2>1. z.reg = now.reg /\ z.count = now.count
    BY <1>4
  <2>2. ~(Count # 0 /\ z.count = Count)
    BY <1>3, <2>1
  <2> QED BY <1>3, <2>1, <2>2 DEF ScrNow
<1>6. z.bits = <<>>
  BY <1>4
<1>7. s.bits \in Seq({0, 1}) /\ z.bits \in Seq({0, 1}) /\ Len(z.bits) = 0
  <2>1. s.bits \in Seq({0, 1})
    BY DEF ScrStates
  <2>2. z.bits \in Seq({0, 1}) /\ Len(z.bits) = 0
    BY <1>6
  <2> QED BY <2>1, <2>2
<1>8. ScrNow(s, on) = ScrNow(z, off)
  BY <1>2, <1>5
<1>9. Alike(DEC!SCR!Scramble(s, on), s, DEC!SCR!Scramble(z, off), z)
  BY <1>7, <1>8, ScrambleLike
<1> QED BY <1>7, <1>9

(* The states of a call. *)
Scrambles(w, start, tagged, n) ==
  /\ w[0] = ScrStart(start)
  /\ \A k \in 1 .. n : w[k] = DEC!SCR!Scramble(w[k - 1], tagged[k])
  /\ DEC!SCR!Run(start, tagged) = w[n]

(* There are some. *)
LEMMA ScrambleFolds ==
  ASSUME NEW start, ScrStart(start) \in ScrStates, NEW n \in Nat, NEW tagged \in [1 .. n -> BOOLEAN]
  PROVE  \E w : Scrambles(w, start, tagged, n)
<1> DEFINE S == 1 .. n
           first == ScrStart(start)
           op(it, s) == IF s = {} THEN first
                        ELSE DEC!SCR!Scramble(it[s \ {DEC!SCR!Max(s)}], tagged[DEC!SCR!Max(s)])
           iter == CHOOSE it : it = [s \in SUBSET S |-> op(it, s)]
<1>1. DEC!SCR!Run(start, tagged) = iter[S]
  <2>1. DOMAIN tagged = S
    OBVIOUS
  <2> QED BY <2>1 DEF DEC!SCR!Run, DEC!SCR!FoldLeft, DEC!SCR!MapThenFoldSet, ScrStart
<1>2. \A s : DEC!SCR!Max(s) = Greatest(s)
  BY DEF DEC!SCR!Max, Greatest
<1>3. PICK step : step = [p \in ScrStates \X (1 .. n) |-> DEC!SCR!Scramble(p[1], tagged[p[2]])]
  OBVIOUS
<1>4. step \in [ScrStates \X (1 .. n) -> ScrStates]
  <2>1. ASSUME NEW p \in ScrStates \X (1 .. n)
        PROVE  DEC!SCR!Scramble(p[1], tagged[p[2]]) \in ScrStates
    <3>1. p[1] \in ScrStates /\ tagged[p[2]] \in BOOLEAN
      OBVIOUS
    <3> QED BY <3>1, ScrambleIn
  <2> QED BY <1>3, <2>1
<1>5. PICK v : /\ v = [s \in SUBSET S |-> FoldOver(v, s, first, step)]
               /\ \A s \in SUBSET S : v[s] \in ScrStates
  <2>1. 1 \in Nat \ {0} /\ n \in Nat
    OBVIOUS
  <2>2. \E v : FoldedFrom(v, 1, n, ScrStates, first, step)
    <3> HIDE DEF ScrStates
    <3> QED BY <1>4, <2>1, FoldsFrom
  <2> QED BY <2>2 DEF FoldedFrom
<1>6. ASSUME NEW s \in SUBSET S
      PROVE  FoldOver(v, s, first, step) = op(v, s)
  <2>1. CASE s = {}
    BY <2>1 DEF FoldOver
  <2>2. CASE s # {}
    <3>1. s \in SUBSET (1 .. n)
      OBVIOUS
    <3>2. PICK g \in S : g = Greatest(s) /\ g \in 1 .. n
      BY <2>2, <3>1, GreatestIs
    <3>3. s \ {g} \in SUBSET S
      OBVIOUS
    <3>4. v[s \ {g}] \in ScrStates
      BY <1>5, <3>3
    <3>5. step[v[s \ {g}], g] = DEC!SCR!Scramble(v[s \ {g}], tagged[g])
      BY <1>3, <3>2, <3>4
    <3> QED BY <1>2, <2>2, <3>2, <3>5 DEF FoldOver
  <2> QED BY <2>1, <2>2
<1>7. v = [s \in SUBSET S |-> op(v, s)]
  <2>1. [s \in SUBSET S |-> op(v, s)] = [s \in SUBSET S |-> FoldOver(v, s, first, step)]
    BY <1>6
  <2> QED BY <1>5, <2>1
<1>8. iter = [s \in SUBSET S |-> op(iter, s)]
  BY <1>7
<1> HIDE DEF iter
<1>9. PICK w : w = [k \in 0 .. n |-> iter[1 .. k]]
  OBVIOUS
<1>10. w[0] = first
  <2>1. w[0] = iter[{}]
    BY <1>9
  <2>2. {} \in SUBSET S
    OBVIOUS
  <2>3. iter[{}] = op(iter, {})
    BY <1>8, <2>2
  <2> QED BY <2>1, <2>3
<1>11. ASSUME NEW k \in 1 .. n
       PROVE  w[k] = DEC!SCR!Scramble(w[k - 1], tagged[k])
  <2>1. 1 .. k \in SUBSET S /\ 1 .. k \in SUBSET (1 .. k) /\ k \in 1 .. k /\ 1 .. k # {} /\ k \in Nat
    OBVIOUS
  <2>2. Greatest(1 .. k) = k
    BY <2>1, GreatestIs
  <2>3. (1 .. k) \ {k} = 1 .. k - 1
    OBVIOUS
  <2>4. iter[1 .. k] = op(iter, 1 .. k)
    BY <1>8, <2>1
  <2>5. iter[1 .. k] = DEC!SCR!Scramble(iter[1 .. k - 1], tagged[k])
    BY <1>2, <2>1, <2>2, <2>3, <2>4
  <2>6. k - 1 \in 0 .. n /\ k \in 0 .. n
    OBVIOUS
  <2> QED BY <1>9, <2>5, <2>6
<1>12. DEC!SCR!Run(start, tagged) = w[n]
  BY <1>1, <1>9
<1> QED BY <1>10, <1>11, <1>12 DEF Scrambles

(* The k-th of the states of a call: the bits of the ones before stay. *)
ScrambledOn(w, k) ==
  /\ w[k] \in ScrStates /\ Len(w[k].bits) = k
  /\ \A j \in 1 .. k : w[k].bits[j] = w[j].bits[j]

(* By induction from the first. *)
LEMMA ScramblesIn ==
  ASSUME NEW start, ScrStart(start) \in ScrStates,
         NEW n \in Nat, NEW tagged \in [1 .. n -> BOOLEAN], NEW w, Scrambles(w, start, tagged, n)
  PROVE  \A k \in 0 .. n : ScrambledOn(w, k)
<1> DEFINE T == {k \in 0 .. n : ~ScrambledOn(w, k)}
<1>1. SUFFICES ASSUME T # {}
               PROVE  FALSE
  BY <1>1
<1>2. PICK k \in T : \A y \in T : k <= y
  <2>1. T \subseteq Nat
    OBVIOUS
  <2> HIDE DEF T
  <2> QED BY <1>1, <2>1, Least
<1>3. w[0] = ScrStart(start) /\ \A j \in 1 .. n : w[j] = DEC!SCR!Scramble(w[j - 1], tagged[j])
  BY DEF Scrambles
<1>4. CASE k = 0
  <2>1. w[0] \in ScrStates /\ Len(w[0].bits) = 0
    BY <1>3 DEF ScrStart
  <2>2. ScrambledOn(w, 0)
    BY <2>1 DEF ScrambledOn
  <2> QED BY <1>2, <1>4, <2>2
<1>5. CASE k # 0
  <2>1. k \in 1 .. n /\ k - 1 \in 0 .. n /\ k \in Nat
    BY <1>2, <1>5
  <2>2. ScrambledOn(w, k - 1)
    <3>1. k - 1 \notin T
      BY <1>2, <2>1
    <3> QED BY <2>1, <3>1
  <2>3. PICK m, s, x : s = w[k - 1] /\ x = w[k] /\ m = k - 1 /\ m \in Nat
    BY <2>1
  <2>4. PICK t \in BOOLEAN : t = tagged[k]
    BY <2>1
  <2>5. s \in ScrStates /\ Len(s.bits) = m /\ \A j \in 1 .. m : s.bits[j] = w[j].bits[j]
    BY <2>2, <2>3 DEF ScrambledOn
  <2>6. x = DEC!SCR!Scramble(s, t)
    BY <1>3, <2>1, <2>3, <2>4
  <2>7. x \in ScrStates /\ Len(x.bits) = m + 1 /\ \A j \in 1 .. m : x.bits[j] = s.bits[j]
    <3>1. /\ DEC!SCR!Scramble(s, t) \in ScrStates
          /\ Len(DEC!SCR!Scramble(s, t).bits) = Len(s.bits) + 1
          /\ \A j \in 1 .. Len(s.bits) : DEC!SCR!Scramble(s, t).bits[j] = s.bits[j]
      BY <2>5, ScrambleIn
    <3> QED BY <2>3, <2>5, <2>6, <3>1
  <2>8. m + 1 = k
    BY <2>1, <2>3
  <2>9. ASSUME NEW j \in 1 .. k
        PROVE  x.bits[j] = w[j].bits[j]
    <3>1. CASE j = k
      BY <2>3, <3>1
    <3>2. CASE j # k
      <4>1. j \in 1 .. m
        BY <2>1, <2>3, <2>8, <3>2
      <4> QED BY <2>5, <2>7, <4>1
    <3> QED BY <3>1, <3>2
  <2>10. ScrambledOn(w, k)
    BY <2>3, <2>7, <2>8, <2>9 DEF ScrambledOn
  <2> QED BY <1>2, <2>10
<1> QED BY <1>4, <1>5

(* The items of a PDU have no tag. *)
Untagged(p) == [i \in 1 .. p |-> FALSE]

(* All of them. *)
LEMMA UntaggedIs ==
  ASSUME NEW p \in Nat
  PROVE  Untagged(p) \in [1 .. p -> BOOLEAN] /\ \A i \in 1 .. p : ~Untagged(p)[i]
BY DEF Untagged

(* The seed is among the states. *)
LEMMA ResetIn ==
  ScrStart(DEC!SCR!Reset) \in ScrStates
<1>1. Length \in Nat /\ Seed \subseteq 0 .. Length
  BY BlocksAssumption DEF DEC!SCR!ScramblerAssumption
<1>2. PICK s : s = ScrStart(DEC!SCR!Reset)
  OBVIOUS
<1>3. s = [reg |-> Seed, count |-> 0, bits |-> <<>>]
  BY <1>2 DEF ScrStart, DEC!SCR!Reset
<1>4. Seed \in SUBSET (0 .. Length) /\ 0 \in Nat /\ <<>> \in Seq({0, 1})
  BY <1>1
<1>5. s \in ScrStates
  BY <1>3, <1>4 DEF ScrStates
<1> QED BY <1>2, <1>5

(* The states within a PDU. *)
LEMMA PduFolds ==
  ASSUME NEW p \in Nat
  PROVE  \E w : /\ Scrambles(w, DEC!SCR!Reset, Untagged(p), p)
                /\ PduRun(p) = w[p]
                /\ \A k \in 0 .. p : ScrambledOn(w, k)
<1>1. PICK g \in [1 .. p -> BOOLEAN] : g = Untagged(p)
  BY UntaggedIs
<1>2. PICK start : start = DEC!SCR!Reset /\ ScrStart(start) \in ScrStates
  BY ResetIn
<1>3. PICK w : Scrambles(w, start, g, p)
  BY <1>2, ScrambleFolds
<1>4. \A k \in 0 .. p : ScrambledOn(w, k)
  BY <1>2, <1>3, ScramblesIn
<1>5. PduRun(p) = DEC!SCR!Run(start, g)
  BY <1>1, <1>2 DEF PduRun, Untagged
<1>6. PduRun(p) = w[p]
  BY <1>3, <1>5 DEF Scrambles
<1> QED BY <1>1, <1>2, <1>3, <1>4, <1>6

(* The states of a PDU and of a longer one are the same. *)
LEMMA PduStep ==
  ASSUME NEW p \in Nat
  PROVE  /\ PduRun(p) \in ScrStates /\ Len(PduRun(p).bits) = p
         /\ \E off \in BOOLEAN : ~off /\ PduRun(p + 1) = DEC!SCR!Scramble(PduRun(p), off)
<1>1. PICK w : /\ Scrambles(w, DEC!SCR!Reset, Untagged(p), p) /\ PduRun(p) = w[p]
               /\ \A k \in 0 .. p : ScrambledOn(w, k)
  BY PduFolds
<1>2. PICK q \in Nat : q = p + 1 /\ q \in 1 .. q /\ q - 1 = p /\ p \in 0 .. p
  OBVIOUS
<1>3. PICK v : Scrambles(v, DEC!SCR!Reset, Untagged(q), q) /\ PduRun(q) = v[q]
  BY PduFolds
<1>4. PduRun(p) \in ScrStates /\ Len(PduRun(p).bits) = p
  BY <1>1, <1>2 DEF ScrambledOn
<1>5. PICK g, h : g = Untagged(p) /\ h = Untagged(q)
  OBVIOUS
<1>6. /\ g \in [1 .. p -> BOOLEAN] /\ \A i \in 1 .. p : ~g[i]
      /\ h \in [1 .. q -> BOOLEAN] /\ \A i \in 1 .. q : ~h[i]
  BY <1>5, UntaggedIs
<1>7. /\ w[0] = v[0]
      /\ \A k \in 1 .. p : w[k] = DEC!SCR!Scramble(w[k - 1], g[k])
      /\ \A k \in 1 .. q : v[k] = DEC!SCR!Scramble(v[k - 1], h[k])
  BY <1>1, <1>3, <1>5 DEF Scrambles
<1>8. w[p] = v[p]
  <2> DEFINE T == {k \in 0 .. p : w[k] # v[k]}
  <2>1. SUFFICES ASSUME T # {}
                 PROVE  FALSE
    BY <1>2, <2>1
  <2>2. PICK k \in T : \A y \in T : k <= y
    <3>1. T \subseteq Nat
      OBVIOUS
    <3> HIDE DEF T
    <3> QED BY <2>1, <3>1, Least
  <2>3. k \in 1 .. p /\ k \in 1 .. q /\ k - 1 \in 0 .. p
    BY <1>2, <1>7, <2>2
  <2>4. w[k - 1] = v[k - 1]
    BY <2>2, <2>3
  <2>5. g[k] = h[k]
    BY <1>6, <2>3
  <2> QED BY <1>7, <2>2, <2>3, <2>4, <2>5
<1>9. PduRun(q) = DEC!SCR!Scramble(PduRun(p), h[q])
  BY <1>1, <1>2, <1>3, <1>7, <1>8
<1>10. h[q] \in BOOLEAN /\ ~h[q]
  BY <1>2, <1>6
<1> QED BY <1>2, <1>4, <1>9, <1>10

(* The PDU begins with the seed. *)
LEMMA PduStart ==
  PduRun(0) = ScrStart(DEC!SCR!Reset)
<1>1. PICK w : Scrambles(w, DEC!SCR!Reset, Untagged(0), 0) /\ PduRun(0) = w[0]
  BY PduFolds
<1> QED BY <1>1 DEF Scrambles

(* Behind item k of a call is what is behind bit p of a PDU, and so was the *)
(* item inverted.                                                           *)
InStep(x, k, p) ==
  /\ x.reg = PduRun(p).reg /\ x.count = PduRun(p).count
  /\ k # 0 => x.bits[k] = PduRun(p).bits[p]

(* And it is again after the next item. *)
LEMMA InStepOn ==
  ASSUME NEW s \in ScrStates, NEW k \in Nat, Len(s.bits) = k, NEW p \in Nat, InStep(s, k, p),
         NEW t \in BOOLEAN, NEW q \in Nat, q = IF t THEN 1 ELSE p + 1,
         NEW x, x = DEC!SCR!Scramble(s, t), NEW m, m = k + 1
  PROVE  InStep(x, m, q)
<1>1. CASE t
  <2>1. PICK z, y : z = PduRun(0) /\ y = PduRun(1)
    OBVIOUS
  <2>2. q = 1 /\ 0 \in Nat /\ 0 + 1 = 1
    BY <1>1
  <2>3. PICK off \in BOOLEAN : ~off /\ PduRun(0 + 1) = DEC!SCR!Scramble(PduRun(0), off)
    BY <2>2, PduStep
  <2>4. z = ScrStart(DEC!SCR!Reset) /\ y = DEC!SCR!Scramble(z, off)
    BY <2>1, <2>2, <2>3, PduStart
  <2>5. Alike(DEC!SCR!Scramble(s, t), s, DEC!SCR!Scramble(z, off), z) /\ Len(z.bits) = 0
    BY <1>1, <2>3, <2>4, ScrambleReset
  <2>6. Alike(x, s, y, z)
    BY <2>4, <2>5
  <2>7. x.reg = y.reg /\ x.count = y.count /\ x.bits[k + 1] = y.bits[1]
    BY <2>5, <2>6 DEF Alike
  <2> QED BY <2>1, <2>2, <2>7 DEF InStep
<1>2. CASE ~t
  <2>1. PICK z, y : z = PduRun(p) /\ y = PduRun(q) /\ q = p + 1
    BY <1>2
  <2>2. PICK off \in BOOLEAN : ~off /\ PduRun(p + 1) = DEC!SCR!Scramble(PduRun(p), off)
    BY PduStep
  <2>3. z \in ScrStates /\ Len(z.bits) = p
    BY <2>1, PduStep
  <2>4. off = t
    BY <1>2, <2>2
  <2>5. y = DEC!SCR!Scramble(z, t)
    BY <2>1, <2>2, <2>4
  <2>6. s.reg = z.reg /\ s.count = z.count
    BY <2>1 DEF InStep
  <2>7. x.reg = y.reg /\ x.count = y.count /\ x.bits[Len(s.bits) + 1] = y.bits[Len(z.bits) + 1]
    BY <2>3, <2>5, <2>6, ScrambleSame
  <2> QED BY <2>1, <2>3, <2>7 DEF InStep
<1> QED BY <1>1, <1>2

(* The rest of a link of soft bits. *)
LEMMA JoinedBitsRest ==
  ASSUME NEW X, NEW l \in Seq(X), NEW p, JoinedBits(p, l), NEW n \in 1 .. Len(l)
  PROVE  /\ JoinedBits(DEC!PlaceOf(l[n]), DEC!Rest(l, n))
         /\ LastPlace(DEC!PlaceOf(l[n]), DEC!Rest(l, n)) = LastPlace(p, l)
<1>1. PICK k \in Nat : k = Len(l) /\ n \in 1 .. k /\ n \in 0 .. Len(l)
  OBVIOUS
<1>2. PICK r : /\ r = DEC!Rest(l, n) /\ Len(r) = k - n
               /\ \A i \in 1 .. k - n : r[i] = l[n + i]
  <2>1. /\ Len(DEC!Rest(l, n)) = Len(l) - n
        /\ \A i \in 1 .. Len(l) - n : DEC!Rest(l, n)[i] = l[n + i]
    BY <1>1, RestIs
  <2> QED BY <1>1, <2>1
<1>3. ASSUME NEW i \in 1 .. k - n
      PROVE  DEC!PlaceOf(r[i]) =
               IF r[i].tag = "header" THEN 1
               ELSE (IF i = 1 THEN DEC!PlaceOf(l[n]) ELSE DEC!PlaceOf(r[i - 1])) + 1
  <2>1. n + i \in 1 .. k /\ n + i # 1 /\ (i # 1 => i - 1 \in 1 .. k - n /\ n + (i - 1) = n + i - 1)
        /\ (i = 1 => n + i - 1 = n)
    BY <1>1
  <2>2. DEC!PlaceOf(l[n + i]) =
          IF l[n + i].tag = "header" THEN 1 ELSE DEC!PlaceOf(l[n + i - 1]) + 1
    BY <1>1, <2>1 DEF JoinedBits
  <2>3. r[i] = l[n + i] /\ (i # 1 => r[i - 1] = l[n + i - 1])
    BY <1>2, <2>1
  <2> QED BY <2>1, <2>2, <2>3
<1>4. JoinedBits(DEC!PlaceOf(l[n]), r)
  BY <1>2, <1>3 DEF JoinedBits
<1>5. LastPlace(DEC!PlaceOf(l[n]), r) = LastPlace(p, l)
  <2>1. CASE k = n
    BY <1>1, <1>2, <2>1 DEF LastPlace
  <2>2. CASE k # n
    <3>1. k - n \in 1 .. k - n /\ n + (k - n) = k /\ k # 0 /\ k - n # 0
      BY <1>1, <2>2
    <3>2. r[k - n] = l[k]
      BY <1>2, <3>1
    <3> QED BY <1>1, <1>2, <3>1, <3>2 DEF LastPlace
  <2> QED BY <2>1, <2>2
<1> QED BY <1>2, <1>4, <1>5

(* The place behind k of the soft bits of a link. *)
PlaceBehind(l, p, k) == IF k = 0 THEN p ELSE DEC!PlaceOf(l[k])

(* The descrambler inverted n soft bits as they were inverted in their     *)
(* packets, and is behind the last of them.                                *)
Descrambled(r, l, n) ==
  /\ r.reg = PduRun(DEC!PlaceOf(l[n])).reg /\ r.count = PduRun(DEC!PlaceOf(l[n])).count
  /\ \A i \in 1 .. n : r.bits[i] = PduRun(DEC!PlaceOf(l[i])).bits[DEC!PlaceOf(l[i])]

(* The place of a soft bit. *)
LEMMA SoftPlace ==
  ASSUME NEW x \in Softs
  PROVE  DEC!PlaceOf(x) \in Nat
<1>1. x.symbol \in ChainSymbols /\ x.bit \in 1 .. 2
  <2> HIDE DEF ChainSymbols
  <2> QED BY DEF Softs
<1>2. PICK s \in ChainSymbols : s = x.symbol
  BY <1>1
<1>3. DEC!PlaceOf(x) = Base(s) + x.bit /\ Base(s) \in Nat
  BY <1>1, <1>2, PlaceIs
<1> QED BY <1>1, <1>3

(* From a register that is behind place p, whatever the bits of the link. *)
LEMMA DescramblesAll ==
  ASSUME NEW l \in Seq(Softs), NEW n \in 1 .. Len(l), NEW p \in Nat, JoinedBits(p, l),
         NEW start, ScrStart(start) \in ScrStates, InStep(ScrStart(start), 0, p),
         NEW tagged \in [1 .. n -> BOOLEAN],
         \A i \in 1 .. n : tagged[i] <=> l[i].tag = "header"
  PROVE  Descrambled(DEC!SCR!Run(start, tagged), l, n)
<1>1. n \in Nat /\ n \in 1 .. n /\ n \in 0 .. n /\ n # 0
  OBVIOUS
<1>2. PICK w : Scrambles(w, start, tagged, n)
  BY <1>1, ScrambleFolds
<1>3. \A k \in 0 .. n : ScrambledOn(w, k)
  BY <1>1, <1>2, ScramblesIn
<1>4. /\ w[0] = ScrStart(start) /\ DEC!SCR!Run(start, tagged) = w[n]
      /\ \A k \in 1 .. n : w[k] = DEC!SCR!Scramble(w[k - 1], tagged[k])
  BY <1>2 DEF Scrambles
<1>5. \A k \in 0 .. n : PlaceBehind(l, p, k) \in Nat
  <2>1. ASSUME NEW k \in 0 .. n
        PROVE  PlaceBehind(l, p, k) \in Nat
    <3>1. CASE k = 0
      BY <3>1 DEF PlaceBehind
    <3>2. CASE k # 0
      <4>1. l[k] \in Softs
        <5>1. k \in 1 .. Len(l)
          BY <3>2
        <5> HIDE DEF Softs
        <5> QED BY <5>1
      <4> QED BY <3>2, <4>1, SoftPlace DEF PlaceBehind
    <3> QED BY <3>1, <3>2
  <2> QED BY <2>1
<1>6. \A k \in 0 .. n : InStep(w[k], k, PlaceBehind(l, p, k))
  <2> DEFINE T == {k \in 0 .. n : ~InStep(w[k], k, PlaceBehind(l, p, k))}
  <2>1. SUFFICES ASSUME T # {}
                 PROVE  FALSE
    BY <2>1
  <2>2. PICK k \in T : \A y \in T : k <= y
    <3>1. T \subseteq Nat
      OBVIOUS
    <3> HIDE DEF T
    <3> QED BY <2>1, <3>1, Least
  <2>3. CASE k = 0
    <3>1. InStep(w[0], 0, PlaceBehind(l, p, 0))
      BY <1>4 DEF PlaceBehind
    <3> QED BY <2>2, <2>3, <3>1
  <2>4. CASE k # 0
    <3>1. k \in 1 .. n /\ k - 1 \in 0 .. n /\ k \in 0 .. n /\ k \in 1 .. Len(l)
      BY <2>2, <2>4
    <3>2. InStep(w[k - 1], k - 1, PlaceBehind(l, p, k - 1))
      <4>1. k - 1 \notin T
        BY <2>2, <3>1
      <4> QED BY <3>1, <4>1
    <3>3. PICK m, q, b : /\ m = k - 1 /\ q = PlaceBehind(l, p, k - 1) /\ b = PlaceBehind(l, p, k)
                         /\ m \in Nat /\ q \in Nat /\ b \in Nat
      <4>1. PlaceBehind(l, p, k - 1) \in Nat /\ PlaceBehind(l, p, k) \in Nat /\ k - 1 \in Nat
        BY <1>5, <3>1
      <4> QED BY <4>1
    <3>4. PICK s, x : s = w[k - 1] /\ x = w[k]
      OBVIOUS
    <3>5. PICK t \in BOOLEAN : t = tagged[k]
      BY <3>1
    <3>6. s \in ScrStates /\ Len(s.bits) = m /\ InStep(s, m, q) /\ k = m + 1
      BY <1>3, <3>1, <3>2, <3>3, <3>4 DEF ScrambledOn
    <3>7. x = DEC!SCR!Scramble(s, t)
      BY <1>4, <3>1, <3>4, <3>5
    <3>8. b = IF t THEN 1 ELSE q + 1
      <4>1. DEC!PlaceOf(l[k]) = IF l[k].tag = "header" THEN 1
                                ELSE (IF k = 1 THEN p ELSE DEC!PlaceOf(l[k - 1])) + 1
        BY <3>1 DEF JoinedBits
      <4>2. t <=> l[k].tag = "header"
        BY <3>1, <3>5
      <4>3. b = DEC!PlaceOf(l[k])
        BY <2>4, <3>3 DEF PlaceBehind
      <4>4. q = IF k = 1 THEN p ELSE DEC!PlaceOf(l[k - 1])
        <5>1. k - 1 = 0 <=> k = 1
          BY <3>1
        <5> QED BY <3>3, <5>1 DEF PlaceBehind
      <4> QED BY <4>1, <4>2, <4>3, <4>4
    <3>9. InStep(x, k, b)
      <4> HIDE DEF T
      <4>1. s \in ScrStates /\ m \in Nat /\ q \in Nat /\ b \in Nat /\ t \in BOOLEAN
        BY <3>3, <3>6
      <4>2. Len(s.bits) = m /\ InStep(s, m, q) /\ k = m + 1
        BY <3>6
      <4> QED BY <4>1, <4>2, <3>7, <3>8, InStepOn
    <3> QED BY <2>2, <3>3, <3>4, <3>9
  <2> QED BY <2>3, <2>4
<1>7. PICK r : r = DEC!SCR!Run(start, tagged) /\ r = w[n]
  BY <1>4
<1>8. /\ r.reg = PduRun(DEC!PlaceOf(l[n])).reg /\ r.count = PduRun(DEC!PlaceOf(l[n])).count
  <2>1. InStep(r, n, DEC!PlaceOf(l[n]))
    BY <1>1, <1>6, <1>7 DEF PlaceBehind
  <2> QED BY <2>1 DEF InStep
<1>9. ASSUME NEW i \in 1 .. n
      PROVE  r.bits[i] = PduRun(DEC!PlaceOf(l[i])).bits[DEC!PlaceOf(l[i])]
  <2>1. i \in 0 .. n /\ i # 0
    OBVIOUS
  <2>2. InStep(w[i], i, DEC!PlaceOf(l[i]))
    BY <1>6, <2>1 DEF PlaceBehind
  <2>3. w[i].bits[i] = PduRun(DEC!PlaceOf(l[i])).bits[DEC!PlaceOf(l[i])]
    BY <2>1, <2>2 DEF InStep
  <2>4. r.bits[i] = w[i].bits[i]
    BY <1>1, <1>3, <1>7 DEF ScrambledOn
  <2> QED BY <2>3, <2>4
<1>10. Descrambled(r, l, n)
  BY <1>8, <1>9 DEF Descrambled
<1> QED BY <1>7, <1>10

(* A call of AdditiveScrambler. *)
LEMMA DescrambleKeeps ==
  ASSUME NEW e, NEW p \in Nat, SoftAt(e, p), ScrambledAt(p),
         NEW n \in Nat \ {0}, DEC!Descramble(n)
  PROVE  /\ \E q \in Nat : SoftAt(e, q)' /\ ScrambledAt(q)'
         /\ DEC!DescramblesInStep'
<1>1. /\ llr_constellation = "QPSK" /\ refused = FALSE
      /\ soft \in Seq(Softs) /\ Len(soft) <= SoftCapacity /\ JoinedBits(p, soft)
      /\ e.part # "noise" => LastPlace(p, soft) = Base(e) + 2
  BY DEF SoftAt
<1>2. n <= Len(soft)
  BY DEF DEC!Descramble
<1>3. PICK k \in Nat : k = Len(soft) /\ n \in 1 .. k /\ n \in 1 .. Len(soft) /\ n \in 0 .. Len(soft)
  <2> HIDE DEF Softs
  <2> QED BY <1>1, <1>2
<1>4. PICK tagged : tagged = [i \in 1 .. n |-> soft[i].tag = "header"]
  OBVIOUS
<1>5. tagged \in [1 .. n -> BOOLEAN] /\ \A i \in 1 .. n : tagged[i] <=> soft[i].tag = "header"
  BY <1>4
<1>6. PICK start : start = DEC!SCR!Now
  OBVIOUS
<1>7. PICK r : r = DEC!SCR!Run(start, tagged)
  OBVIOUS
<1>8. /\ reg' = r.reg /\ current_count' = r.count
      /\ dec_out' = [i \in 1 .. n |-> [item |-> soft[i], inverted |-> r.bits[i]]]
      /\ soft' = DEC!Rest(soft, n)
      /\ llr_constellation' = llr_constellation /\ refused' = refused
  BY <1>4, <1>6, <1>7 DEF DEC!Descramble, DEC!SCR!ProcessStream, DEC!SCR!StreamBits, DEC!llr_vars
<1>9. ScrStart(start) \in ScrStates /\ InStep(ScrStart(start), 0, p)
  <2>1. PICK z \in ScrStates : z = PduRun(p)
    BY PduStep
  <2>2. reg = z.reg /\ current_count = z.count
    BY <2>1 DEF ScrambledAt
  <2>3. PICK s : s = ScrStart(start)
    OBVIOUS
  <2>4. s = [reg |-> reg, count |-> current_count, bits |-> <<>>]
    BY <1>6, <2>3 DEF ScrStart, DEC!SCR!Now
  <2>5. s \in ScrStates
    BY <2>2, <2>4 DEF ScrStates
  <2>6. InStep(s, 0, p)
    BY <2>1, <2>2, <2>4 DEF InStep
  <2> QED BY <2>3, <2>5, <2>6
<1>10. Descrambled(r, soft, n)
  BY <1>1, <1>3, <1>5, <1>7, <1>9, DescramblesAll
<1>11. PICK q : q = DEC!PlaceOf(soft[n])
  OBVIOUS
<1>12. q \in Nat
  <2>1. soft[n] \in Softs
    <3> HIDE DEF Softs
    <3> QED BY <1>1, <1>3
  <2> QED BY <1>11, <2>1, SoftPlace
<1>13. ScrambledAt(q)'
  <2>1. r.reg = PduRun(q).reg /\ r.count = PduRun(q).count
    BY <1>10, <1>11 DEF Descrambled
  <2>2. q' = q
    OBVIOUS
  <2> QED BY <1>8, <2>1 DEF ScrambledAt
<1>14. PICK rest : rest = DEC!Rest(soft, n)
  OBVIOUS
<1>15. /\ rest \in Seq(Softs) /\ Len(rest) = k - n
       /\ JoinedBits(q, rest) /\ LastPlace(q, rest) = LastPlace(p, soft)
  <2>1. rest \in Seq(Softs) /\ Len(rest) = k - n
    BY <1>1, <1>3, <1>14, RestIs
  <2>2. JoinedBits(q, rest) /\ LastPlace(q, rest) = LastPlace(p, soft)
    BY <1>1, <1>3, <1>11, <1>14, JoinedBitsRest
  <2> QED BY <2>1, <2>2
<1>16. Len(rest) <= SoftCapacity
  BY <1>1, <1>3, <1>15, ChainSizes
<1>17. SoftAt(e, q)'
  BY <1>1, <1>8, <1>14, <1>15, <1>16 DEF SoftAt
<1>18. DEC!DescramblesInStep'
  <2>1. ASSUME NEW i \in 1 .. n
        PROVE  dec_out'[i].inverted
                 = DEC!SCR!PduBits(DEC!PlaceOf(dec_out'[i].item))[DEC!PlaceOf(dec_out'[i].item)]
    <3>1. dec_out'[i].item = soft[i] /\ dec_out'[i].inverted = r.bits[i]
      BY <1>8
    <3>2. PICK at : at = DEC!PlaceOf(soft[i])
      OBVIOUS
    <3>3. r.bits[i] = PduRun(at).bits[at]
      BY <1>10, <3>2 DEF Descrambled
    <3>4. PduRun(at).bits = DEC!SCR!PduBits(at)
      BY DEF PduRun, DEC!SCR!PduBits
    <3> QED BY <3>1, <3>2, <3>3, <3>4
  <2>2. DOMAIN dec_out' = 1 .. n
    BY <1>8
  <2> QED BY <2>1, <2>2 DEF DEC!DescramblesInStep
<1> QED BY <1>12, <1>13, <1>17, <1>18

(* Before the first symbol all blocks are outside of packets. *)
LEMMA ChainInitially ==
  ASSUME DEC!Init
  PROVE  ChainInv
<1>1. PICK a : a = [packet |-> NumIds, part |-> "noise", place |-> 1]
  OBVIOUS
<1>2. a \in ChainSymbols /\ a.part = "noise"
  BY <1>1, ChainSizes DEF ChainSymbols
<1>3. /\ dec_last = a /\ payload = 0 /\ wiped = <<>> /\ tracked = <<>> /\ removed = <<>>
      /\ soft = <<>> /\ dec_out = <<>> /\ phase = 0 /\ constellation = "BPSK"
      /\ llr_constellation = "QPSK" /\ refused = FALSE
  BY <1>1 DEF DEC!Init
<1>4. /\ wipeoff_in_syncword = FALSE /\ wipeoff_position = 0
      /\ remove_in_syncword = FALSE /\ remove_position = 0
      /\ reg = Seed /\ current_count = 0
  BY DEF DEC!Init, DEC!WIPE!Init, DEC!REMOVE!Init, DEC!SCR!Init
<1>5. \A l, z : l = <<>> => /\ LastOf(z, l) = z /\ LastPlace(z, l) = z /\ JoinedBits(z, l)
                            /\ Joined(InStream, z, l) /\ Joined(InDecoded, z, l)
  <2>1. Len(<<>>) = 0 /\ 1 .. 0 = {}
    OBVIOUS
  <2> QED BY <2>1 DEF LastOf, LastPlace, JoinedBits, Joined
<1>6. SourceAt(a)
  <2>1. WipeAt(a)
    <3>1. wipeoff_position \in 0 .. ChainSyncword
      BY <1>4, ChainSizes
    <3>2. wipeoff_in_syncword \in BOOLEAN /\ ~wipeoff_in_syncword
      BY <1>4
    <3>3. ~(a.part = "syncword" /\ a.place < ChainSyncword)
      BY <1>2
    <3> QED BY <3>1, <3>2, <3>3, Zenon DEF WipeAt
  <2>2. wiped \in Seq(Wipeds)
    BY <1>3
  <2> QED BY <1>2, <1>3, <1>5, <2>1, <2>2 DEF SourceAt
<1>7. TrackedAt(a, a)
  <2>1. TracksAt(a)
    BY <1>2, <1>3 DEF TracksAt
  <2>2. tracked \in Seq(Trackeds)
    BY <1>3
  <2> QED BY <1>3, <1>5, <2>1, <2>2 DEF TrackedAt
<1>8. RemovedAt(a, a)
  <2>1. RemoveAt(a)
    <3>1. remove_position \in 0 .. ChainSyncword
      BY <1>4, ChainSizes
    <3>2. remove_in_syncword \in BOOLEAN /\ ~remove_in_syncword
      BY <1>4
    <3>3. ~(a.part = "syncword" /\ a.place < ChainSyncword)
      BY <1>2
    <3> QED BY <3>1, <3>2, <3>3, Zenon DEF RemoveAt
  <2>2. removed \in Seq(Removeds)
    BY <1>3
  <2> QED BY <1>2, <1>3, <1>5, <2>1, <2>2 DEF RemovedAt
<1>9. SoftAt(a, 0)
  <2>1. soft \in Seq(Softs)
    BY <1>3
  <2>2. Len(soft) <= SoftCapacity
    BY <1>3, ChainSizes
  <2> QED BY <1>2, <1>3, <1>5, <2>1, <2>2 DEF SoftAt
<1>10. ScrambledAt(0)
  BY <1>4, PduStart DEF ScrambledAt, ScrStart, DEC!SCR!Reset
<1>11. DEC!DescramblesInStep
  BY <1>3 DEF DEC!DescramblesInStep
<1>12. 0 \in Nat
  OBVIOUS
<1> QED BY <1>2, <1>6, <1>7, <1>8, <1>9, <1>10, <1>11, <1>12 DEF ChainInv

(* What a call of another block leaves alone: of SyncwordWipeoff. *)
LEMMA SourceRests ==
  ASSUME NEW t, SourceAt(t),
         UNCHANGED <<dec_last, payload, wipeoff_in_syncword, wipeoff_position, wiped>>
  PROVE  SourceAt(t)'
BY DEF SourceAt, WipeAt

(* Of CostasLoop. *)
LEMMA TrackedRests ==
  ASSUME NEW t, NEW d, TrackedAt(t, d), UNCHANGED <<phase, constellation, tracked>>
  PROVE  TrackedAt(t, d)'
BY DEF TrackedAt, TracksAt

(* Of SyncwordRemove. *)
LEMMA RemovedRests ==
  ASSUME NEW d, NEW e, RemovedAt(d, e),
         UNCHANGED <<remove_in_syncword, remove_position, removed>>
  PROVE  RemovedAt(d, e)'
BY DEF RemovedAt, RemoveAt

(* Of ConstellationLLRDecoder. *)
LEMMA SoftRests ==
  ASSUME NEW e, NEW p, SoftAt(e, p), UNCHANGED <<llr_constellation, refused, soft>>
  PROVE  SoftAt(e, p)'
BY DEF SoftAt

(* Of AdditiveScrambler. *)
LEMMA ScrambledRests ==
  ASSUME NEW p, ScrambledAt(p), UNCHANGED <<reg, current_count>>
  PROVE  ScrambledAt(p)'
BY DEF ScrambledAt

(* Of the bits of the last call. *)
LEMMA BitsRest ==
  ASSUME DEC!DescramblesInStep, UNCHANGED dec_out
  PROVE  DEC!DescramblesInStep'
BY DEF DEC!DescramblesInStep

(* A call of a block of the chain. *)
LEMMA ChainKeeps ==
  ASSUME ChainInv, DEC!Next
  PROVE  ChainInv'
<1>1. PICK t \in ChainSymbols, d \in ChainSymbols, e \in ChainSymbols, p \in Nat :
        SourceAt(t) /\ TrackedAt(t, d) /\ RemovedAt(d, e) /\ SoftAt(e, p) /\ ScrambledAt(p)
  BY DEF ChainInv
<1>2. DEC!DescramblesInStep
  BY DEF ChainInv
<1>3. \A n \in 1 .. Capacity : n \in Nat \ {0}
  BY ChainSizes
<1>4. \A n \in 1 .. SoftCapacity : n \in Nat \ {0}
  BY ChainSizes
<1>5. ASSUME NEW s, NEW len \in Nat, NEW n \in Nat \ {0}, DEC!Wipe(s, len, n),
             \/ s = DEC!After(dec_last, payload) /\ len = payload
             \/ DEC!After(dec_last, payload).part = "noise" /\ s = DEC!Detection
      PROVE  ChainInv'
  <2>1. /\ UNCHANGED <<phase, constellation, tracked>>
        /\ UNCHANGED <<remove_in_syncword, remove_position, removed>>
        /\ UNCHANGED <<llr_constellation, refused, soft>>
        /\ UNCHANGED <<reg, current_count>> /\ UNCHANGED dec_out
    BY <1>5 DEF DEC!Wipe, DEC!costas_vars, DEC!remove_vars, DEC!llr_vars, DEC!scr_vars
  <2>2. SourceAt(t)'
    BY <1>1, <1>5, WipeKeeps
  <2>3. TrackedAt(t, d)'
    BY <1>1, <2>1, TrackedRests
  <2>4. RemovedAt(d, e)'
    BY <1>1, <2>1, RemovedRests
  <2>5. SoftAt(e, p)' /\ ScrambledAt(p)'
    BY <1>1, <2>1, SoftRests, ScrambledRests
  <2>6. DEC!DescramblesInStep'
    BY <1>2, <2>1, BitsRest
  <2> QED BY <2>2, <2>3, <2>4, <2>5, <2>6 DEF ChainInv
<1>6. CASE DEC!Continue
  <2>1. PICK n \in 1 .. Capacity : DEC!Wipe(DEC!After(dec_last, payload), payload, n)
    BY <1>6 DEF DEC!Continue
  <2>2. PICK s : s = DEC!After(dec_last, payload)
    OBVIOUS
  <2>3. payload \in Nat
    BY <1>1 DEF SourceAt
  <2>4. n \in Nat \ {0}
    BY <1>3
  <2>5. DEC!Wipe(s, payload, n)
    BY <2>1, <2>2
  <2> QED BY <1>5, <2>2, <2>3, <2>4, <2>5
<1>7. CASE DEC!Detect
  <2>1. PICK n \in 1 .. Capacity, len \in ChainLengths : DEC!Wipe(DEC!Detection, len, n)
    BY <1>7 DEF DEC!Detect
  <2>2. DEC!After(dec_last, payload).part = "noise"
    BY <1>7 DEF DEC!Detect
  <2>3. PICK s : s = DEC!Detection
    OBVIOUS
  <2>4. len \in Nat /\ n \in Nat \ {0}
    BY <1>3, ChainSizes
  <2>5. DEC!Wipe(s, len, n)
    BY <2>1, <2>3
  <2> QED BY <1>5, <2>2, <2>3, <2>4, <2>5
<1>8. CASE DEC!TrackStep
  <2>1. PICK n \in 1 .. Capacity : n <= Len(wiped) /\ DEC!Track(n)
    BY <1>8 DEF DEC!TrackStep
  <2>2. n \in Nat \ {0}
    BY <1>3
  <2>3. /\ UNCHANGED <<remove_in_syncword, remove_position, removed>>
        /\ UNCHANGED <<llr_constellation, refused, soft>>
        /\ UNCHANGED <<reg, current_count>> /\ UNCHANGED dec_out
    BY <2>1 DEF DEC!Track, DEC!remove_vars, DEC!llr_vars, DEC!scr_vars
  <2>4. PICK u \in ChainSymbols : SourceAt(u)' /\ TrackedAt(u, d)'
    BY <1>1, <2>1, <2>2, TrackKeeps
  <2>5. RemovedAt(d, e)'
    BY <1>1, <2>3, RemovedRests
  <2>6. SoftAt(e, p)' /\ ScrambledAt(p)'
    BY <1>1, <2>3, SoftRests, ScrambledRests
  <2>7. DEC!DescramblesInStep'
    BY <1>2, <2>3, BitsRest
  <2> QED BY <2>4, <2>5, <2>6, <2>7 DEF ChainInv
<1>9. CASE DEC!DropStep
  <2>1. PICK n \in 1 .. Capacity : n <= Len(tracked) /\ DEC!Drop(n)
    BY <1>9 DEF DEC!DropStep
  <2>2. n \in Nat \ {0}
    BY <1>3
  <2>3. /\ UNCHANGED <<dec_last, payload, wipeoff_in_syncword, wipeoff_position, wiped>>
        /\ UNCHANGED <<llr_constellation, refused, soft>>
        /\ UNCHANGED <<reg, current_count>> /\ UNCHANGED dec_out
    BY <2>1 DEF DEC!Drop, DEC!source_vars, DEC!wipe_vars, DEC!llr_vars, DEC!scr_vars
  <2>4. PICK u \in ChainSymbols : TrackedAt(t, u)' /\ RemovedAt(u, e)'
    BY <1>1, <2>1, <2>2, DropKeeps
  <2>5. SourceAt(t)'
    BY <1>1, <2>3, SourceRests
  <2>6. SoftAt(e, p)' /\ ScrambledAt(p)'
    BY <1>1, <2>3, SoftRests, ScrambledRests
  <2>7. DEC!DescramblesInStep'
    BY <1>2, <2>3, BitsRest
  <2> QED BY <2>4, <2>5, <2>6, <2>7 DEF ChainInv
<1>10. CASE DEC!DecodeStep
  <2>1. PICK n \in 1 .. Capacity, space \in 1 .. SoftCapacity :
          n <= Len(removed) /\ DEC!Decode(n, space)
    BY <1>10 DEF DEC!DecodeStep
  <2>2. n \in Nat \ {0} /\ space \in Nat \ {0}
    BY <1>3, <1>4
  <2>3. /\ UNCHANGED <<dec_last, payload, wipeoff_in_syncword, wipeoff_position, wiped>>
        /\ UNCHANGED <<phase, constellation, tracked>>
        /\ UNCHANGED <<reg, current_count>> /\ UNCHANGED dec_out
    BY <2>1 DEF DEC!Decode, DEC!source_vars, DEC!wipe_vars, DEC!costas_vars, DEC!scr_vars
  <2>4. PICK v \in ChainSymbols : RemovedAt(d, v)' /\ SoftAt(v, p)'
    BY <1>1, <2>1, <2>2, DecodeKeeps
  <2>5. SourceAt(t)'
    BY <1>1, <2>3, SourceRests
  <2>6. TrackedAt(t, d)'
    BY <1>1, <2>3, TrackedRests
  <2>7. ScrambledAt(p)'
    BY <1>1, <2>3, ScrambledRests
  <2>8. DEC!DescramblesInStep'
    BY <1>2, <2>3, BitsRest
  <2> QED BY <2>4, <2>5, <2>6, <2>7, <2>8 DEF ChainInv
<1>11. CASE DEC!DescrambleStep
  <2>1. PICK n \in 1 .. SoftCapacity : DEC!Descramble(n)
    BY <1>11 DEF DEC!DescrambleStep
  <2>2. n \in Nat \ {0}
    BY <1>4
  <2>3. /\ UNCHANGED <<dec_last, payload, wipeoff_in_syncword, wipeoff_position, wiped>>
        /\ UNCHANGED <<phase, constellation, tracked>>
        /\ UNCHANGED <<remove_in_syncword, remove_position, removed>>
    BY <2>1 DEF DEC!Descramble, DEC!source_vars, DEC!wipe_vars, DEC!costas_vars, DEC!remove_vars
  <2>4. (\E q \in Nat : SoftAt(e, q)' /\ ScrambledAt(q)') /\ DEC!DescramblesInStep'
    BY <1>1, <2>1, <2>2, DescrambleKeeps
  <2>5. SourceAt(t)'
    BY <1>1, <2>3, SourceRests
  <2>6. TrackedAt(t, d)'
    BY <1>1, <2>3, TrackedRests
  <2>7. RemovedAt(d, e)'
    BY <1>1, <2>3, RemovedRests
  <2> QED BY <2>4, <2>5, <2>6, <2>7 DEF ChainInv
<1> QED BY <1>6, <1>7, <1>8, <1>9, <1>10, <1>11 DEF DEC!Next

(* A step of the bench: the other stretches leave the chain alone. *)
LEMMA ChainGoesOn ==
  ASSUME ChainInv, [BenchNext]_bench_vars
  PROVE  ChainInv'
<1>1. CASE DecodingStep
  BY <1>1, ChainKeeps DEF DecodingStep
<1>2. CASE UNCHANGED decoding_vars
  <2>1. PICK t \in ChainSymbols, d \in ChainSymbols, e \in ChainSymbols, p \in Nat :
          SourceAt(t) /\ TrackedAt(t, d) /\ RemovedAt(d, e) /\ SoftAt(e, p) /\ ScrambledAt(p)
    BY DEF ChainInv
  <2>2. /\ UNCHANGED <<dec_last, payload, wipeoff_in_syncword, wipeoff_position, wiped>>
        /\ UNCHANGED <<phase, constellation, tracked>>
        /\ UNCHANGED <<remove_in_syncword, remove_position, removed>>
        /\ UNCHANGED <<llr_constellation, refused, soft>>
        /\ UNCHANGED <<reg, current_count>> /\ UNCHANGED dec_out
    BY <1>2 DEF decoding_vars
  <2>3. SourceAt(t)'
    BY <2>1, <2>2, SourceRests
  <2>4. TrackedAt(t, d)'
    BY <2>1, <2>2, TrackedRests
  <2>5. RemovedAt(d, e)'
    BY <2>1, <2>2, RemovedRests
  <2>6. SoftAt(e, p)' /\ ScrambledAt(p)'
    BY <2>1, <2>2, SoftRests, ScrambledRests
  <2>7. DEC!DescramblesInStep'
    BY <2>2, BitsRest DEF ChainInv
  <2> QED BY <2>3, <2>4, <2>5, <2>6, <2>7 DEF ChainInv
<1>3. [BenchNext]_bench_vars => DecodingStep \/ UNCHANGED decoding_vars
  BY DEF BenchNext, DetectionStep, FilterStep, SyncStep, bench_vars
<1> QED BY <1>1, <1>2, <1>3

(* Every symbol is treated as the one it is through the four blocks that   *)
(* count on their own, for all sizes of syncword, header and payloads, and *)
(* however the symbols are cut into calls (syncword_wipeoff.hpp:67,        *)
(* costas_loop.hpp:103, syncword_remove.hpp:51).                           *)
THEOREM SymbolsOfOwnPacketHolds == BenchSpec => []SymbolsOfOwnPacket
<1>1. BenchInit => ChainInv
  BY ChainInitially DEF BenchInit
<1>2. ChainInv /\ [BenchNext]_bench_vars => ChainInv'
  BY ChainGoesOn
<1>3. ChainInv => SymbolsOfOwnPacket
  <2>1. SUFFICES ASSUME ChainInv
                 PROVE  SymbolsOfOwnPacket
    OBVIOUS
  <2>2. PICK t \in ChainSymbols, d \in ChainSymbols, e \in ChainSymbols, p \in Nat :
          SourceAt(t) /\ TrackedAt(t, d) /\ RemovedAt(d, e) /\ SoftAt(e, p) /\ ScrambledAt(p)
    BY <2>1 DEF ChainInv
  <2>3. DEC!TypeOK
    <3>1. /\ wipeoff_position \in 0 .. ChainSyncword
          /\ wipeoff_in_syncword => wipeoff_position < ChainSyncword
      BY <2>2 DEF SourceAt, WipeAt
    <3>2. /\ remove_position \in 0 .. ChainSyncword
          /\ remove_in_syncword => remove_position < ChainSyncword
      BY <2>2 DEF RemovedAt, RemoveAt
    <3>3. reg \subseteq 0 .. Length
      <4>1. PICK z \in ScrStates : z = PduRun(p)
        BY PduStep
      <4>2. z.reg \subseteq 0 .. Length
        BY <4>1 DEF ScrStates
      <4> QED BY <2>2, <4>1, <4>2 DEF ScrambledAt
    <3>4. Len(soft) <= SoftCapacity
      BY <2>2 DEF SoftAt
    <3> QED BY <3>1, <3>2, <3>3, <3>4 DEF DEC!TypeOK
  <2>4. ASSUME NEW i \in DOMAIN tracked
        PROVE  tracked[i] \in Trackeds
    <3>1. tracked \in Seq(Trackeds)
      BY <2>2 DEF TrackedAt
    <3> HIDE DEF Trackeds
    <3> QED BY <2>4, <3>1
  <2>5. DEC!WipesOwnSymbols
    BY <2>4 DEF Trackeds, OwnFactor, DEC!WipesOwnSymbols
  <2>6. DEC!TracksOwnPacket
    <3>1. ASSUME NEW x \in Trackeds
          PROVE  /\ x.tracking.phase = x.symbol.packet
                 /\ x.tracking.constellation = IF x.factor # 0 THEN "PILOT" ELSE "QPSK"
      <4>1. x.symbol.part = "syncword" <=> x.factor # 0
        BY DEF Trackeds, OwnFactor, ChainSymbols
      <4> QED BY <4>1 DEF Trackeds
    <3> QED BY <2>4, <3>1 DEF DEC!TracksOwnPacket
  <2>7. DEC!NoPilotDecoded
    <3>1. removed \in Seq(Removeds)
      BY <2>2 DEF RemovedAt
    <3>2. ASSUME NEW i \in DOMAIN removed
          PROVE  removed[i] \in Removeds
      <4> HIDE DEF Removeds
      <4> QED BY <3>1, <3>2
    <3>3. \A i \in DOMAIN removed : removed[i].symbol.part # "syncword"
      BY <3>2 DEF Removeds
    <3>4. ~refused
      BY <2>2 DEF SoftAt
    <3> QED BY <3>3, <3>4 DEF DEC!NoPilotDecoded
  <2> QED BY <2>3, <2>5, <2>6, <2>7 DEF SymbolsOfOwnPacket
<1> QED BY <1>1, <1>2, <1>3, PTL DEF BenchSpec

(* The descrambler inverts what the scrambler of the PDU did, for every    *)
(* register and count, however the bits are cut into calls                 *)
(* (additive_scrambler.hpp:79, syncword_remove.hpp:51).                    *)
THEOREM DescramblesInStepHolds == BenchSpec => []DescramblesInStep
<1>1. BenchInit => ChainInv
  BY ChainInitially DEF BenchInit
<1>2. ChainInv /\ [BenchNext]_bench_vars => ChainInv'
  BY ChainGoesOn
<1>3. ChainInv => DescramblesInStep
  BY DEF ChainInv, DescramblesInStep
<1> QED BY <1>1, <1>2, <1>3, PTL DEF BenchSpec
=============================================================================
