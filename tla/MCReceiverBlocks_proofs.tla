----------------------- MODULE MCReceiverBlocks_proofs -----------------------
(***************************************************************************)
(* Proofs about the stretches of the receiver, each alone, for every value *)
(* of the constants.                                                       *)
(*                                                                         *)
(* The filter of detections keeps Inv.  The search for syncwords keeps     *)
(* SearchInv: the best sample of the open window is known by its age, and  *)
(* the marks in the history behind it are right.  A call searches sample   *)
(* by sample, a fold over the powers; SearchIs unfolds it into the states  *)
(* before and after each sample, and SearchGoesOn is the step.             *)
(*                                                                         *)
(* The rotation of packets keeps FreqInv: the frequency that waits, and    *)
(* the samples it waits for, follow from the packet and the age of the     *)
(* last sample of the clock.  Distances of detections above the delay keep *)
(* two frequencies from waiting at once.  RunFolds unfolds the loop of a   *)
(* call and RotatesSample is the step.                                     *)
(*                                                                         *)
(* The symbol clock keeps SymbolInv: behind the last sample that the       *)
(* filter took, the clock, the tag that waits and the drift follow from    *)
(* the age of that sample.  A sample is a Step4: LoopStep4 shows it of the *)
(* loop, DetectKeeps of a detection with its special cases, CallSteps of   *)
(* all samples of a call.  OutIs and MeasureIs then say which samples gave *)
(* symbols, and what the drift between them is.                            *)
(***************************************************************************)
EXTENDS MCReceiverBlocks, FiniteSetTheorems, FunctionTheorems, SequenceTheorems,
        WellFoundedInduction, TLAPS

-----------------------------------------------------------------------------
(* The filter of detections, for all sizes and all chunks.                 *)

(* The number of samples that pass before the length is known, and the     *)
(* sample at which a packet ends, are natural numbers; some samples always *)
(* pass (syncword_detection_filter.hpp: allowed, and the computation of    *)
(* _block_until, which the code does in unsigned integers).                *)
LEMMA SizesNatural ==
  /\ Allowed \in Nat \ {0}
  /\ \A meta \in Metas : BlockUntil(meta) \in Nat
<1>1. Allowed \in Nat \ {0}
  <2> DEFINE total == SyncwordSize + HeaderSize + AllowedMargin
  <2>1. total \in Nat \ {0}
    BY SizesAssumption
  <2>2. \A a, b \in Nat \ {0} : a * b \in Nat \ {0}
    OBVIOUS
  <2> QED BY <2>1, <2>2, SizesAssumption DEF Allowed
<1>2. ASSUME NEW meta \in Metas PROVE BlockUntil(meta) \in Nat
  <2>1. CASE meta = InvalidHeader
    BY <2>1 DEF BlockUntil
  <2>2. CASE meta # InvalidHeader
    <3> DEFINE total == HeaderSize + SyncwordSize - AllowedMargin + PayloadSymbols(meta)
    <3>1. meta \in Nat
      BY <2>2, SizesAssumption DEF Metas
    <3>2. \A a, b \in Nat : a * b \in Nat
      OBVIOUS
    <3>3. PayloadSymbols(meta) \in Nat
      BY <3>1, <3>2, SizesAssumption DEF PayloadSymbols
    <3>4. total \in Nat
      BY <3>3, SizesAssumption
    <3>5. BlockUntil(meta) = SamplesPerSymbol * total
      BY <2>2 DEF BlockUntil
    <3> QED BY <3>2, <3>4, <3>5, SizesAssumption
  <2> QED BY <2>1, <2>2
<1> QED BY <1>1, <1>2

(* Whatever messages a call sees, the new _block_until is natural.         *)
LEMMA BlockUntilAfterNatural ==
  ASSUME TypeOK,
         NEW tag \in BOOLEAN, NEW header \in Metas \cup {NoMessage},
         NEW ignored \in BOOLEAN
  PROVE  BlockUntilAfter(tag, header, ignored) \in Nat
<1>1. CASE TakesHeader(tag, header)
  BY <1>1, SizesNatural DEF TakesHeader, BlockUntilAfter
<1>2. CASE ~TakesHeader(tag, header)
  BY <1>2 DEF TakesIgnored, TakesHeader, BlockUntilAfter, TypeOK
<1> QED BY <1>1, <1>2

(* The inductive invariant of the filter. *)
Inv == TypeOK /\ BoundedLookahead

(* One call of the handler keeps the invariant, and closes a packet only   *)
(* when it may.                                                            *)
LEMMA GatePreserves ==
  ASSUME Inv,
         NEW tag \in BOOLEAN, NEW ignored \in BOOLEAN, NEW n \in Nat,
         NEW header \in Metas \cup {NoMessage}, NEW consumed \in Nat,
         Gate(tag, n, header, ignored, consumed)
  PROVE  /\ Inv'
         /\ in_packet /\ ~in_packet' =>
              /\ block_until' # 0
              /\ position' >= Allowed /\ position' >= block_until'
<1> DEFINE start    == IF Opens(tag) THEN 0 ELSE position
           until    == BlockUntilAfter(tag, header, ignored)
           early    == IF start < Allowed THEN Lesser(n, Allowed - start) ELSE 0
           released == start + early >= Allowed /\ until # 0
<1>1. /\ consumed = IF released THEN n ELSE early
      /\ position' = start + consumed
      /\ block_until' = until
      /\ in_packet' \in BOOLEAN
      /\ in_packet' <=> ~(released /\ start + consumed >= until)
  BY DEF Gate
<1>2. /\ Allowed \in Nat \ {0}
      /\ until \in Nat
      /\ start \in Nat
  BY SizesNatural, BlockUntilAfterNatural DEF Inv, TypeOK
<1>3. /\ early \in Nat /\ early <= n
      /\ start < Allowed => start + early <= Allowed
      /\ start >= Allowed => early = 0
  BY <1>2 DEF Lesser
<1>4. TypeOK'
  BY <1>1, <1>2 DEF TypeOK
<1>5. start > Allowed => until > start
  <2>1. ASSUME start > Allowed
        PROVE  ~Opens(tag) /\ start = position
    BY <2>1, <1>2
  <2>2. ASSUME start > Allowed
        PROVE  in_packet
    BY <2>1, <2>2 DEF Gate, Opens
  <2>3. ASSUME start > Allowed
        PROVE  position < block_until /\ block_until # 0
    BY <2>1, <2>2, <2>3, <1>2 DEF Inv, TypeOK, BoundedLookahead
  <2>4. ASSUME start > Allowed
        PROVE  until = block_until
    BY <2>1, <2>3, <2>4 DEF Unknown, TakesHeader, TakesIgnored, BlockUntilAfter
  <2> QED BY <2>1, <2>3, <2>4
<1>6. BoundedLookahead'
  <2>1. CASE released
    BY <2>1, <1>1, <1>2 DEF BoundedLookahead
  <2>2. CASE ~released
    <3>1. position' = start + early
      BY <2>2, <1>1
    <3>2. start + early >= Allowed => until = 0
      BY <2>2
    <3>3. Allowed' = Allowed
      BY DEF Allowed
    <3> QED BY <3>1, <3>2, <3>3, <1>1, <1>2, <1>3, <1>5 DEF BoundedLookahead
  <2> QED BY <2>1, <2>2
<1>7. ~in_packet' => /\ block_until' # 0
                     /\ position' >= Allowed /\ position' >= block_until'
  BY <1>1, <1>2, <1>3
<1> QED BY <1>4, <1>6, <1>7 DEF Inv

(* Outside a packet a call changes nothing.                                *)
LEMMA StepPreserves == Inv /\ [Next]_vars => Inv'
<1> SUFFICES ASSUME Inv, [Next]_vars PROVE Inv'
  OBVIOUS
<1>1. CASE UNCHANGED vars
  BY <1>1 DEF vars, Inv, TypeOK, BoundedLookahead, Allowed
<1>2. CASE Next
  <2>1. PICK tag \in BOOLEAN, ignored \in BOOLEAN, n \in 1 .. MaxChunk,
             header \in Metas \cup {NoMessage}, consumed \in 0 .. MaxChunk :
               ProcessBulk(tag, n, header, ignored, consumed)
    BY <1>2 DEF Next
  <2>2. CASE Forward(tag, n, consumed)
    BY <2>2, <1>1 DEF Forward, vars
  <2>3. CASE Gate(tag, n, header, ignored, consumed)
    BY <2>3, GatePreserves, SizesAssumption
  <2> QED BY <2>1, <2>2, <2>3 DEF ProcessBulk
<1> QED BY <1>1, <1>2

(* The filter keeps it. *)
LEMMA InvHolds == Spec => []Inv
<1>1. Init => Inv
  <2>1. Init => TypeOK
    <3>1. Init => in_packet \in BOOLEAN
      BY Zenon DEF Init
    <3>2. Init => position \in Nat /\ block_until \in Nat
      BY DEF Init
    <3> QED BY <3>1, <3>2 DEF TypeOK
  <2>2. Init => BoundedLookahead
    BY Zenon DEF Init, BoundedLookahead
  <2> QED BY <2>1, <2>2 DEF Inv
<1> QED BY <1>1, StepPreserves, PTL DEF Spec

(* The state of the filter keeps its types.                                *)
THEOREM TypeCorrect == Spec => []TypeOK
<1>1. Inv => TypeOK
  BY DEF Inv
<1> QED BY <1>1, InvHolds, PTL

(* The filter lets no more than the syncword, the header and the margin    *)
(* through while the length is unknown, and no open packet is past its     *)
(* end, for all sizes of packets and chunks.                               *)
THEOREM LookaheadBounded == Spec => []BoundedLookahead
<1>1. Inv => BoundedLookahead
  BY DEF Inv
<1> QED BY <1>1, InvHolds, PTL

(* A packet closes only with a known end, once the samples up to that end  *)
(* and the whole header have passed.                                       *)
THEOREM NeverClosesEarly == Spec => ClosesLate
<1>1. Inv /\ [Next]_vars =>
        [in_packet /\ ~in_packet' =>
           block_until' # 0 /\ position' >= Allowed /\ position' >= block_until']_vars
  <2> SUFFICES ASSUME Inv, Next, in_packet, ~in_packet'
               PROVE  block_until' # 0 /\ position' >= Allowed /\ position' >= block_until'
    OBVIOUS
  <2>1. PICK tag \in BOOLEAN, ignored \in BOOLEAN, n \in 1 .. MaxChunk,
             header \in Metas \cup {NoMessage}, consumed \in 0 .. MaxChunk :
               ProcessBulk(tag, n, header, ignored, consumed)
    BY DEF Next
  <2>2. CASE Forward(tag, n, consumed)
    BY <2>2 DEF Forward
  <2>3. CASE Gate(tag, n, header, ignored, consumed)
    BY <2>3, GatePreserves, SizesAssumption
  <2> QED BY <2>1, <2>2, <2>3 DEF ProcessBulk
<1> QED BY <1>1, InvHolds, PTL DEF Spec, ClosesLate

-----------------------------------------------------------------------------
(* Numbers and folds.                                                      *)

(* A set of numbers has a least one. *)
LEMMA Least ==
  ASSUME NEW T, T \subseteq Nat, T # {}
  PROVE  \E x \in T : \A y \in T : x <= y
<1>1. \A x, y : <<x, y>> \in OpToRel(<, Nat) <=> x \in Nat /\ y \in Nat /\ x < y
  BY DEF OpToRel
<1>2. PICK x \in T : \A y \in T : ~(<<y, x>> \in OpToRel(<, Nat))
  BY NatLessThanWellFounded, WFMin
<1>3. ASSUME NEW y \in T
      PROVE  x <= y
  <2>1. x \in Nat /\ y \in Nat
    OBVIOUS
  <2>2. ~(y < x)
    BY <1>1, <1>2, <2>1
  <2> QED BY <2>1, <2>2
<1> QED BY <1>3

(* The greatest element, with which a fold from the left begins. *)
Greatest(s) == CHOOSE x \in s : \A y \in s : x >= y

(* What it is. *)
LEMMA GreatestIs ==
  ASSUME NEW m \in Nat, NEW s \in SUBSET (1 .. m), s # {}
  PROVE  /\ Greatest(s) \in s
         /\ m \in s => Greatest(s) = m
<1>1. \E x \in s : \A y \in s : x >= y
  <2> DEFINE T == {k \in Nat : \A y \in s : k >= y}
  <2>1. m \in T /\ T \subseteq Nat
    OBVIOUS
  <2>2. PICK x \in T : \A y \in T : x <= y
    BY <2>1, Least
  <2>3. x \in s
    <3>1. SUFFICES ASSUME x \notin s
                   PROVE  FALSE
      OBVIOUS
    <3>2. PICK z \in s : TRUE
      OBVIOUS
    <3>3. x \in Nat /\ \A y \in s : y \in Nat /\ x >= y /\ x # y /\ y > 0
      BY <2>2, <3>1
    <3>4. x > 0 /\ x - 1 \in Nat /\ \A y \in s : x - 1 >= y
      BY <3>2, <3>3
    <3>5. x - 1 \in T
      BY <3>4
    <3> QED BY <2>2, <3>3, <3>5
  <2> QED BY <2>2, <2>3
<1>2. Greatest(s) \in s /\ \A y \in s : Greatest(s) >= y
  BY <1>1 DEF Greatest
<1>3. ASSUME m \in s
      PROVE  Greatest(s) = m
  <2>1. Greatest(s) \in 1 .. m /\ Greatest(s) >= m
    BY <1>2, <1>3
  <2> QED BY <2>1
<1> QED BY <1>2, <1>3

-----------------------------------------------------------------------------
(* The search for syncwords: the fold over the samples of a call.          *)

(* Where a call begins (syncword_detection.hpp:269). *)
SearchStart ==
  [best |-> best, best_idx |-> best_idx, history |-> history, out |-> <<>>]

(* The k-th sample of the call. *)
SearchStep(x, k, powers) == DET!Step(x, powers[k], DET!Index(k))

(* The samples of s, of which the greatest is the last. *)
SearchOver(it, s, powers) ==
  IF s = {} THEN SearchStart
  ELSE SearchStep(it[s \ {Greatest(s)}], Greatest(s), powers)

(* A function that has the state after each set of samples. *)
Searches(it, n, powers) ==
  it = [s \in SUBSET (1 .. n) |-> SearchOver(it, s, powers)]

(* There is a function that folds. *)
LEMMA SearchesExist ==
  ASSUME NEW powers, NEW n \in Nat
  PROVE  \E it : Searches(it, n, powers)
<1> DEFINE T == {m \in Nat : ~\E it : Searches(it, m, powers)}
<1>1. SUFFICES ASSUME T # {}
               PROVE  FALSE
  OBVIOUS
<1>2. PICK m \in T : \A y \in T : m <= y
  BY <1>1, Least
<1>3. m \in Nat
  OBVIOUS
<1>4. CASE m = 0
  <2>1. PICK it : it = [s \in SUBSET (1 .. m) |-> SearchStart]
    OBVIOUS
  <2>2. \A s \in SUBSET (1 .. m) : s = {}
    BY <1>4
  <2>3. \A s \in SUBSET (1 .. m) : SearchOver(it, s, powers) = SearchStart
    BY <2>2 DEF SearchOver
  <2>4. Searches(it, m, powers)
    BY <2>1, <2>3 DEF Searches
  <2> QED BY <2>4
<1>5. CASE m > 0
  <2>1. m - 1 \in Nat /\ m - 1 \notin T
    BY <1>2, <1>3, <1>5
  <2>2. PICK old : Searches(old, m - 1, powers)
    BY <2>1
  <2>3. PICK it : it = [s \in SUBSET (1 .. m) |->
                          IF m \in s THEN SearchStep(old[s \ {m}], m, powers) ELSE old[s]]
    OBVIOUS
  <2>4. ASSUME NEW s \in SUBSET (1 .. m)
        PROVE  it[s] = SearchOver(it, s, powers)
    <3>1. CASE m \in s
      <4>1. s \ {m} \in SUBSET (1 .. m) /\ m \notin s \ {m}
        OBVIOUS
      <4>2. it[s \ {m}] = old[s \ {m}] /\ it[s] = SearchStep(old[s \ {m}], m, powers)
        BY <2>3, <3>1, <4>1
      <4>3. Greatest(s) = m /\ s # {}
        BY <1>3, <3>1, GreatestIs
      <4> QED BY <4>2, <4>3 DEF SearchOver
    <3>2. CASE m \notin s
      <4>1. s \in SUBSET (1 .. m - 1)
        BY <1>3, <3>2
      <4>2. it[s] = old[s] /\ old[s] = SearchOver(old, s, powers)
        BY <2>2, <2>3, <3>2, <4>1 DEF Searches
      <4>3. CASE s = {}
        BY <4>2, <4>3 DEF SearchOver
      <4>4. CASE s # {}
        <5>1. Greatest(s) \in s
          BY <2>1, <4>1, <4>4, GreatestIs
        <5>2. s \ {Greatest(s)} \in SUBSET (1 .. m) /\ m \notin s \ {Greatest(s)}
          BY <3>2
        <5>3. it[s \ {Greatest(s)}] = old[s \ {Greatest(s)}]
          BY <2>3, <5>2
        <5> QED BY <4>2, <4>4, <5>3 DEF SearchOver
      <4> QED BY <4>3, <4>4
    <3> QED BY <3>1, <3>2
  <2>5. it = [s \in SUBSET (1 .. m) |-> SearchOver(it, s, powers)]
    <3>1. it = [s \in SUBSET (1 .. m) |-> it[s]]
      BY <2>3
    <3>2. [s \in SUBSET (1 .. m) |-> it[s]] = [s \in SUBSET (1 .. m) |-> SearchOver(it, s, powers)]
      BY <2>4
    <3> QED BY <3>1, <3>2
  <2> QED BY <2>5 DEF Searches
<1> QED BY <1>3, <1>4, <1>5

(* A call searches sample by sample. *)
LEMMA SearchIs ==
  ASSUME NEW n \in Nat, NEW powers, DOMAIN powers = 1 .. n
  PROVE  \E w : /\ w[0] = SearchStart
                /\ \A k \in 1 .. n : w[k] = SearchStep(w[k - 1], k, powers)
                /\ DET!Search(powers) = w[n]
<1> DEFINE S == 1 .. n
           seq == [i \in DOMAIN powers |-> i]
           op(it, s) == IF s = {} THEN SearchStart
                        ELSE DET!Step(it[s \ {DET!Max(s)}], powers[seq[DET!Max(s)]],
                                      DET!Index(seq[DET!Max(s)]))
           iter == CHOOSE it : it = [s \in SUBSET S |-> op(it, s)]
<1>1. DET!Search(powers) = iter[S]
  <2>1. DOMAIN seq = S
    OBVIOUS
  <2> QED BY <2>1 DEF DET!Search, DET!FoldLeftDomain, DET!FoldLeft, DET!MapThenFoldSet, SearchStart
<1>2. \A s : DET!Max(s) = Greatest(s)
  BY DEF DET!Max, Greatest
<1>3. ASSUME NEW it
      PROVE  Searches(it, n, powers) <=> it = [s \in SUBSET S |-> op(it, s)]
  <2>1. ASSUME NEW s \in SUBSET S
        PROVE  op(it, s) = SearchOver(it, s, powers)
    <3>1. CASE s = {}
      BY <3>1 DEF SearchOver
    <3>2. CASE s # {}
      <4>1. PICK g \in S : g = Greatest(s)
        BY <3>2, GreatestIs
      <4>2. DET!Max(s) = g /\ seq[g] = g
        BY <1>2, <4>1
      <4>3. op(it, s) = SearchStep(it[s \ {g}], g, powers)
        BY <3>2, <4>2 DEF SearchStep
      <4> HIDE DEF op, S
      <4> QED BY <3>2, <4>1, <4>3 DEF SearchOver
    <3> QED BY <3>1, <3>2
  <2>2. [s \in SUBSET S |-> op(it, s)] = [s \in SUBSET S |-> SearchOver(it, s, powers)]
    <3> HIDE DEF S, op
    <3> QED BY <2>1
  <2> HIDE DEF op
  <2> QED BY <2>2 DEF Searches
<1>4. PICK v : Searches(v, n, powers)
  BY SearchesExist
<1>5. iter = [s \in SUBSET S |-> op(iter, s)]
  <2>1. v = [s \in SUBSET S |-> op(v, s)]
    BY <1>3, <1>4
  <2> QED BY <2>1
<1> HIDE DEF iter
<1>6. Searches(iter, n, powers)
  BY <1>3, <1>5
<1>7. PICK w : w = [k \in 0 .. n |-> iter[1 .. k]]
  OBVIOUS
<1>8. w[0] = SearchStart
  <2>1. w[0] = iter[{}]
    BY <1>7
  <2> QED BY <1>6, <2>1 DEF Searches, SearchOver
<1>9. ASSUME NEW k \in 1 .. n
      PROVE  w[k] = SearchStep(w[k - 1], k, powers)
  <2>1. /\ k \in Nat /\ k \in 1 .. k /\ 1 .. k # {}
        /\ 1 .. k \in SUBSET (1 .. n) /\ 1 .. k \in SUBSET (1 .. k)
    <3>1. k \in Nat /\ k > 0 /\ k <= n
      OBVIOUS
    <3>2. k \in 1 .. k /\ \A x \in 1 .. k : x \in 1 .. n
      BY <3>1
    <3> QED BY <3>1, <3>2
  <2>2. Greatest(1 .. k) = k
    BY <2>1, GreatestIs
  <2>3. (1 .. k) \ {k} = 1 .. k - 1
    OBVIOUS
  <2>4. iter[1 .. k] = SearchStep(iter[1 .. k - 1], k, powers)
    BY <1>6, <2>1, <2>2, <2>3 DEF Searches, SearchOver
  <2> QED BY <1>7, <2>4
<1>10. DET!Search(powers) = w[n]
  BY <1>1, <1>7
<1> QED BY <1>8, <1>9, <1>10

-----------------------------------------------------------------------------
(* The neighbourhood of a sample.                                          *)

(* The constants of the search. *)
LEMMA SearchSizes ==
  /\ TimeThreshold \in Nat /\ HistoryCapacity \in Nat /\ Modulus \in Nat
  /\ HistoryCapacity > 2 * TimeThreshold + 1
  /\ Modulus > 2 * TimeThreshold + 1
  /\ PowerThreshold \in Nat /\ PowerThreshold > 0
  /\ Powers \subseteq Nat
BY BlocksAssumption DEF DET!DetectionAssumption

(* The number of elements is the one of the module of the search. *)
LEMMA CountIs == \A S : DET!Cardinality(S) = Cardinality(S)
BY DEF DET!Cardinality, Cardinality

(* The samples of a neighbourhood that the sample stands out from. *)
Lower(h, p) ==
  {q \in p - TimeThreshold .. p + TimeThreshold :
     h[q].power * PowerThreshold < h[p].power}

(* It is above the median by the threshold. *)
Stands(h, p) == 2 * Cardinality(Lower(h, p)) >= 2 * TimeThreshold + 1

(* They are as many after the samples have moved. *)
LEMMA LowerMoves ==
  ASSUME NEW h, NEW g, NEW p \in Int,
         \A q \in p - TimeThreshold .. p + TimeThreshold : g[q + 1].power = h[q].power
  PROVE  Stands(g, p + 1) <=> Stands(h, p)
<1> DEFINE A == Lower(h, p)
           B == Lower(g, p + 1)
           f == [q \in A |-> q + 1]
<1>1. TimeThreshold \in Nat
  BY SearchSizes
<1>2. \A q \in A : q + 1 \in B
  BY <1>1 DEF Lower
<1>3. \A r \in B : r - 1 \in A /\ (r - 1) + 1 = r
  BY <1>1 DEF Lower
<1>4. \A q \in A : q \in Int
  BY <1>1 DEF Lower
<1>5. IsFiniteSet(A)
  <2>1. A \in SUBSET (p - TimeThreshold .. p + TimeThreshold)
    BY DEF Lower
  <2>2. IsFiniteSet(p - TimeThreshold .. p + TimeThreshold)
    BY <1>1, FS_Interval
  <2> QED BY <2>1, <2>2, FS_Subset
<1> HIDE DEF A, B
<1>6. f \in Bijection(A, B)
  <2>1. f \in [A -> B]
    BY <1>2
  <2>2. \A a, b \in A : f[a] = f[b] => a = b
    BY <1>4
  <2>3. \A r \in B : \E q \in A : f[q] = r
    BY <1>3
  <2> QED BY <2>1, <2>2, <2>3, Fun_IsBij
<1>7. Cardinality(A) = Cardinality(B)
  BY <1>5, <1>6, FS_Bijection, Fun_ExistsBij
<1> QED BY <1>7 DEF Stands, A, B

(* A sample that stands out is not zero. *)
LEMMA StandsPositive ==
  ASSUME NEW h, NEW p \in Int, Stands(h, p),
         \A q \in p - TimeThreshold .. p + TimeThreshold : h[q].power \in Nat
  PROVE  h[p].power > 0
<1>1. TimeThreshold \in Nat /\ PowerThreshold \in Nat
  BY SearchSizes
<1>2. Lower(h, p) # {}
  <2>1. SUFFICES ASSUME Lower(h, p) = {}
                 PROVE  FALSE
    OBVIOUS
  <2>2. Cardinality(Lower(h, p)) = 0
    BY <2>1, FS_EmptySet
  <2> QED BY <1>1, <2>2 DEF Stands
<1>3. PICK q \in p - TimeThreshold .. p + TimeThreshold :
             h[q].power * PowerThreshold < h[p].power
  BY <1>2 DEF Lower
<1>4. \A x, y \in Nat : x * y >= 0
  OBVIOUS
<1>5. h[p].power \in Nat
  BY <1>1
<1> QED BY <1>1, <1>3, <1>4, <1>5

-----------------------------------------------------------------------------
(* Unsigned indices.                                                       *)

(* The values of an index. *)
Indices == 0 .. Modulus - 1

(* The next index. *)
Follows(c) == IF c + 1 = Modulus THEN 0 ELSE c + 1

(* How far an index is behind another. *)
Behind(b, c) == IF b <= c THEN c - b ELSE (c - b) + Modulus

(* What a remainder is. *)
LEMMA RemainderIs ==
  ASSUME NEW q \in Int, NEW r \in Indices
  PROVE  (q * Modulus + r) % Modulus = r
<1>1. PICK M \in Nat : M = Modulus /\ M > 0
  BY SearchSizes
<1>2. PICK x \in Int : x = q * M + r
  BY <1>1 DEF Indices
<1>3. PICK u, v : u = x \div M /\ v = x % M
  OBVIOUS
<1>4. u \in Int /\ v \in Int /\ x = u * M + v /\ 0 <= v /\ v < M
  BY <1>1, <1>3, SMTT(20)
<1>5. r \in Int /\ 0 <= r /\ r < M
  BY <1>1 DEF Indices
<1>6. (u - q) * M = r - v
  BY <1>2, <1>4, <1>5
<1>7. u - q = 0
  <2>1. PICK w \in Int : w = u - q
    BY <1>4
  <2>2. w * M < M /\ w * M > 0 - M
    BY <1>1, <1>4, <1>5, <1>6, <2>1
  <2>3. ~(w >= 1)
    BY <1>1, <2>2
  <2>4. ~(w <= 0 - 1)
    BY <1>1, <2>2
  <2> QED BY <2>1, <2>3, <2>4
<1> QED BY <1>1, <1>2, <1>3, <1>4, <1>5, <1>6, <1>7

(* Differences and successors of indices. *)
LEMMA IndexArithmetic ==
  ASSUME NEW b \in Indices, NEW c \in Indices
  PROVE  /\ (c - b) % Modulus = Behind(b, c)
         /\ (c + 1) % Modulus = Follows(c)
         /\ Behind(b, c) \in Indices /\ Follows(c) \in Indices
<1>1. PICK M \in Nat : M = Modulus /\ M > 0
  BY SearchSizes
<1>2. b \in Int /\ c \in Int /\ 0 <= b /\ b < M /\ 0 <= c /\ c < M
  BY <1>1 DEF Indices
<1>3. Behind(b, c) \in Indices /\ Follows(c) \in Indices
  BY <1>1, <1>2 DEF Behind, Follows, Indices
<1>4. (c - b) % Modulus = Behind(b, c)
  <2>1. CASE b <= c
    BY <1>1, <1>2, <1>3, <2>1, RemainderIs DEF Behind
  <2>2. CASE ~(b <= c)
    <3>1. c - b = (0 - 1) * Modulus + Behind(b, c)
      BY <1>1, <1>2, <2>2 DEF Behind
    <3> QED BY <1>3, <3>1, RemainderIs
  <2> QED BY <2>1, <2>2
<1>5. (c + 1) % Modulus = Follows(c)
  <2>1. CASE c + 1 = M
    <3>1. c + 1 = 1 * Modulus + Follows(c)
      BY <1>1, <1>2, <2>1 DEF Follows
    <3> QED BY <1>3, <3>1, RemainderIs
  <2>2. CASE c + 1 # M
    <3>1. c + 1 = 0 * Modulus + Follows(c)
      BY <1>1, <1>2, <2>2 DEF Follows
    <3> QED BY <1>3, <3>1, RemainderIs
  <2> QED BY <2>1, <2>2
<1> QED BY <1>3, <1>4, <1>5

(* The indices of the samples of a call count on from the first. *)
LEMMA IndexGoesOn ==
  ASSUME items_consumed \in Indices, NEW k \in Nat, k > 0
  PROVE  /\ DET!Index(1) = items_consumed
         /\ DET!Index(k) \in Indices
         /\ DET!Index(k + 1) = Follows(DET!Index(k))
         /\ DET!Index(k + 1) = (items_consumed + k) % Modulus
<1>1. PICK M \in Nat : M = Modulus /\ M > 0
  BY SearchSizes
<1>2. PICK i \in Nat : i = items_consumed /\ i < M
  BY <1>1 DEF Indices
<1>3. PICK x \in Nat : x = (i + k) - 1
  BY <1>2
<1>4. PICK u \in Int, v \in Indices : x = u * M + v /\ v = x % M
  <2>1. PICK u, v : u = x \div M /\ v = x % M
    OBVIOUS
  <2>2. u \in Int /\ v \in Int /\ x = u * M + v /\ 0 <= v /\ v < M
    BY <1>1, <2>1, SMTT(20)
  <2>3. v \in Indices
    BY <1>1, <2>2 DEF Indices
  <2> QED BY <1>1, <2>1, <2>2, <2>3
<1>5. DET!Index(k) = v
  BY <1>1, <1>2, <1>3, <1>4 DEF DET!Index
<1>6. v \in Int /\ Follows(v) \in Indices
  <2>1. Follows(v) \in Indices
    BY <1>4, IndexArithmetic
  <2> QED BY <2>1 DEF Indices
<1>7. (x + 1) % Modulus = Follows(v)
  <2>1. CASE v + 1 = M
    <3>1. x + 1 = (u + 1) * Modulus + Follows(v)
      BY <1>1, <1>4, <1>6, <2>1 DEF Follows
    <3>2. u + 1 \in Int
      OBVIOUS
    <3> QED BY <1>6, <3>1, <3>2, RemainderIs
  <2>2. CASE v + 1 # M
    <3>1. x + 1 = u * Modulus + Follows(v)
      BY <1>1, <1>4, <1>6, <2>2 DEF Follows
    <3> QED BY <1>6, <3>1, RemainderIs
  <2> QED BY <2>1, <2>2
<1>8. (items_consumed + (k + 1)) - 1 = x + 1 /\ items_consumed + k = x + 1
  BY <1>2, <1>3
<1>10. DET!Index(k + 1) = Follows(v) /\ (items_consumed + k) % Modulus = Follows(v)
  BY <1>7, <1>8 DEF DET!Index
<1>9. DET!Index(1) = items_consumed
  <2>1. (i + 1) - 1 = 0 * Modulus + i
    BY <1>1, <1>2
  <2>2. ((i + 1) - 1) % Modulus = i
    BY <1>2, <2>1, RemainderIs
  <2> QED BY <1>2, <2>2 DEF DET!Index
<1> QED BY <1>4, <1>5, <1>9, <1>10

-----------------------------------------------------------------------------
(* The invariant of the search.  A place in the history is the age of its  *)
(* sample.                                                                 *)

(* The samples with places from lo to hi are below that at p. *)
Tops(h, p, lo, hi) == \A q \in lo .. hi : q # p => h[q].power < h[p].power

(* A mark is right: the sample stands out, and none of those after it that *)
(* count exceeds it.                                                       *)
Sound(h, p) ==
  Stands(h, p) /\ \A q \in p - TimeThreshold .. p - 1 : h[q].power <= h[p].power

(* The histories. *)
Histories == [1 .. HistoryCapacity -> DET!Items]

(* The marks in a history, of which the first counts: it is at place a + 1 *)
(* or behind, and at place from or behind all that had to be are there.    *)
MarksRight(h, first, from) ==
  /\ \A p \in 1 .. HistoryCapacity : h[p].detection => p >= first
  /\ \A p, q \in 1 .. HistoryCapacity :
       h[p].detection /\ h[q].detection /\ p < q => q - p > TimeThreshold
  /\ \A p \in 1 .. HistoryCapacity - TimeThreshold : h[p].detection => Sound(h, p)
  /\ \A p \in from .. HistoryCapacity - TimeThreshold :
       Stands(h, p) /\ Tops(h, p, p - TimeThreshold, p + TimeThreshold) => h[p].detection

(* The best sample of power b has age a: those after it do not exceed it,  *)
(* and a sample above all others near it is the best one.                  *)
BestAt(b, h, a) ==
  /\ b \in Nat /\ h \in Histories /\ a \in 0 .. TimeThreshold + 1
  /\ IF a = 0 THEN b = 0 ELSE h[a].power = b
  /\ \A u \in 1 .. a - 1 : h[u].power <= b
  /\ \A p \in 1 .. TimeThreshold + 1 :
       h[p].power > 0 /\ Tops(h, p, 1, p + TimeThreshold) => a = p
  /\ MarksRight(h, a + TimeThreshold + 1, TimeThreshold + 2)

(* The same when the next sample, of the given power, was looked at but is *)
(* not yet in the history; the best sample may be that one, of age 0.      *)
LookedAt(power, b, h, a) ==
  /\ power \in Powers /\ b \in Nat /\ h \in Histories /\ a \in 0 .. TimeThreshold
  /\ power <= b
  /\ IF a = 0 THEN b = power ELSE h[a].power = b
  /\ \A u \in 1 .. a - 1 : h[u].power <= b
  /\ \A p \in 1 .. TimeThreshold :
       h[p].power > power /\ Tops(h, p, 1, p + TimeThreshold) => a = p
  /\ (power > 0 /\ \A q \in 1 .. TimeThreshold : h[q].power < power) => a = 0
  /\ MarksRight(h, a + TimeThreshold + 1, TimeThreshold + 1)

(* The history after a sample of the given power. *)
Moves(g, power, h) ==
  /\ g \in Histories /\ g[1] = [power |-> power, detection |-> FALSE]
  /\ \A q \in 1 .. HistoryCapacity - 1 : g[q + 1] = h[q]

(* Items have powers. *)
LEMMA ItemsOf ==
  ASSUME NEW h \in Histories, NEW p \in 1 .. HistoryCapacity
  PROVE  h[p].power \in Nat /\ h[p].detection \in BOOLEAN
<1>1. h[p] \in DET!Items
  BY DEF Histories
<1>2. h[p].power \in Powers \cup {0} /\ h[p].detection \in BOOLEAN
  BY <1>1 DEF DET!Items
<1>3. Powers \cup {0} \subseteq Nat
  BY SearchSizes
<1> QED BY <1>2, <1>3

(* The marks move with their samples. *)
LEMMA MarksMove ==
  ASSUME NEW h \in Histories, NEW g, NEW power, Moves(g, power, h), NEW a \in 0 .. TimeThreshold,
         MarksRight(h, a + TimeThreshold + 1, TimeThreshold + 1)
  PROVE  MarksRight(g, a + 1 + TimeThreshold + 1, TimeThreshold + 2)
<1>1. PICK T, H \in Nat : T = TimeThreshold /\ H = HistoryCapacity /\ H > 2 * T + 1
  BY SearchSizes
<1>2. ~g[1].detection
  BY DEF Moves
<1>3. \A q \in 1 .. H - 1 : g[q + 1] = h[q]
  BY <1>1 DEF Moves
<1>4. \A p \in 2 .. H : p - 1 \in 1 .. H - 1 /\ g[p] = h[p - 1]
  <2>1. ASSUME NEW p \in 2 .. H
        PROVE  p - 1 \in 1 .. H - 1 /\ g[p] = h[p - 1]
    <3>1. p - 1 \in 1 .. H - 1 /\ (p - 1) + 1 = p
      BY <1>1
    <3> QED BY <1>3, <3>1
  <2> QED BY <2>1
<1>5. \A p \in 1 .. H : g[p].detection => p \in 2 .. H /\ h[p - 1].detection
  <2>1. \A p \in 1 .. H : p = 1 \/ p \in 2 .. H
    BY <1>1
  <2> QED BY <1>2, <1>4, <2>1
<1>6. \A p \in 1 .. H : h[p].detection => p >= a + T + 1
  BY <1>1 DEF MarksRight
<1>7. \A p \in 1 .. H : g[p].detection => p >= a + 1 + T + 1
  BY <1>1, <1>4, <1>5, <1>6
<1>8. ASSUME NEW p \in 1 .. H, NEW q \in 1 .. H, g[p].detection, g[q].detection, p < q
      PROVE  q - p > T
  <2>1. /\ p - 1 \in 1 .. H /\ q - 1 \in 1 .. H /\ h[p - 1].detection /\ h[q - 1].detection
        /\ p - 1 < q - 1
    BY <1>1, <1>4, <1>5, <1>8
  <2>2. (q - 1) - (p - 1) > T
    BY <1>1, <2>1 DEF MarksRight
  <2> QED BY <2>2
<1>9. ASSUME NEW p \in T + 2 .. H - T
      PROVE  /\ p - 1 \in T + 1 .. H - T
             /\ \A q \in p - T .. p + T : /\ g[q] = h[q - 1]
                                          /\ q - 1 \in (p - 1) - T .. (p - 1) + T
             /\ Stands(g, p) <=> Stands(h, p - 1)
  <2>1. p - 1 \in T + 1 .. H - T /\ p - 1 \in Int /\ (p - 1) + 1 = p
    BY <1>1
  <2>2. \A q \in (p - 1) - T .. (p - 1) + T : q \in 1 .. H - 1
    BY <1>1, <2>1
  <2>3. \A q \in (p - 1) - T .. (p - 1) + T : g[q + 1].power = h[q].power
    BY <1>3, <2>2
  <2>4. Stands(g, (p - 1) + 1) <=> Stands(h, p - 1)
    BY <1>1, <2>1, <2>3, LowerMoves
  <2>5. \A q \in p - T .. p + T : q \in 2 .. H /\ q - 1 \in (p - 1) - T .. (p - 1) + T
    BY <1>1
  <2> QED BY <1>4, <2>1, <2>4, <2>5
<1>10. ASSUME NEW p \in 1 .. H - T, g[p].detection
       PROVE  Sound(g, p)
  <2>1. p \in T + 2 .. H - T /\ p \in 1 .. H
    BY <1>1, <1>7, <1>10
  <2>2. h[p - 1].detection /\ p - 1 \in 1 .. H - T
    BY <1>1, <1>5, <1>10, <2>1
  <2>3. Sound(h, p - 1)
    BY <1>1, <2>2 DEF MarksRight
  <2>4. Stands(g, p)
    BY <1>9, <2>1, <2>3 DEF Sound
  <2>5. ASSUME NEW q \in p - T .. p - 1
        PROVE  g[q].power <= g[p].power
    <3>1. q - 1 \in (p - 1) - T .. (p - 1) - 1 /\ q \in p - T .. p + T /\ p \in p - T .. p + T
      BY <1>1
    <3>2. h[q - 1].power <= h[p - 1].power
      BY <1>1, <2>3, <3>1 DEF Sound
    <3> QED BY <1>9, <2>1, <3>1, <3>2
  <2> QED BY <1>1, <2>4, <2>5 DEF Sound
<1>11. ASSUME NEW p \in T + 2 .. H - T, Stands(g, p), Tops(g, p, p - T, p + T)
       PROVE  g[p].detection
  <2>1. p - 1 \in T + 1 .. H - T /\ Stands(h, p - 1)
    BY <1>9, <1>11
  <2>2. ASSUME NEW q \in (p - 1) - T .. (p - 1) + T, q # p - 1
        PROVE  h[q].power < h[p - 1].power
    <3>1. q + 1 \in p - T .. p + T /\ p \in p - T .. p + T /\ (q + 1) - 1 = q /\ q + 1 # p
      BY <1>1, <2>2
    <3>2. g[q + 1].power < g[p].power
      BY <1>11, <3>1 DEF Tops
    <3> QED BY <1>9, <3>1, <3>2
  <2>3. Tops(h, p - 1, (p - 1) - T, (p - 1) + T)
    BY <2>2 DEF Tops
  <2>4. h[p - 1].detection
    BY <1>1, <2>1, <2>3 DEF MarksRight
  <2>5. p \in p - T .. p + T
    BY <1>1
  <2> QED BY <1>9, <2>4, <2>5
<1> QED BY <1>1, <1>7, <1>8, <1>10, <1>11 DEF MarksRight

(* The next sample enters the history. *)
LEMMA BestMoves ==
  ASSUME NEW power, NEW b, NEW h, NEW a, LookedAt(power, b, h, a),
         NEW g, Moves(g, power, h)
  PROVE  BestAt(b, g, a + 1)
<1>1. PICK T, H \in Nat : T = TimeThreshold /\ H = HistoryCapacity /\ H > 2 * T + 1
  BY SearchSizes
<1>2. b \in Nat /\ a \in 0 .. T /\ power \in Nat /\ h \in Histories /\ g \in Histories /\ power <= b
  BY <1>1, SearchSizes DEF LookedAt, Moves
<1>3. g[1].power = power /\ \A q \in 1 .. H - 1 : g[q + 1] = h[q]
  BY <1>1 DEF Moves
<1>4. g[a + 1].power = b
  <2>1. CASE a = 0
    BY <1>3, <2>1 DEF LookedAt
  <2>2. CASE a # 0
    <3>1. a \in 1 .. H - 1 /\ h[a].power = b
      BY <1>1, <1>2, <2>2 DEF LookedAt
    <3> QED BY <1>3, <3>1
  <2> QED BY <2>1, <2>2
<1>5. ASSUME NEW u \in 1 .. (a + 1) - 1
      PROVE  g[u].power <= b
  <2>1. CASE u = 1
    BY <1>2, <1>3, <2>1
  <2>2. CASE u # 1
    <3>1. u - 1 \in 1 .. a - 1 /\ u - 1 \in 1 .. H - 1 /\ (u - 1) + 1 = u
      BY <1>1, <1>2, <2>2
    <3>2. h[u - 1].power <= b /\ g[(u - 1) + 1] = h[u - 1]
      BY <1>3, <3>1 DEF LookedAt
    <3> QED BY <3>1, <3>2
  <2> QED BY <2>1, <2>2
<1>6. ASSUME NEW p \in 1 .. T + 1, g[p].power > 0, Tops(g, p, 1, p + T)
      PROVE  a + 1 = p
  <2>1. CASE p = 1
    <3>1. ASSUME NEW q \in 1 .. T
          PROVE  h[q].power < power
      <4>1. q + 1 \in 1 .. p + T /\ q + 1 # p /\ q \in 1 .. H - 1
        BY <1>1, <2>1
      <4>2. g[q + 1].power < g[p].power
        BY <1>6, <4>1 DEF Tops
      <4> QED BY <1>3, <2>1, <4>1, <4>2
    <3>2. a = 0
      BY <1>1, <1>3, <1>6, <2>1, <3>1 DEF LookedAt
    <3> QED BY <2>1, <3>2
  <2>2. CASE p # 1
    <3>1. p - 1 \in 1 .. T /\ p - 1 \in 1 .. H - 1 /\ (p - 1) + 1 = p
      BY <1>1, <2>2
    <3>2. g[p] = h[p - 1]
      BY <1>3, <3>1
    <3>3. h[p - 1].power > power
      <4>1. 1 \in 1 .. p + T
        BY <1>1
      <4>2. g[1].power < g[p].power
        BY <1>6, <2>2, <4>1 DEF Tops
      <4>3. h[p - 1].power \in Nat
        BY <1>1, <1>2, <3>1, ItemsOf
      <4> QED BY <1>2, <1>3, <3>2, <4>2, <4>3
    <3>4. ASSUME NEW q \in 1 .. (p - 1) + T, q # p - 1
          PROVE  h[q].power < h[p - 1].power
      <4>1. q + 1 \in 1 .. p + T /\ q + 1 # p /\ q \in 1 .. H - 1
        BY <1>1, <3>4
      <4>2. g[q + 1].power < g[p].power
        BY <1>6, <4>1 DEF Tops
      <4> QED BY <1>3, <3>2, <4>1, <4>2
    <3>5. Tops(h, p - 1, 1, (p - 1) + T)
      BY <3>4 DEF Tops
    <3>6. a = p - 1
      BY <1>1, <3>1, <3>3, <3>5 DEF LookedAt
    <3> QED BY <1>2, <3>6
  <2> QED BY <2>1, <2>2
<1>7. MarksRight(g, a + 1 + T + 1, T + 2)
  BY <1>1, <1>2, MarksMove DEF LookedAt
<1>8. a + 1 \in 0 .. T + 1 /\ a + 1 # 0
  BY <1>1, <1>2
<1>9. \A p \in 1 .. T + 1 : g[p].power > 0 /\ Tops(g, p, 1, p + T) => a + 1 = p
  BY <1>6
<1> QED BY <1>1, <1>2, <1>4, <1>5, <1>7, <1>8, <1>9 DEF BestAt

-----------------------------------------------------------------------------
(* One sample of the search.                                               *)

(* The sample that leaves, and the items that have left so far. *)
Leaves(out, k, h) ==
  /\ out \in Seq(DET!Items) /\ Len(out) = k
  /\ \A i \in 1 .. k :
       2 * TimeThreshold + 2 + k - i <= HistoryCapacity
         => out[i] = h[2 * TimeThreshold + 2 + k - i]

(* The state of the loop over the samples. *)
Loops == [best : Nat, best_idx : Indices, history : Histories, out : Seq(DET!Items)]

(* A state of the loop before the sample with index c, after k samples. *)
SearchAt(x, c, k) ==
  /\ x \in Loops /\ c \in Indices
  /\ BestAt(x.best, x.history, Behind(x.best_idx, c))
  /\ Leaves(x.out, k, x.history)

(* The sample in the middle of the window is marked if it stands out. *)
Marked(h) ==
  [h EXCEPT ![TimeThreshold + 1].detection = @ \/ Stands(h, TimeThreshold + 1)]

(* A window that is over: the best sample is marked if it stands out. *)
LEMMA CloseIs ==
  ASSUME NEW x, NEW c, NEW k \in Nat, SearchAt(x, c, k), DET!Closes(x, c)
  PROVE  /\ Behind(x.best_idx, c) = TimeThreshold + 1
         /\ DET!Close(x, c) = [best |-> 0, best_idx |-> c, history |-> Marked(x.history),
                               out |-> x.out]
<1>1. PICK T, H, M \in Nat : /\ T = TimeThreshold /\ H = HistoryCapacity /\ H > 2 * T + 1
                             /\ M = Modulus /\ M > 2 * T + 1
  BY SearchSizes
<1>2. PICK h \in Histories : h = x.history
  BY DEF SearchAt, BestAt
<1>3. PICK a \in 0 .. T + 1 : a = Behind(x.best_idx, c)
  BY <1>1 DEF SearchAt, BestAt
<1>4. a = T + 1
  <2>1. (c - x.best_idx) % Modulus = a
    BY <1>3, IndexArithmetic DEF SearchAt, Loops
  <2> QED BY <1>1, <1>3, <2>1 DEF DET!Closes
<1>5. PICK b, i \in Int : b = x.best_idx /\ i = c /\ 0 <= b /\ b < M /\ 0 <= i /\ i < M
  BY <1>1 DEF SearchAt, Indices, Loops
<1>6. DET!Place(x, c) = T + 1
  <2>1. T \in Indices
    BY <1>1 DEF Indices
  <2>2. ((b + (2 * T + 1)) - i) % Modulus = T
    <3>1. CASE b <= i
      <4>1. (b + (2 * T + 1)) - i = 0 * Modulus + T
        BY <1>1, <1>3, <1>4, <1>5, <3>1 DEF Behind
      <4> QED BY <2>1, <4>1, RemainderIs
    <3>2. CASE ~(b <= i)
      <4>1. (b + (2 * T + 1)) - i = 1 * Modulus + T
        BY <1>1, <1>3, <1>4, <1>5, <3>2 DEF Behind
      <4> QED BY <2>1, <4>1, RemainderIs
    <3> QED BY <3>1, <3>2
  <2>3. DET!HistIdx(x, c) = T
    BY <1>1, <1>5, <2>2 DEF DET!HistIdx, DET!HistorySize
  <2> QED BY <1>1, <2>3 DEF DET!Place, DET!HistorySize
<1>7. DET!StandsOut(x) <=> Stands(h, T + 1)
  <2>1. x.best = h[T + 1].power
    BY <1>1, <1>2, <1>3, <1>4 DEF SearchAt, BestAt
  <2>2. (T + 1) - T = 1 /\ (T + 1) + T = 2 * T + 1
    BY <1>1
  <2>3. DET!Below(x) = Lower(h, T + 1)
    BY <1>1, <1>2, <2>1, <2>2 DEF DET!Below, Lower, DET!HistorySize
  <2> QED BY <1>1, <2>3, CountIs DEF DET!StandsOut, Stands, DET!HistorySize
<1>8. T + 1 \in 1 .. H
  BY <1>1
<1>9. h[T + 1].detection \in BOOLEAN
  BY <1>1, <1>8, ItemsOf
<1>10. CASE Stands(h, T + 1)
  <2>1. DET!Close(x, c) = [best |-> 0, best_idx |-> c,
                           history |-> [h EXCEPT ![T + 1].detection = TRUE], out |-> x.out]
    BY <1>2, <1>6, <1>7, <1>10 DEF DET!Close
  <2>2. [h EXCEPT ![T + 1].detection = TRUE]
          = Marked(h)
    BY <1>1, <1>10 DEF Marked
  <2> QED BY <1>1, <1>2, <1>3, <1>4, <2>1, <2>2
<1>11. CASE ~Stands(h, T + 1)
  <2>1. DET!Close(x, c) = [best |-> 0, best_idx |-> c, history |-> h, out |-> x.out]
    BY <1>2, <1>6, <1>7, <1>11 DEF DET!Close
  <2>2. h = Marked(h)
    <3>1. h[T + 1] \in DET!Items
      BY <1>1, <1>8 DEF Histories
    <3>2. h[T + 1] = [h[T + 1] EXCEPT !.detection = @ \/ Stands(h, T + 1)]
      BY <1>9, <1>11, <3>1 DEF DET!Items
    <3> QED BY <1>1, <1>8, <3>2 DEF Histories, Marked
  <2> QED BY <1>1, <1>2, <1>3, <1>4, <2>1, <2>2
<1> QED BY <1>10, <1>11

(* Marking the best sample. *)
LEMMA MarkKeeps ==
  ASSUME NEW b, NEW h, BestAt(b, h, TimeThreshold + 1), NEW g, g = Marked(h)
  PROVE  /\ g \in Histories
         /\ \A p \in 1 .. HistoryCapacity : g[p].power = h[p].power
         /\ \A p \in TimeThreshold + 2 .. HistoryCapacity : g[p] = h[p]
         /\ MarksRight(g, TimeThreshold + 1, TimeThreshold + 1)
<1>1. PICK T, H \in Nat : T = TimeThreshold /\ H = HistoryCapacity /\ H > 2 * T + 1
  BY SearchSizes
<1>2. h \in Histories /\ T + 1 \in 1 .. H
  BY <1>1 DEF BestAt
<1>3. h[T + 1] \in DET!Items
  BY <1>1, <1>2 DEF Histories
<1>4. PICK v \in DET!Items : /\ v = [h[T + 1] EXCEPT !.detection = @ \/ Stands(h, T + 1)]
                             /\ v.power = h[T + 1].power
                             /\ v.detection <=> (h[T + 1].detection \/ Stands(h, T + 1))
  <2>1. h[T + 1].detection \in BOOLEAN
    BY <1>1, <1>2, ItemsOf
  <2>2. PICK d \in BOOLEAN : d = (h[T + 1].detection \/ Stands(h, T + 1))
    OBVIOUS
  <2>3. PICK w \in Powers \cup {0}, e \in BOOLEAN : h[T + 1] = [power |-> w, detection |-> e]
    BY <1>3 DEF DET!Items
  <2>4. [h[T + 1] EXCEPT !.detection = d] = [power |-> w, detection |-> d]
    BY <2>3
  <2>5. [power |-> w, detection |-> d] \in DET!Items
    BY DEF DET!Items
  <2>6. [h[T + 1] EXCEPT !.detection = @ \/ Stands(h, T + 1)] = [h[T + 1] EXCEPT !.detection = d]
    BY <2>2
  <2> QED BY <2>2, <2>3, <2>4, <2>5, <2>6
<1>5. g = [h EXCEPT ![T + 1] = v]
  BY <1>1, <1>4 DEF Marked
<1>6. g \in Histories
  BY <1>1, <1>2, <1>5 DEF Histories
<1>7. \A p \in 1 .. H : g[p].power = h[p].power /\ (p # T + 1 => g[p] = h[p])
  BY <1>1, <1>2, <1>4, <1>5 DEF Histories
<1>8. g[T + 1].detection <=> (h[T + 1].detection \/ Stands(h, T + 1))
  BY <1>1, <1>2, <1>4, <1>5 DEF Histories
<1>9. \A p \in T + 1 .. H - T : \A q \in p - T .. p + T : q \in 1 .. H
  BY <1>1
<1>10. \A p \in 1 .. H : g[p].detection => h[p].detection \/ p = T + 1
  BY <1>7
<1>11. \A p \in 1 .. H : h[p].detection => p >= (T + 1) + T + 1
  BY <1>1 DEF BestAt, MarksRight
<1>12. \A p \in 1 .. H : g[p].detection => p >= (T + 1) + T + 1 \/ p = T + 1
  BY <1>10, <1>11
<1>13. \A p \in 1 .. H : g[p].detection => p >= T + 1
  BY <1>1, <1>12
<1>14. ASSUME NEW p \in 1 .. H, NEW q \in 1 .. H, g[p].detection, g[q].detection, p < q
       PROVE  q - p > T
  <2>1. q >= (T + 1) + T + 1
    BY <1>1, <1>12, <1>13, <1>14
  <2>2. CASE p = T + 1
    BY <1>1, <2>1, <2>2
  <2>3. CASE p # T + 1
    <3>1. h[p].detection /\ h[q].detection
      BY <1>1, <1>10, <1>14, <2>1, <2>3
    <3> QED BY <1>1, <1>14, <3>1 DEF BestAt, MarksRight
  <2> QED BY <2>2, <2>3
<1>15. ASSUME NEW p \in T + 1 .. H - T
       PROVE  /\ Stands(g, p) <=> Stands(h, p)
              /\ Tops(g, p, p - T, p + T) => Tops(h, p, p - T, p + T)
              /\ Sound(h, p) => Sound(g, p)
  <2>1. p \in p - T .. p + T /\ p \in 1 .. H /\ p \in Int
    BY <1>1
  <2>2. \A q \in p - T .. p + T : g[q].power = h[q].power
    BY <1>7, <1>9
  <2>3. g[p].power = h[p].power
    BY <2>1, <2>2
  <2>4. Lower(g, p) = Lower(h, p)
    BY <1>1, <2>2, <2>3 DEF Lower
  <2>5. Stands(g, p) <=> Stands(h, p)
    BY <2>4 DEF Stands
  <2>6. Tops(g, p, p - T, p + T) => Tops(h, p, p - T, p + T)
    BY <2>2, <2>3 DEF Tops
  <2>7. \A q \in p - T .. p - 1 : q \in p - T .. p + T
    BY <1>1
  <2>8. Sound(h, p) => Sound(g, p)
    BY <1>1, <2>2, <2>3, <2>5, <2>7 DEF Sound
  <2> QED BY <2>5, <2>6, <2>8
<1>16. T + 1 \in T + 1 .. H - T /\ T + 1 \in 1 .. H - T
  BY <1>1
<1>17. ASSUME NEW p \in 1 .. H - T, g[p].detection
       PROVE  Sound(g, p)
  <2>1. p \in T + 1 .. H - T /\ p \in 1 .. H
    BY <1>1, <1>13, <1>17
  <2>2. CASE h[p].detection
    <3>1. Sound(h, p)
      BY <1>1, <2>2 DEF BestAt, MarksRight
    <3> QED BY <1>15, <2>1, <3>1
  <2>3. CASE ~h[p].detection
    <3>1. p = T + 1 /\ Stands(h, p)
      BY <1>8, <1>10, <1>17, <2>1, <2>3
    <3>2. \A q \in p - T .. p - 1 : q \in 1 .. (T + 1) - 1
      BY <1>1, <3>1
    <3>3. h[p].power = b /\ \A q \in p - T .. p - 1 : h[q].power <= b
      BY <1>1, <3>1, <3>2 DEF BestAt
    <3>4. Sound(h, p)
      BY <1>1, <3>1, <3>3 DEF Sound
    <3> QED BY <1>15, <2>1, <3>4
  <2> QED BY <2>2, <2>3
<1>18. ASSUME NEW p \in T + 1 .. H - T, Stands(g, p), Tops(g, p, p - T, p + T)
       PROVE  g[p].detection
  <2>1. Stands(h, p) /\ Tops(h, p, p - T, p + T)
    BY <1>15, <1>18
  <2>2. CASE p = T + 1
    BY <1>8, <2>1, <2>2
  <2>3. CASE p # T + 1
    <3>1. p \in T + 2 .. H - T /\ p \in 1 .. H
      BY <1>1, <2>3
    <3>2. h[p].detection
      BY <1>1, <2>1, <3>1 DEF BestAt, MarksRight
    <3> QED BY <1>7, <2>3, <3>1, <3>2
  <2> QED BY <2>2, <2>3
<1>19. MarksRight(g, T + 1, T + 1)
  BY <1>1, <1>13, <1>14, <1>17, <1>18 DEF MarksRight
<1>20. \A p \in T + 2 .. H : p \in 1 .. H /\ p # T + 1
  BY <1>1
<1> QED BY <1>1, <1>6, <1>7, <1>19, <1>20

(* The window of the best sample, of age a, is open. *)
OpensAt(b, h, a) ==
  /\ b \in Nat /\ h \in Histories /\ a \in 0 .. TimeThreshold
  /\ IF a = 0 THEN b = 0 ELSE h[a].power = b
  /\ \A u \in 1 .. a - 1 : h[u].power <= b
  /\ \A p \in 1 .. TimeThreshold :
       h[p].power > 0 /\ Tops(h, p, 1, p + TimeThreshold) => a = p
  /\ MarksRight(h, a + TimeThreshold + 1, TimeThreshold + 1)

(* It still is: then no sample that stands out reached the end of it. *)
LEMMA StaysOpen ==
  ASSUME NEW b, NEW h, NEW a, BestAt(b, h, a), a # TimeThreshold + 1
  PROVE  OpensAt(b, h, a)
<1>1. PICK T, H \in Nat : T = TimeThreshold /\ H = HistoryCapacity /\ H > 2 * T + 1
  BY SearchSizes
<1>2. b \in Nat /\ h \in Histories /\ a \in 0 .. T
  BY <1>1 DEF BestAt
<1>3. ASSUME NEW p \in T + 1 .. H - T, Stands(h, p), Tops(h, p, p - T, p + T)
      PROVE  h[p].detection
  <2>1. CASE p = T + 1
    <3>1. \A q \in p - T .. p + T : q \in 1 .. H
      BY <1>1, <2>1
    <3>2. \A q \in p - T .. p + T : h[q].power \in Nat
      BY <1>1, <1>2, <3>1, ItemsOf
    <3>3. h[p].power > 0
      BY <1>1, <1>3, <3>2, StandsPositive
    <3>4. p - T = 1 /\ p \in 1 .. T + 1
      BY <1>1, <2>1
    <3>5. Tops(h, p, 1, p + T)
      BY <1>3, <3>4
    <3>6. a = p
      BY <1>1, <3>3, <3>4, <3>5 DEF BestAt
    <3> QED BY <1>1, <2>1, <3>6
  <2>2. CASE p # T + 1
    <3>1. p \in T + 2 .. H - T
      BY <1>1, <2>2
    <3> QED BY <1>1, <1>3, <3>1 DEF BestAt, MarksRight
  <2> QED BY <2>1, <2>2
<1>4. MarksRight(h, a + T + 1, T + 1)
  BY <1>1, <1>3 DEF BestAt, MarksRight
<1>5. \A p \in 1 .. T : p \in 1 .. T + 1
  BY <1>1
<1>6. \A p \in 1 .. T : h[p].power > 0 /\ Tops(h, p, 1, p + T) => a = p
  BY <1>1, <1>5 DEF BestAt
<1> QED BY <1>1, <1>2, <1>4, <1>6 DEF BestAt, OpensAt

(* It was over and another one begins. *)
LEMMA OpensAnew ==
  ASSUME NEW b, NEW h, BestAt(b, h, TimeThreshold + 1), NEW g, g = Marked(h)
  PROVE  OpensAt(0, g, 0)
<1>1. PICK T, H \in Nat : T = TimeThreshold /\ H = HistoryCapacity /\ H > 2 * T + 1
  BY SearchSizes
<1>2. /\ g \in Histories
      /\ \A p \in 1 .. H : g[p].power = h[p].power
      /\ MarksRight(g, T + 1, T + 1)
  BY <1>1, MarkKeeps
<1>3. ASSUME NEW p \in 1 .. T, g[p].power > 0, Tops(g, p, 1, p + T)
      PROVE  FALSE
  <2>1. \A q \in 1 .. p + T : q \in 1 .. H
    BY <1>1
  <2>2. p \in 1 .. H /\ p \in 1 .. T + 1
    BY <1>1
  <2>3. h[p].power > 0
    BY <1>2, <1>3, <2>2
  <2>4. Tops(h, p, 1, p + T)
    BY <1>2, <1>3, <2>1, <2>2 DEF Tops
  <2>5. T + 1 = p
    BY <1>1, <2>2, <2>3, <2>4 DEF BestAt
  <2> QED BY <1>1, <2>5
<1>4. 0 \in 0 .. T /\ 0 + T + 1 = T + 1 /\ \A u \in 1 .. 0 - 1 : FALSE
  BY <1>1
<1>5. \A p \in 1 .. T : g[p].power > 0 /\ Tops(g, p, 1, p + T) => 0 = p
  BY <1>3
<1>6. \A u \in 1 .. 0 - 1 : g[u].power <= 0
  BY <1>4
<1>7. MarksRight(g, 0 + T + 1, T + 1)
  BY <1>2, <1>4
<1>8. 0 \in Nat /\ g \in Histories /\ 0 \in 0 .. T
  BY <1>2, <1>4
<1> QED BY <1>1, <1>5, <1>6, <1>7, <1>8 DEF OpensAt

(* The sample is compared with the best one. *)
LEMMA Looks ==
  ASSUME NEW b, NEW h, NEW a, OpensAt(b, h, a), NEW power \in Powers
  PROVE  /\ power > b => LookedAt(power, power, h, 0)
         /\ ~(power > b) => LookedAt(power, b, h, a)
<1>1. PICK T, H \in Nat : T = TimeThreshold /\ H = HistoryCapacity /\ H > 2 * T + 1
  BY SearchSizes
<1>2. b \in Nat /\ h \in Histories /\ a \in 0 .. T /\ power \in Nat
  BY <1>1, SearchSizes DEF OpensAt
<1>3. \A p \in 1 .. T : p \in 1 .. H /\ h[p].power \in Nat
  <2>1. \A p \in 1 .. T : p \in 1 .. H
    BY <1>1
  <2> QED BY <1>1, <1>2, <2>1, ItemsOf
<1>4. ASSUME NEW p \in 1 .. T, h[p].power > power, Tops(h, p, 1, p + T)
      PROVE  a = p /\ h[p].power = b
  <2>1. h[p].power > 0
    BY <1>2, <1>3, <1>4
  <2>2. a = p
    BY <1>1, <1>4, <2>1 DEF OpensAt
  <2>3. a # 0
    BY <2>2
  <2> QED BY <2>2, <2>3 DEF OpensAt
<1>5. CASE power > b
  <2>1. \A p \in 1 .. T : h[p].power > power /\ Tops(h, p, 1, p + T) => 0 = p
    BY <1>2, <1>4, <1>5
  <2>2. MarksRight(h, 0 + T + 1, T + 1)
    <3>1. MarksRight(h, a + T + 1, T + 1)
      BY <1>1 DEF OpensAt
    <3>2. \A p \in 1 .. H : h[p].detection => p >= a + T + 1
      BY <1>1, <3>1 DEF MarksRight
    <3>3. \A p \in 1 .. H : h[p].detection => p >= 0 + T + 1
      BY <1>1, <1>2, <3>2
    <3> QED BY <1>1, <3>1, <3>3 DEF MarksRight
  <2>3. 0 \in 0 .. T /\ power <= power /\ \A u \in 1 .. 0 - 1 : FALSE
    BY <1>1, <1>2
  <2>4. LookedAt(power, power, h, 0)
    BY <1>1, <1>2, <2>1, <2>2, <2>3 DEF LookedAt
  <2> QED BY <1>5, <2>4
<1>6. CASE ~(power > b)
  <2>1. power <= b
    BY <1>2, <1>6
  <2>2. IF a = 0 THEN b = power ELSE h[a].power = b
    BY <1>2, <2>1 DEF OpensAt
  <2>3. ASSUME power > 0, \A q \in 1 .. T : h[q].power < power
        PROVE  a = 0
    <3>1. SUFFICES ASSUME a # 0
                   PROVE  FALSE
      OBVIOUS
    <3>2. a \in 1 .. T /\ h[a].power = b
      BY <1>2, <2>2, <3>1
    <3>3. b < power
      BY <2>3, <3>2
    <3> QED BY <1>2, <2>1, <3>3
  <2>4. \A u \in 1 .. a - 1 : h[u].power <= b
    BY DEF OpensAt
  <2>5. MarksRight(h, a + T + 1, T + 1)
    BY <1>1 DEF OpensAt
  <2>6. LookedAt(power, b, h, a)
    BY <1>1, <1>2, <1>4, <2>1, <2>2, <2>3, <2>4, <2>5 DEF LookedAt
  <2> QED BY <1>6, <2>6
<1> QED BY <1>5, <1>6

(* A sample is looked at. *)
LEMMA SearchLooks ==
  ASSUME NEW x, NEW c, NEW k \in Nat, SearchAt(x, c, k), NEW power \in Powers
  PROVE  \E z \in Loops :
           /\ DET!Step(x, power, c) = DET!Push(z, power)
           /\ LookedAt(power, z.best, z.history, Behind(z.best_idx, c))
           /\ z.out = x.out
           /\ \A p \in TimeThreshold + 2 .. HistoryCapacity : z.history[p] = x.history[p]
<1>1. PICK T, H, M \in Nat : /\ T = TimeThreshold /\ H = HistoryCapacity /\ H > 2 * T + 1
                             /\ M = Modulus /\ M > 2 * T + 1
  BY SearchSizes
<1>2. PICK b \in Nat, d \in Indices, h \in Histories, o \in Seq(DET!Items) :
         x = [best |-> b, best_idx |-> d, history |-> h, out |-> o]
  BY DEF SearchAt, Loops
<1>3. BestAt(b, h, Behind(d, c)) /\ c \in Indices
  BY <1>2 DEF SearchAt
<1>4. PICK a \in 0 .. T + 1 : a = Behind(d, c)
  BY <1>1, <1>3 DEF BestAt
<1>5. DET!Closes(x, c) <=> a = T + 1
  <2>1. (c - x.best_idx) % Modulus = a
    BY <1>2, <1>3, <1>4, IndexArithmetic
  <2> QED BY <1>1, <1>4, <2>1 DEF DET!Closes
<1>6. Behind(c, c) = 0
  BY <1>1, <1>3 DEF Behind, Indices
<1>7. PICK y \in Loops : /\ y = IF DET!Closes(x, c) THEN DET!Close(x, c) ELSE x
                         /\ OpensAt(y.best, y.history, Behind(y.best_idx, c))
                         /\ y.out = o
                         /\ \A p \in T + 2 .. H : y.history[p] = h[p]
  <2>1. CASE DET!Closes(x, c)
    <3>1. PICK g : g = Marked(h)
      OBVIOUS
    <3>2. DET!Close(x, c) = [best |-> 0, best_idx |-> c, history |-> g, out |-> o]
      <4>1. x.history = h /\ x.out = o
        BY <1>2
      <4> QED BY <2>1, <3>1, <4>1, CloseIs
    <3>3. BestAt(b, h, T + 1)
      BY <1>3, <1>4, <1>5, <2>1
    <3>4. g \in Histories /\ \A p \in T + 2 .. H : g[p] = h[p]
      BY <1>1, <3>1, <3>3, MarkKeeps
    <3>5. OpensAt(0, g, 0)
      BY <1>1, <3>1, <3>3, OpensAnew
    <3>6. DET!Close(x, c) \in Loops
      BY <1>3, <3>2, <3>4 DEF Loops
    <3> QED BY <1>6, <2>1, <3>2, <3>4, <3>5, <3>6
  <2>2. CASE ~DET!Closes(x, c)
    <3>1. OpensAt(b, h, a)
      BY <1>1, <1>3, <1>4, <1>5, <2>2, StaysOpen
    <3>2. x \in Loops
      BY DEF SearchAt
    <3> QED BY <1>2, <1>4, <2>2, <3>1, <3>2
  <2> QED BY <2>1, <2>2
<1>8. PICK z : z = DET!Improve(y, power, c)
  OBVIOUS
<1>9. DET!Step(x, power, c) = DET!Push(z, power)
  BY <1>7, <1>8 DEF DET!Step
<1>10. power \in Nat
  BY SearchSizes
<1>11. /\ power > y.best => LookedAt(power, power, y.history, 0)
       /\ ~(power > y.best) => LookedAt(power, y.best, y.history, Behind(y.best_idx, c))
  BY <1>7, Looks
<1>12. CASE power > y.best
  <2>1. z = [y EXCEPT !.best = power, !.best_idx = c]
    BY <1>8, <1>12 DEF DET!Improve
  <2>2. /\ z \in Loops /\ z.best = power /\ z.best_idx = c /\ z.history = y.history
        /\ z.out = y.out
    BY <1>3, <1>7, <1>10, <2>1 DEF Loops
  <2>3. LookedAt(power, z.best, z.history, Behind(z.best_idx, c))
    BY <1>6, <1>11, <1>12, <2>2
  <2> QED BY <1>1, <1>2, <1>7, <1>9, <2>2, <2>3
<1>13. CASE ~(power > y.best)
  <2>1. z = y
    BY <1>8, <1>13 DEF DET!Improve
  <2> QED BY <1>1, <1>2, <1>7, <1>9, <1>11, <1>13, <2>1
<1> QED BY <1>12, <1>13

(* A sample is searched. *)
LEMMA SearchGoesOn ==
  ASSUME NEW x, NEW c, NEW k \in Nat, SearchAt(x, c, k), NEW power \in Powers
  PROVE  SearchAt(DET!Step(x, power, c), Follows(c), k + 1)
<1>1. PICK T, H, M \in Nat : /\ T = TimeThreshold /\ H = HistoryCapacity /\ H > 2 * T + 1
                             /\ M = Modulus /\ M > 2 * T + 1
  BY SearchSizes
<1>2. PICK z \in Loops :
         /\ DET!Step(x, power, c) = DET!Push(z, power)
         /\ LookedAt(power, z.best, z.history, Behind(z.best_idx, c))
         /\ z.out = x.out
         /\ \A p \in T + 2 .. H : z.history[p] = x.history[p]
  BY <1>1, SearchLooks
<1>3. PICK b \in Nat, d \in Indices, h \in Histories, o \in Seq(DET!Items) :
         z = [best |-> b, best_idx |-> d, history |-> h, out |-> o]
  BY <1>2 DEF Loops
<1>4. PICK rec \in DET!Items : rec = [power |-> power, detection |-> FALSE]
  BY DEF DET!Items
<1>5. PICK g : g = <<rec>> \o SubSeq(h, 1, H - 1)
  OBVIOUS
<1>6. /\ g \in Histories /\ g[1] = rec
      /\ \A q \in 1 .. H - 1 : g[q + 1] = h[q]
  <2>1. h \in Seq(DET!Items) /\ Len(h) = H
    BY <1>1 DEF Histories
  <2>2. PICK s \in Seq(DET!Items) : /\ s = SubSeq(h, 1, H - 1) /\ Len(s) = H - 1
                                    /\ \A q \in 1 .. H - 1 : s[q] = h[q]
    <3>1. H - 1 \in Nat /\ H - 1 <= H
      BY <1>1
    <3>2. /\ SubSeq(h, 1, H - 1) \in Seq(DET!Items) /\ Len(SubSeq(h, 1, H - 1)) = H - 1
          /\ \A q \in 1 .. H - 1 : SubSeq(h, 1, H - 1)[q] = h[q]
      BY <2>1, <3>1
    <3> QED BY <3>2
  <2>3. <<rec>> \in Seq(DET!Items) /\ Len(<<rec>>) = 1 /\ <<rec>>[1] = rec
    OBVIOUS
  <2>4. g \in Seq(DET!Items) /\ Len(g) = H /\ g[1] = rec
    BY <1>1, <1>5, <2>2, <2>3
  <2>5. \A q \in 1 .. H - 1 : g[q + 1] = s[q]
    BY <1>1, <1>5, <2>2, <2>3
  <2>6. g \in Histories
    BY <1>1, <2>4 DEF Histories
  <2> QED BY <2>2, <2>4, <2>5, <2>6
<1>7. Moves(g, power, h)
  BY <1>1, <1>4, <1>6 DEF Moves
<1>8. LookedAt(power, b, h, Behind(d, c))
  BY <1>2, <1>3
<1>9. BestAt(b, g, Behind(d, c) + 1)
  BY <1>7, <1>8, BestMoves
<1>10. PICK y : y = DET!Push(z, power)
  OBVIOUS
<1>11. PICK o2 : o2 = Append(o, h[2 * T + 1])
  OBVIOUS
<1>12. y = [best |-> b, best_idx |-> d, history |-> g, out |-> o2]
  BY <1>1, <1>3, <1>4, <1>5, <1>10, <1>11 DEF DET!Push, DET!HistorySize
<1>13. 2 * T + 1 \in 1 .. H /\ h[2 * T + 1] \in DET!Items
  BY <1>1 DEF Histories
<1>14. o2 \in Seq(DET!Items)
  BY <1>11, <1>13
<1>15. c \in Indices /\ Follows(c) \in Indices
  BY IndexArithmetic DEF SearchAt
<1>16. Behind(d, Follows(c)) = Behind(d, c) + 1
  <2>1. Behind(d, c) \in 0 .. T
    BY <1>1, <1>8 DEF LookedAt
  <2>2. c \in 0 .. M - 1 /\ d \in 0 .. M - 1
    BY <1>1, <1>15 DEF Indices
  <2> QED BY <1>1, <2>1, <2>2 DEF Behind, Follows
<1>17. y \in Loops
  BY <1>6, <1>12, <1>14 DEF Loops
<1>18. Leaves(o2, k + 1, g)
  <2>1. Leaves(o, k, x.history)
    BY <1>2, <1>3 DEF SearchAt
  <2>2. Len(o) = k /\ Len(o2) = k + 1 /\ o2[k + 1] = h[2 * T + 1] /\ \A i \in 1 .. k : o2[i] = o[i]
    BY <1>11, <1>13, <2>1 DEF Leaves
  <2>3. ASSUME NEW i \in 1 .. k + 1, 2 * T + 2 + (k + 1) - i <= H
        PROVE  o2[i] = g[2 * T + 2 + (k + 1) - i]
    <3>1. CASE i = k + 1
      <4>1. 2 * T + 1 \in 1 .. H - 1 /\ (2 * T + 1) + 1 = 2 * T + 2 + (k + 1) - i
        BY <1>1, <3>1
      <4> QED BY <1>6, <2>2, <3>1, <4>1
    <3>2. CASE i # k + 1
      <4>1. PICK p \in T + 2 .. H - 1 : p = 2 * T + 2 + k - i
        <5>1. 2 * T + 2 + k - i \in T + 2 .. H - 1
          BY <1>1, <2>3, <3>2
        <5> QED BY <5>1
      <4>2. i \in 1 .. k /\ p <= H /\ p \in T + 2 .. H /\ p \in 1 .. H - 1
        BY <1>1, <3>2
      <4>3. p + 1 = 2 * T + 2 + (k + 1) - i
        BY <1>1, <4>1
      <4>4. o[i] = x.history[p]
        BY <1>1, <2>1, <4>1, <4>2 DEF Leaves
      <4>5. x.history[p] = h[p]
        BY <1>2, <1>3, <4>2
      <4> QED BY <1>6, <2>2, <4>2, <4>3, <4>4, <4>5
    <3> QED BY <3>1, <3>2
  <2> QED BY <1>1, <1>14, <2>2, <2>3 DEF Leaves
<1>19. SearchAt(y, Follows(c), k + 1)
  BY <1>9, <1>12, <1>15, <1>16, <1>17, <1>18 DEF SearchAt
<1> QED BY <1>2, <1>10, <1>19

-----------------------------------------------------------------------------
(* The invariant of the search for syncwords. *)
SearchInv ==
  /\ best \in Nat /\ best_idx \in Indices /\ items_consumed \in Indices
  /\ BestAt(best, history, Behind(best_idx, items_consumed))
  /\ Leaves(det_out, Len(det_out), history)

(* Before the first sample of a call. *)
LEMMA SearchBegins ==
  ASSUME SearchInv
  PROVE  SearchAt(SearchStart, items_consumed, 0)
<1>1. history \in Histories
  BY DEF SearchInv, BestAt
<1>2. <<>> \in Seq(DET!Items) /\ Len(<<>>) = 0
  OBVIOUS
<1>3. Leaves(<<>>, 0, history)
  BY <1>2 DEF Leaves
<1>4. SearchStart \in Loops
  BY <1>1, <1>2 DEF SearchInv, SearchStart, Loops
<1> QED BY <1>3, <1>4 DEF SearchInv, SearchAt, SearchStart

(* A call searches all its samples. *)
LEMMA CallSearches ==
  ASSUME SearchInv, NEW n \in Nat, NEW powers \in [1 .. n -> Powers]
  PROVE  SearchAt(DET!Search(powers), DET!Index(n + 1), n)
<1>1. PICK w : /\ w[0] = SearchStart
               /\ \A k \in 1 .. n : w[k] = SearchStep(w[k - 1], k, powers)
               /\ DET!Search(powers) = w[n]
  BY SearchIs
<1>2. items_consumed \in Indices
  BY DEF SearchInv
<1> DEFINE Wrong == {k \in 0 .. n : ~SearchAt(w[k], DET!Index(k + 1), k)}
<1>3. SUFFICES ASSUME Wrong # {}
               PROVE  FALSE
  <2>1. n \in 0 .. n
    OBVIOUS
  <2>2. n \notin Wrong => SearchAt(w[n], DET!Index(n + 1), n)
    BY <2>1
  <2> QED BY <1>1, <2>2
<1>4. Wrong \subseteq Nat
  OBVIOUS
<1>5. PICK k \in Wrong : \A j \in Wrong : k <= j
  BY <1>3, <1>4, Least
<1>6. k \in 0 .. n /\ ~SearchAt(w[k], DET!Index(k + 1), k)
  OBVIOUS
<1>7. CASE k = 0
  <2>1. DET!Index(0 + 1) = items_consumed
    BY <1>2, IndexGoesOn
  <2> QED BY <1>1, <1>6, <1>7, <2>1, SearchBegins
<1>8. CASE k # 0
  <2>1. k \in 1 .. n /\ k - 1 \in 0 .. n /\ k - 1 \in Nat /\ k \in Nat /\ k > 0 /\ ~(k <= k - 1)
    BY <1>6, <1>8
  <2>2. k - 1 \notin Wrong
    BY <1>5, <2>1
  <2>3. (k - 1) + 1 = k
    BY <2>1
  <2>4. SearchAt(w[k - 1], DET!Index(k), k - 1)
    BY <2>1, <2>2, <2>3
  <2>5. powers[k] \in Powers
    BY <2>1
  <2>6. SearchAt(DET!Step(w[k - 1], powers[k], DET!Index(k)), Follows(DET!Index(k)), (k - 1) + 1)
    BY <2>1, <2>4, <2>5, SearchGoesOn
  <2>7. DET!Index(k + 1) = Follows(DET!Index(k))
    BY <1>2, <2>1, IndexGoesOn
  <2>8. w[k] = DET!Step(w[k - 1], powers[k], DET!Index(k))
    BY <1>1, <2>1 DEF SearchStep
  <2> QED BY <1>6, <2>3, <2>6, <2>7, <2>8
<1> QED BY <1>7, <1>8

(* A call of the block keeps the invariant. *)
LEMMA CallKeeps ==
  ASSUME SearchInv, NEW n \in Nat, NEW powers \in [1 .. n -> Powers], DET!ProcessBulk(powers)
  PROVE  SearchInv'
<1>1. PICK y : y = DET!Search(powers)
  OBVIOUS
<1>2. PICK i : i = DET!Index(n + 1)
  OBVIOUS
<1>3. SearchAt(y, i, n)
  BY <1>1, <1>2, CallSearches
<1>4. /\ best' = y.best /\ best_idx' = y.best_idx /\ history' = y.history /\ det_out' = y.out
      /\ items_consumed' = (items_consumed + Len(powers)) % Modulus
  BY <1>1 DEF DET!ProcessBulk
<1>5. Len(powers) = n
  OBVIOUS
<1>6. items_consumed' = i
  <2>1. items_consumed \in Indices
    BY DEF SearchInv
  <2>2. CASE n = 0
    <3>1. items_consumed \in Int /\ Modulus \in Int
      BY <2>1, SearchSizes DEF Indices
    <3>2. items_consumed + 0 = 0 * Modulus + items_consumed
      BY <3>1
    <3>3. (items_consumed + 0) % Modulus = items_consumed
      BY <2>1, <3>2, RemainderIs
    <3>4. DET!Index(0 + 1) = items_consumed
      BY <2>1, IndexGoesOn
    <3> QED BY <1>2, <1>4, <1>5, <2>2, <3>3, <3>4
  <2>3. CASE n # 0
    <3>1. n > 0
      BY <2>3
    <3>2. DET!Index(n + 1) = (items_consumed + n) % Modulus
      BY <2>1, <3>1, IndexGoesOn
    <3> QED BY <1>2, <1>4, <1>5, <3>2
  <2> QED BY <2>2, <2>3
<1>7. y \in Loops /\ i \in Indices /\ BestAt(y.best, y.history, Behind(y.best_idx, i))
        /\ Leaves(y.out, n, y.history)
  BY <1>3 DEF SearchAt
<1>8. y.best \in Nat /\ y.best_idx \in Indices /\ Len(y.out) = n
  BY <1>7 DEF Loops, Leaves
<1>9. PICK b, d, h, o : b = y.best /\ d = y.best_idx /\ h = y.history /\ o = y.out
  OBVIOUS
<1>10. b \in Nat /\ d \in Indices /\ i \in Indices /\ BestAt(b, h, Behind(d, i)) /\ Leaves(o, Len(o), h)
  BY <1>7, <1>8, <1>9
<1>11. best' = b /\ best_idx' = d /\ history' = h /\ det_out' = o /\ items_consumed' = i
  BY <1>4, <1>6, <1>9
<1>12. Indices' = Indices
  BY DEF Indices
<1> QED BY <1>10, <1>11, <1>12 DEF SearchInv

(* The samples that a call consumes. *)
LEMMA CallSize ==
  ASSUME NEW avail \in Nat
  PROVE  DET!Consumed(avail) \in Nat
<1>1. PICK S \in Nat \ {0} : S = DET!Stride
  BY BlocksAssumption DEF DET!DetectionAssumption, DET!Stride
<1>2. FftSize \in Nat
  BY BlocksAssumption DEF DET!DetectionAssumption
<1>3. CASE avail < FftSize
  BY <1>3 DEF DET!Consumed
<1>4. CASE ~(avail < FftSize)
  <2>1. PICK d \in Nat : d = avail - FftSize
    BY <1>2, <1>4
  <2>2. PICK e \in Nat : e = d \div S
    <3>1. PICK e, r : e = d \div S /\ r = d % S
      OBVIOUS
    <3>2. S > 0
      BY <1>1
    <3>3. e \in Int /\ r \in Int /\ d = e * S + r /\ 0 <= r /\ r < S
      BY <1>1, <3>1, <3>2, SMTT(20)
    <3>6. d < (e + 1) * S
      BY <1>1, <3>3
    <3>4. ~(e + 1 <= 0)
      <4>1. SUFFICES ASSUME e + 1 <= 0
                     PROVE  FALSE
        OBVIOUS
      <4>2. PICK f \in Nat : f = 0 - (e + 1)
        BY <3>3, <4>1
      <4>3. f * S >= 0
        BY <1>1
      <4>4. (e + 1) * S = 0 - f * S
        BY <1>1, <3>3, <4>2
      <4> QED BY <1>1, <2>1, <3>6, <4>3, <4>4
    <3>5. e \in Nat
      BY <3>3, <3>4
    <3> QED BY <3>1, <3>5
  <2>3. DET!Consumed(avail) = S * (e + 1)
    BY <1>1, <1>4, <2>1, <2>2 DEF DET!Consumed
  <2>4. S * (e + 1) \in Nat
    BY <1>1
  <2> QED BY <2>3, <2>4
<1> QED BY <1>3, <1>4

(* What the invariant says of the samples that left. *)
LEMMA SearchIsRight ==
  ASSUME SearchInv
  PROVE  DetectionsRight
<1>1. PICK T, H, M \in Nat : /\ T = TimeThreshold /\ H = HistoryCapacity /\ H > 2 * T + 1
                             /\ M = Modulus /\ M > 2 * T + 1
  BY SearchSizes
<1>2. PICK a \in 0 .. T + 1 : /\ a = Behind(best_idx, items_consumed)
                              /\ (items_consumed - best_idx) % Modulus = a
  <2>1. (items_consumed - best_idx) % Modulus = Behind(best_idx, items_consumed)
    BY IndexArithmetic DEF SearchInv
  <2> QED BY <1>1, <2>1 DEF SearchInv, BestAt
<1>3. history \in Histories /\ MarksRight(history, a + T + 1, T + 2)
  BY <1>1, <1>2 DEF SearchInv, BestAt
<1>4. DET!TypeOK
  <2>1. DET!Range(history) \subseteq DET!Items /\ DOMAIN history = 1 .. H
    BY <1>1, <1>3 DEF DET!Range, Histories
  <2>2. IF a = 0 THEN best = 0 ELSE history[a].power = best
    BY <1>2 DEF SearchInv, BestAt
  <2> QED BY <1>1, <1>2, <2>1, <2>2 DEF SearchInv, Indices, DET!TypeOK
<1>5. DET!DetectionsApart
  BY <1>1, <1>3 DEF MarksRight, DET!DetectionsApart
<1>6. PICK n \in Nat : n = Len(det_out) /\ Leaves(det_out, n, history)
  <2>1. Leaves(det_out, Len(det_out), history) /\ Len(det_out) \in Nat
    BY DEF SearchInv, Leaves
  <2> QED BY <2>1
<1>7. ASSUME NEW i \in DET!InHistory
      PROVE  LET p == DET!PlaceOut(i)
             IN /\ (DET!Prominent(p) /\ \A q \in DET!Window(p) \ {p} : DET!Exceeds(p, q))
                     => det_out[i].detection
                /\ det_out[i].detection
                     => DET!Prominent(p) /\ \A q \in DET!Later(p) : ~DET!Exceeds(q, p)
  <2>1. i \in 1 .. n
    BY <1>6 DEF DET!InHistory
  <2>2. PICK p \in T + 2 .. H - T : p = DET!PlaceOut(i) /\ p = 2 * T + 2 + n - i
    <3>1. DET!PlaceOut(i) = 2 * T + 2 + n - i
      BY <1>1, <1>6, <2>1 DEF DET!PlaceOut, DET!HistorySize
    <3>2. DET!PlaceOut(i) + T <= H
      BY <1>1 DEF DET!InHistory
    <3>3. 2 * T + 2 + n - i \in T + 2 .. H - T
      BY <1>1, <2>1, <3>1, <3>2
    <3> QED BY <3>1, <3>3
  <2>3. p \in 1 .. H - T /\ p \in 1 .. H /\ p <= H
    BY <1>1
  <2>4. det_out[i] = history[p]
    BY <1>1, <1>6, <2>1, <2>2, <2>3 DEF Leaves
  <2>5. DET!Prominent(p) <=> Stands(history, p)
    <3>1. {q \in DET!Window(p) : history[q].power * PowerThreshold < history[p].power}
            = Lower(history, p)
      BY DEF DET!Window, Lower
    <3> QED BY <3>1, CountIs DEF DET!Prominent, Stands, DET!HistorySize
  <2>6. \A q \in p - T .. p + T : q \in 1 .. H /\ history[q].power \in Nat
    <3>1. \A q \in p - T .. p + T : q \in 1 .. H
      BY <1>1
    <3> QED BY <1>1, <1>3, <3>1, ItemsOf
  <2>7. p \in p - T .. p + T /\ history[p].power \in Nat
    BY <1>1, <2>6
  <2>8. ASSUME DET!Prominent(p), \A q \in DET!Window(p) \ {p} : DET!Exceeds(p, q)
        PROVE  history[p].detection
    <3>1. ASSUME NEW q \in p - T .. p + T, q # p
          PROVE  history[q].power < history[p].power
      <4>1. DET!Exceeds(p, q)
        BY <1>1, <2>8, <3>1 DEF DET!Window
      <4> QED BY <2>6, <2>7, <4>1 DEF DET!Exceeds
    <3>2. Tops(history, p, p - T, p + T)
      BY <3>1 DEF Tops
    <3> QED BY <1>1, <1>3, <2>5, <2>8, <3>2 DEF MarksRight
  <2>9. ASSUME history[p].detection
        PROVE  DET!Prominent(p) /\ \A q \in DET!Later(p) : ~DET!Exceeds(q, p)
    <3>1. Sound(history, p)
      BY <1>1, <1>3, <2>3, <2>9 DEF MarksRight
    <3>2. ASSUME NEW q \in DET!Later(p)
          PROVE  ~DET!Exceeds(q, p)
      <4>1. q \in p - T .. p - 1 /\ q \in p - T .. p + T
        BY <1>1 DEF DET!Later
      <4>2. history[q].power <= history[p].power
        BY <1>1, <3>1, <4>1 DEF Sound
      <4> QED BY <2>6, <2>7, <4>1, <4>2 DEF DET!Exceeds
    <3> QED BY <2>5, <3>1, <3>2 DEF Sound
  <2> QED BY <2>2, <2>4, <2>8, <2>9
<1>8. DET!DetectsMaxima
  BY <1>7 DEF DET!DetectsMaxima
<1> QED BY <1>4, <1>5, <1>8 DEF DetectionsRight

(* The block begins in the invariant. *)
LEMMA SearchInitially ==
  ASSUME DET!Init
  PROVE  SearchInv
<1>1. PICK T, H, M \in Nat : /\ T = TimeThreshold /\ H = HistoryCapacity /\ H > 2 * T + 1
                             /\ M = Modulus /\ M > 2 * T + 1
  BY SearchSizes
<1>2. PICK zero \in DET!Items : zero = [power |-> 0, detection |-> FALSE]
  BY DEF DET!Items
<1>3. best = 0 /\ best_idx = 0 /\ items_consumed = 0 /\ det_out = <<>>
        /\ history = [u \in 1 .. H |-> zero]
  BY <1>1, <1>2 DEF DET!Init
<1>4. history \in Histories /\ \A p \in 1 .. H : history[p].power = 0 /\ ~history[p].detection
  BY <1>1, <1>2, <1>3 DEF Histories
<1>5. 0 \in Indices /\ Behind(0, 0) = 0
  BY <1>1 DEF Indices, Behind
<1>6. Leaves(<<>>, 0, history) /\ Len(<<>>) = 0
  BY DEF Leaves
<1>7. ASSUME NEW p \in T + 1 .. H - T
      PROVE  ~Stands(history, p)
  <2>1. \A q \in p - T .. p + T : q \in 1 .. H
    BY <1>1
  <2>2. \A q \in p - T .. p + T : history[q].power \in Nat
    BY <1>4, <2>1
  <2>3. p \in p - T .. p + T
    BY <1>1
  <2>4. ~(history[p].power > 0)
    BY <1>4, <2>1, <2>3
  <2> QED BY <1>1, <2>2, <2>4, StandsPositive
<1>8. \A p \in T + 2 .. H - T : p \in T + 1 .. H - T
  BY <1>1
<1>9. \A p \in 1 .. H - T : p \in 1 .. H
  BY <1>1
<1>10. MarksRight(history, 0 + T + 1, T + 2)
  BY <1>1, <1>4, <1>7, <1>8, <1>9 DEF MarksRight
<1>11. \A p \in 1 .. T + 1 : ~(history[p].power > 0)
  <2>1. \A p \in 1 .. T + 1 : p \in 1 .. H
    BY <1>1
  <2> QED BY <1>4, <2>1
<1>12. BestAt(0, history, 0)
  <2>1. 0 \in 0 .. T + 1 /\ 0 \in Nat
    BY <1>1
  <2>2. \A u \in 1 .. 0 - 1 : FALSE
    OBVIOUS
  <2> QED BY <1>1, <1>4, <1>10, <1>11, <2>1, <2>2 DEF BestAt
<1> QED BY <1>3, <1>5, <1>6, <1>12 DEF SearchInv

(* No syncword is missed, a detection is a mark on its own sample, and     *)
(* detections are more than time_threshold apart, for every threshold,     *)
(* size of the history and width of the indices, and however the samples   *)
(* are cut into calls.                                                     *)
THEOREM DetectionsRightHolds == BenchSpec => []DetectionsRight
<1>1. BenchInit => SearchInv
  BY SearchInitially DEF BenchInit
<1>2. ASSUME SearchInv, [BenchNext]_bench_vars
      PROVE  SearchInv'
  <2>1. CASE UNCHANGED detection_vars
    <3>1. /\ best' = best /\ best_idx' = best_idx /\ items_consumed' = items_consumed
          /\ history' = history /\ det_out' = det_out
      BY <2>1 DEF detection_vars
    <3>2. Indices' = Indices
      BY DEF Indices
    <3> QED BY <1>2, <3>1, <3>2 DEF SearchInv
  <2>2. CASE DetectionStep
    <3>1. PICK avail \in 0 .. MaxAvail :
            \E powers \in [1 .. DET!Consumed(avail) -> Powers] : DET!ProcessBulk(powers)
      BY <2>2 DEF DetectionStep, DET!Next
    <3>2. avail \in Nat
      OBVIOUS
    <3>3. PICK n \in Nat : n = DET!Consumed(avail)
      BY <3>2, CallSize
    <3>4. PICK powers \in [1 .. n -> Powers] : DET!ProcessBulk(powers)
      BY <3>1, <3>3
    <3> QED BY <1>2, <3>4, CallKeeps
  <2>3. CASE FilterStep \/ SyncStep \/ DecodingStep \/ UNCHANGED bench_vars
    BY <2>1, <2>3 DEF FilterStep, SyncStep, DecodingStep, bench_vars
  <2> QED BY <1>2, <2>2, <2>3 DEF BenchNext
<1>3. SearchInv => DetectionsRight
  BY SearchIsRight
<1> QED BY <1>1, <1>2, <1>3, PTL DEF BenchSpec

-----------------------------------------------------------------------------
(* Folds whose states are in a set.                                        *)

(* The states of a fold: after the elements of each set, of which the      *)
(* greatest is the last.                                                   *)
FoldOver(it, s, base, step) ==
  IF s = {} THEN base ELSE step[it[s \ {Greatest(s)}], Greatest(s)]

(* A function that has them. *)
Folds(it, n, X, base, step) ==
  /\ it \in [SUBSET (1 .. n) -> X]
  /\ \A s \in SUBSET (1 .. n) : it[s] = FoldOver(it, s, base, step)

(* There is one. *)
LEMMA FoldsExist ==
  ASSUME NEW X, NEW base \in X, NEW n \in Nat, NEW step \in [X \X (1 .. n) -> X]
  PROVE  \E it : Folds(it, n, X, base, step)
<1> DEFINE T == {m \in 0 .. n : ~\E it : Folds(it, m, X, base, step)}
<1>1. SUFFICES ASSUME T # {}
               PROVE  FALSE
  <2>1. n \in 0 .. n
    OBVIOUS
  <2>2. \E it : Folds(it, n, X, base, step)
    BY <2>1
  <2> QED BY <2>2
<1>2. T \subseteq Nat
  OBVIOUS
<1>3. PICK m \in T : \A y \in T : m <= y
  BY <1>1, <1>2, Least
<1>4. m \in Nat /\ m <= n /\ ~\E it : Folds(it, m, X, base, step)
  OBVIOUS
<1>5. CASE m = 0
  <2>1. PICK it : it = [s \in SUBSET (1 .. m) |-> base]
    OBVIOUS
  <2>2. \A s \in SUBSET (1 .. m) : s = {}
    BY <1>5
  <2>3. \A s \in SUBSET (1 .. m) : it[s] = FoldOver(it, s, base, step)
    BY <2>1, <2>2 DEF FoldOver
  <2>4. it \in [SUBSET (1 .. m) -> X]
    BY <2>1
  <2>5. Folds(it, m, X, base, step)
    BY <2>3, <2>4 DEF Folds
  <2> QED BY <1>4, <2>5
<1>6. CASE m > 0
  <2>1. m - 1 \in Nat /\ m - 1 \in 0 .. n /\ m - 1 \notin T
    BY <1>3, <1>4, <1>6
  <2>2. PICK old : Folds(old, m - 1, X, base, step)
    BY <2>1
  <2>3. PICK it : it = [s \in SUBSET (1 .. m) |->
                          IF m \in s THEN step[old[s \ {m}], m] ELSE old[s]]
    OBVIOUS
  <2>4. ASSUME NEW s \in SUBSET (1 .. m)
        PROVE  it[s] \in X /\ it[s] = FoldOver(it, s, base, step)
    <3>1. CASE m \in s
      <4>1. s \ {m} \in SUBSET (1 .. m) /\ m \notin s \ {m} /\ s \ {m} \in SUBSET (1 .. m - 1)
        BY <1>4
      <4>2. it[s \ {m}] = old[s \ {m}] /\ it[s] = step[old[s \ {m}], m]
        BY <2>3, <3>1, <4>1
      <4>3. Greatest(s) = m /\ s # {}
        BY <1>4, <3>1, GreatestIs
      <4>4. old[s \ {m}] \in X /\ m \in 1 .. n
        BY <1>4, <1>6, <2>2, <4>1 DEF Folds
      <4> QED BY <4>2, <4>3, <4>4 DEF FoldOver
    <3>2. CASE m \notin s
      <4>1. s \in SUBSET (1 .. m - 1)
        BY <1>4, <3>2
      <4>2. it[s] = old[s] /\ old[s] = FoldOver(old, s, base, step) /\ old[s] \in X
        BY <2>2, <2>3, <3>2, <4>1 DEF Folds
      <4>3. CASE s = {}
        BY <4>2, <4>3 DEF FoldOver
      <4>4. CASE s # {}
        <5>1. Greatest(s) \in s
          BY <2>1, <4>1, <4>4, GreatestIs
        <5>2. s \ {Greatest(s)} \in SUBSET (1 .. m) /\ m \notin s \ {Greatest(s)}
          BY <3>2
        <5>3. it[s \ {Greatest(s)}] = old[s \ {Greatest(s)}]
          BY <2>3, <5>2
        <5> QED BY <4>2, <4>4, <5>3 DEF FoldOver
      <4> QED BY <4>3, <4>4
    <3> QED BY <3>1, <3>2
  <2>5. it \in [SUBSET (1 .. m) -> X]
    BY <2>3, <2>4
  <2>6. Folds(it, m, X, base, step)
    BY <2>4, <2>5 DEF Folds
  <2> QED BY <1>4, <2>6
<1> QED BY <1>4, <1>5, <1>6

(* A function that has the states of a fold from a on. *)
FoldedFrom(it, a, n, X, base, step) ==
  /\ it = [s \in SUBSET (a .. n) |-> FoldOver(it, s, base, step)]
  /\ \A s \in SUBSET (a .. n) : it[s] \in X

(* For a fold that does not begin at 1 there is one, too. *)
LEMMA FoldsFrom ==
  ASSUME NEW X, NEW base \in X, NEW n \in Nat, NEW step \in [X \X (1 .. n) -> X],
         NEW a \in Nat \ {0}
  PROVE  \E it : FoldedFrom(it, a, n, X, base, step)
<1>1. PICK f : Folds(f, n, X, base, step)
  BY FoldsExist
<1>2. SUBSET (a .. n) \subseteq SUBSET (1 .. n)
  OBVIOUS
<1>3. PICK it : it = [s \in SUBSET (a .. n) |-> f[s]]
  OBVIOUS
<1>4. ASSUME NEW s \in SUBSET (a .. n)
      PROVE  it[s] \in X /\ it[s] = FoldOver(it, s, base, step)
  <2>1. s \in SUBSET (1 .. n)
    BY <1>2
  <2>2. it[s] = f[s] /\ f[s] \in X /\ f[s] = FoldOver(f, s, base, step)
    BY <1>1, <1>3, <2>1 DEF Folds
  <2>3. s \ {Greatest(s)} \in SUBSET (a .. n)
    OBVIOUS
  <2>4. it[s \ {Greatest(s)}] = f[s \ {Greatest(s)}]
    BY <1>3, <2>3
  <2> QED BY <2>2, <2>4 DEF FoldOver
<1>5. it = [s \in SUBSET (a .. n) |-> FoldOver(it, s, base, step)]
  <2>1. it = [s \in SUBSET (a .. n) |-> it[s]]
    BY <1>3
  <2>2. [s \in SUBSET (a .. n) |-> it[s]]
          = [s \in SUBSET (a .. n) |-> FoldOver(it, s, base, step)]
    BY <1>4
  <2> QED BY <2>1, <2>2
<1> QED BY <1>4, <1>5 DEF FoldedFrom

-----------------------------------------------------------------------------
(* The symbol clock: the frequency of a sample.                            *)

(* The constants. *)
LEMMA ClockSizes ==
  /\ FreqDelay \in Nat /\ MinGap \in Nat /\ MinGap > FreqDelay
  /\ ClockIds \in Nat /\ ClockIds > 1
  /\ ClockSamples \in Nat /\ ClockSamples > 0
  /\ Delays \subseteq Nat
BY BlocksAssumption DEF SYNC!GapAssumption, SYNC!F!SymbolAssumption

(* The samples. *)
Samples ==
  [id : 0 .. ClockIds, early : BOOLEAN, age : 0 .. MinGap + ClockSamples - 1]

(* The sample after another is older, but none is a detection. *)
LEMMA AfterIs ==
  ASSUME NEW s \in Samples
  PROVE  /\ SYNC!After(s) \in Samples /\ SYNC!After(s).id = s.id /\ SYNC!After(s).early = s.early
         /\ SYNC!After(s).age = IF s.age = MinGap + ClockSamples - 1 THEN MinGap ELSE s.age + 1
         /\ SYNC!After(s).age > 0
<1>1. PICK i \in 0 .. ClockIds, e \in BOOLEAN, a \in 0 .. MinGap + ClockSamples - 1 :
         s = [id |-> i, early |-> e, age |-> a]
  BY DEF Samples
<1>2. PICK b : b = IF a = MinGap + ClockSamples - 1 THEN MinGap ELSE a + 1
  OBVIOUS
<1>3. b \in 0 .. MinGap + ClockSamples - 1 /\ b > 0
  BY <1>2, ClockSizes
<1>4. SYNC!After(s) = [id |-> i, early |-> e, age |-> b]
  BY <1>1, <1>2 DEF SYNC!After, SYNC!Older
<1> QED BY <1>1, <1>2, <1>3, <1>4 DEF Samples

(* A detection is a sample of age 0 with another identity than the last. *)
LEMMA DetectionIs ==
  ASSUME sync_last \in Samples, NEW early \in BOOLEAN
  PROVE  /\ SYNC!Detection(early) \in Samples
         /\ SYNC!Detection(early).age = 0
         /\ SYNC!Detection(early).id # sync_last.id /\ SYNC!Detection(early).id # 0
<1>1. PICK i \in 0 .. ClockIds : i = sync_last.id
  BY DEF Samples
<1>2. i % ClockIds = IF i = ClockIds THEN 0 ELSE i
  BY ClockSizes
<1>3. PICK j : j = (i % ClockIds) + 1
  OBVIOUS
<1>4. j \in 0 .. ClockIds /\ j # i /\ j # 0
  BY <1>2, <1>3, ClockSizes
<1>5. SYNC!Detection(early) = [id |-> j, early |-> early, age |-> 0]
  BY <1>1, <1>3 DEF SYNC!Detection
<1> QED BY <1>4, <1>5, <1>1, ClockSizes DEF Samples
(* Samples arrive one after the other. *)
LEMMA FromFolds ==
  ASSUME NEW first \in Samples, NEW n \in Nat \ {0}
  PROVE  \E w : /\ w[1] = <<first>>
                /\ \A k \in 2 .. n : w[k] = Append(w[k - 1], SYNC!After(w[k - 1][Len(w[k - 1])]))
                /\ SYNC!From(first, n) = w[n]
<1> DEFINE S == 2 .. n
           X == Seq(Samples) \ {<<>>}
           grown(x) == Append(x, SYNC!After(x[Len(x)]))
           seq == [i \in 2 .. n |-> i]
           op(it, s) == IF s = {} THEN <<first>> ELSE grown(it[s \ {SYNC!Max(s)}])
           iter == CHOOSE it : it = [s \in SUBSET S |-> op(it, s)]
<1>1. SYNC!From(first, n) = iter[S]
  <2>1. DOMAIN seq = S
    OBVIOUS
  <2> QED BY <2>1 DEF SYNC!From, SYNC!FoldLeft, SYNC!MapThenFoldSet, SYNC!Last
<1>2. \A s : SYNC!Max(s) = Greatest(s)
  BY DEF SYNC!Max, Greatest
<1>3. PICK step : step = [p \in X \X (1 .. n) |-> grown(p[1])]
  OBVIOUS
<1>4. \A x \in X : grown(x) \in X
  <2>1. ASSUME NEW x \in X
        PROVE  grown(x) \in X
    <3>1. x \in Seq(Samples) /\ Len(x) \in 1 .. Len(x)
      OBVIOUS
    <3>2. x[Len(x)] \in Samples
      BY <3>1
    <3>3. PICK y \in Samples : y = SYNC!After(x[Len(x)])
      BY <3>2, AfterIs
    <3>4. Append(x, y) \in Seq(Samples) /\ Append(x, y) # <<>>
      BY <3>1
    <3> QED BY <3>3, <3>4
  <2> QED BY <2>1
<1> HIDE DEF grown
<1>5. step \in [X \X (1 .. n) -> X]
  BY <1>3, <1>4
<1>6. <<first>> \in X
  OBVIOUS
<1>7. PICK v : /\ v = [s \in SUBSET S |-> FoldOver(v, s, <<first>>, step)]
               /\ \A s \in SUBSET S : v[s] \in X
  <2>1. 2 \in Nat \ {0} /\ n \in Nat
    OBVIOUS
  <2>2. \E v : FoldedFrom(v, 2, n, X, <<first>>, step)
    <3> HIDE DEF X
    <3> QED BY <1>5, <1>6, <2>1, FoldsFrom
  <2> QED BY <2>2 DEF FoldedFrom
<1>8. ASSUME NEW s \in SUBSET S
      PROVE  FoldOver(v, s, <<first>>, step) = op(v, s)
  <2>1. CASE s = {}
    BY <2>1 DEF FoldOver
  <2>2. CASE s # {}
    <3>1. s \in SUBSET (1 .. n)
      OBVIOUS
    <3>2. PICK g \in S : g = Greatest(s) /\ g \in 1 .. n
      BY <2>2, <3>1, GreatestIs
    <3>3. s \ {g} \in SUBSET S
      OBVIOUS
    <3>4. v[s \ {g}] \in X
      BY <1>7, <3>3
    <3>5. step[v[s \ {g}], g] = grown(v[s \ {g}])
      BY <1>3, <3>2, <3>4
    <3> QED BY <1>2, <2>2, <3>2, <3>5 DEF FoldOver
  <2> QED BY <2>1, <2>2
<1>9. v = [s \in SUBSET S |-> op(v, s)]
  <2>1. [s \in SUBSET S |-> op(v, s)] = [s \in SUBSET S |-> FoldOver(v, s, <<first>>, step)]
    BY <1>8
  <2> QED BY <1>7, <2>1
<1>10. iter = [s \in SUBSET S |-> op(iter, s)]
  BY <1>9
<1> HIDE DEF iter
<1>11. PICK w : w = [k \in 1 .. n |-> iter[2 .. k]]
  OBVIOUS
<1>12. w[1] = <<first>>
  <2>1. w[1] = iter[{}]
    BY <1>11
  <2>2. {} \in SUBSET S
    OBVIOUS
  <2>3. iter[{}] = op(iter, {})
    BY <1>10, <2>2
  <2> QED BY <2>1, <2>3
<1>13. ASSUME NEW k \in 2 .. n
       PROVE  w[k] = grown(w[k - 1])
  <2>1. 2 .. k \in SUBSET S /\ 2 .. k \in SUBSET (1 .. k) /\ k \in 2 .. k /\ 2 .. k # {} /\ k \in Nat
    OBVIOUS
  <2>2. Greatest(2 .. k) = k
    BY <2>1, GreatestIs
  <2>3. (2 .. k) \ {k} = 2 .. k - 1
    OBVIOUS
  <2>4. iter[2 .. k] = op(iter, 2 .. k)
    BY <1>10, <2>1
  <2>5. iter[2 .. k] = grown(iter[2 .. k - 1])
    BY <1>2, <2>1, <2>2, <2>3, <2>4
  <2>6. k - 1 \in 1 .. n /\ k \in 1 .. n
    OBVIOUS
  <2> QED BY <1>11, <2>5, <2>6
<1>14. SYNC!From(first, n) = w[n]
  BY <1>1, <1>11
<1> QED BY <1>12, <1>13, <1>14 DEF grown

(* What the samples of a portion are. *)
LEMMA FromIs ==
  ASSUME NEW first \in Samples, NEW n \in Nat \ {0}
  PROVE  /\ SYNC!From(first, n) \in Seq(Samples) /\ Len(SYNC!From(first, n)) = n
         /\ SYNC!From(first, n)[1] = first
         /\ \A j \in 2 .. n : SYNC!From(first, n)[j] = SYNC!After(SYNC!From(first, n)[j - 1])
<1>1. PICK w : /\ w[1] = <<first>>
               /\ \A k \in 2 .. n : w[k] = Append(w[k - 1], SYNC!After(w[k - 1][Len(w[k - 1])]))
               /\ SYNC!From(first, n) = w[n]
  BY FromFolds
<1> DEFINE Grown(f, k) == /\ f \in Seq(Samples) /\ Len(f) = k /\ f[1] = first
                          /\ \A j \in 2 .. k : f[j] = SYNC!After(f[j - 1])
           Wrong == {k \in 1 .. n : ~Grown(w[k], k)}
<1>2. SUFFICES ASSUME Wrong # {}
               PROVE  FALSE
  <2>1. n \in 1 .. n /\ n \notin Wrong => Grown(w[n], n)
    OBVIOUS
  <2> QED BY <1>1, <2>1
<1>3. Wrong \subseteq Nat
  OBVIOUS
<1>4. PICK k \in Wrong : \A j \in Wrong : k <= j
  BY <1>2, <1>3, Least
<1>5. k \in 1 .. n /\ ~Grown(w[k], k)
  OBVIOUS
<1>6. CASE k = 1
  <2>1. Grown(<<first>>, 1)
    OBVIOUS
  <2> QED BY <1>1, <1>5, <1>6, <2>1
<1>7. CASE k # 1
  <2>1. k \in 2 .. n /\ k - 1 \in 1 .. n /\ k - 1 \in Nat /\ k \in Nat /\ ~(k <= k - 1)
    BY <1>5, <1>7
  <2>2. k - 1 \notin Wrong
    BY <1>4, <2>1
  <2>3. Grown(w[k - 1], k - 1)
    BY <2>1, <2>2
  <2>4. PICK f \in Seq(Samples) : f = w[k - 1] /\ Len(f) = k - 1 /\ f[1] = first
                                  /\ \A j \in 2 .. k - 1 : f[j] = SYNC!After(f[j - 1])
    BY <2>3
  <2>5. f[k - 1] \in Samples
    BY <2>1, <2>4
  <2>6. PICK y \in Samples : y = SYNC!After(f[k - 1])
    BY <2>5, AfterIs
  <2>7. w[k] = Append(f, y)
    BY <1>1, <2>1, <2>4, <2>6
  <2>8. PICK g : g = Append(f, y)
    OBVIOUS
  <2>9. g \in Seq(Samples) /\ Len(g) = k /\ g[k] = y /\ \A j \in 1 .. k - 1 : g[j] = f[j]
    BY <2>1, <2>4, <2>8
  <2>10. g[1] = first
    BY <2>1, <2>4, <2>9
  <2>11. ASSUME NEW j \in 2 .. k
         PROVE  g[j] = SYNC!After(g[j - 1])
    <3>1. j - 1 \in 1 .. k - 1
      OBVIOUS
    <3>2. CASE j = k
      BY <2>6, <2>9, <3>1, <3>2
    <3>3. CASE j # k
      <4>1. j \in 2 .. k - 1 /\ j \in 1 .. k - 1
        BY <3>3
      <4> QED BY <2>4, <2>9, <3>1, <4>1
    <3> QED BY <3>2, <3>3
  <2>12. Grown(g, k)
    BY <2>9, <2>10, <2>11
  <2> QED BY <1>5, <2>7, <2>8, <2>12
<1> QED BY <1>6, <1>7

(* The frequencies, identities of detections. *)
Freqs == 0 .. ClockIds

(* The states of the loop that rotates. *)
Rotations == [freq : Freqs, next : Freqs, delay : Int, rotated : Seq(Freqs)]

(* The frequency of the next sample. *)
Now(x) == IF x.delay = 0 THEN x.next ELSE x.freq

(* One sample is rotated. *)
LEMMA RotateIs ==
  ASSUME NEW x \in Rotations, NEW k
  PROVE  /\ SYNC!C!Rotate(x, k)
              = [freq |-> Now(x), next |-> x.next,
                 delay |-> IF x.delay >= 0 THEN x.delay - 1 ELSE x.delay,
                 rotated |-> Append(x.rotated, Now(x))]
         /\ SYNC!C!Rotate(x, k) \in Rotations
<1>1. PICK f \in Freqs, g \in Freqs, d \in Int, r \in Seq(Freqs) :
         x = [freq |-> f, next |-> g, delay |-> d, rotated |-> r]
  BY DEF Rotations
<1>2. PICK now \in Freqs : now = IF d = 0 THEN g ELSE f
  OBVIOUS
<1>3. PICK e \in Int : e = IF d >= 0 THEN d - 1 ELSE d
  OBVIOUS
<1>4. SYNC!C!Rotate(x, k) = [freq |-> Now(x), next |-> x.next,
                             delay |-> IF x.delay >= 0 THEN x.delay - 1 ELSE x.delay,
                             rotated |-> Append(x.rotated, Now(x))]
  BY DEF SYNC!C!Rotate, Now
<1>5. Append(r, now) \in Seq(Freqs)
  OBVIOUS
<1>6. [freq |-> now, next |-> g, delay |-> e, rotated |-> Append(r, now)] \in Rotations
  BY <1>5 DEF Rotations
<1>7. Now(x) = now /\ x.next = g /\ x.rotated = r /\ (IF x.delay >= 0 THEN x.delay - 1 ELSE x.delay) = e
  BY <1>1, <1>2, <1>3 DEF Now
<1>8. [freq |-> Now(x), next |-> x.next,
       delay |-> IF x.delay >= 0 THEN x.delay - 1 ELSE x.delay,
       rotated |-> Append(x.rotated, Now(x))]
        = [freq |-> now, next |-> g, delay |-> e, rotated |-> Append(r, now)]
  BY <1>7
<1> QED BY <1>4, <1>6, <1>8

(* Samples are rotated one after the other. *)
Runs(w, n, tagged, f, start) ==
  /\ w[0] = start
  /\ \A k \in 1 .. n : w[k] = SYNC!C!Rotate(w[k - 1], k)
  /\ SYNC!C!Run(n, tagged, f) = w[n]

(* The loop of a call is such a run. *)
LEMMA RunFolds ==
  ASSUME NEW n \in Nat, NEW tagged, NEW f,
         NEW start \in Rotations,
         start = [freq |-> freq, next |-> SYNC!C!Take(tagged, f).next,
                  delay |-> SYNC!C!Take(tagged, f).delay, rotated |-> <<>>]
  PROVE  \E w : Runs(w, n, tagged, f, start)
<1> DEFINE S == 1 .. n
           seq == [i \in 1 .. n |-> i]
           op(it, s) == IF s = {} THEN start
                        ELSE SYNC!C!Rotate(it[s \ {SYNC!C!Max(s)}], seq[SYNC!C!Max(s)])
           iter == CHOOSE it : it = [s \in SUBSET S |-> op(it, s)]
<1>1. SYNC!C!Run(n, tagged, f) = iter[S]
  <2>1. DOMAIN seq = S
    OBVIOUS
  <2> QED BY <2>1 DEF SYNC!C!Run, SYNC!C!FoldLeft, SYNC!C!MapThenFoldSet
<1>2. \A s : SYNC!C!Max(s) = Greatest(s)
  BY DEF SYNC!C!Max, Greatest
<1>3. PICK step : step = [p \in Rotations \X (1 .. n) |-> SYNC!C!Rotate(p[1], p[2])]
  OBVIOUS
<1>5. step \in [Rotations \X (1 .. n) -> Rotations]
  BY <1>3, RotateIs
<1>7. PICK v : /\ v = [s \in SUBSET S |-> FoldOver(v, s, start, step)]
               /\ \A s \in SUBSET S : v[s] \in Rotations
  <2>1. 1 \in Nat \ {0} /\ n \in Nat
    OBVIOUS
  <2>2. \E v : FoldedFrom(v, 1, n, Rotations, start, step)
    BY <1>5, <2>1, FoldsFrom
  <2> QED BY <2>2 DEF FoldedFrom
<1>8. ASSUME NEW s \in SUBSET S
      PROVE  FoldOver(v, s, start, step) = op(v, s)
  <2>1. CASE s = {}
    BY <2>1 DEF FoldOver
  <2>2. CASE s # {}
    <3>1. s \in SUBSET (1 .. n)
      OBVIOUS
    <3>2. PICK g \in S : g = Greatest(s) /\ g \in 1 .. n
      BY <2>2, <3>1, GreatestIs
    <3>3. s \ {g} \in SUBSET S
      OBVIOUS
    <3>4. v[s \ {g}] \in Rotations
      BY <1>7, <3>3
    <3>5. step[v[s \ {g}], g] = SYNC!C!Rotate(v[s \ {g}], g) /\ seq[g] = g
      BY <1>3, <3>2, <3>4
    <3> QED BY <1>2, <2>2, <3>2, <3>5 DEF FoldOver
  <2> QED BY <2>1, <2>2
<1>9. v = [s \in SUBSET S |-> op(v, s)]
  <2>1. [s \in SUBSET S |-> op(v, s)] = [s \in SUBSET S |-> FoldOver(v, s, start, step)]
    BY <1>8
  <2> QED BY <1>7, <2>1
<1>10. iter = [s \in SUBSET S |-> op(iter, s)]
  BY <1>9
<1> HIDE DEF iter
<1>11. PICK w : w = [k \in 0 .. n |-> iter[1 .. k]]
  OBVIOUS
<1>12. w[0] = start
  <2>1. w[0] = iter[{}]
    BY <1>11
  <2>2. {} \in SUBSET S
    OBVIOUS
  <2>3. iter[{}] = op(iter, {})
    BY <1>10, <2>2
  <2> QED BY <2>1, <2>3
<1>13. ASSUME NEW k \in 1 .. n
       PROVE  w[k] = SYNC!C!Rotate(w[k - 1], k)
  <2>1. 1 .. k \in SUBSET S /\ 1 .. k \in SUBSET (1 .. k) /\ k \in 1 .. k /\ 1 .. k # {} /\ k \in Nat
    OBVIOUS
  <2>2. Greatest(1 .. k) = k
    BY <2>1, GreatestIs
  <2>3. (1 .. k) \ {k} = 1 .. k - 1
    OBVIOUS
  <2>4. iter[1 .. k] = op(iter, 1 .. k) /\ seq[k] = k
    BY <1>10, <2>1
  <2>5. iter[1 .. k] = SYNC!C!Rotate(iter[1 .. k - 1], k)
    BY <1>2, <2>1, <2>2, <2>3, <2>4
  <2>6. k - 1 \in 0 .. n /\ k \in 0 .. n
    OBVIOUS
  <2> QED BY <1>11, <2>5, <2>6
<1>14. SYNC!C!Run(n, tagged, f) = w[n]
  BY <1>1, <1>11
<1>15. Runs(w, n, tagged, f, start)
  <2> HIDE DEF iter, op, seq, S
  <2> QED BY <1>12, <1>13, <1>14 DEF Runs
<1> QED BY <1>15

(* A sample is rotated by the right frequency. *)
OwnFreq(s, f) == s.id # 0 => (f = s.id <=> s.age >= FreqDelay)

(* The loop has rotated sample s. *)
FreqAt(x, s) ==
  /\ x.next = s.id
  /\ IF s.age < FreqDelay
       THEN x.delay = FreqDelay - 1 - s.age /\ x.freq # s.id
       ELSE x.delay \in {-1, 0} /\ x.freq = s.id

(* The loop comes to sample s. *)
FreqBefore(x, s) ==
  /\ x.next = s.id
  /\ IF s.age < FreqDelay
       THEN x.delay = FreqDelay - s.age /\ x.freq # s.id
       ELSE x.delay = 0 \/ (x.delay = -1 /\ x.freq = s.id)

(* It rotates it. *)
LEMMA RotatesSample ==
  ASSUME NEW x \in Rotations, NEW k, NEW s \in Samples, FreqBefore(x, s)
  PROVE  FreqAt(SYNC!C!Rotate(x, k), s) /\ OwnFreq(s, Now(x))
<1>1. s.age \in Nat /\ x.delay \in Int /\ FreqDelay \in Nat
  BY ClockSizes DEF Samples, Rotations
<1>2. PICK y : y = SYNC!C!Rotate(x, k)
  OBVIOUS
<1>3. /\ y.freq = Now(x) /\ y.next = x.next
      /\ y.delay = IF x.delay >= 0 THEN x.delay - 1 ELSE x.delay
  BY <1>2, RotateIs
<1>4. CASE s.age < FreqDelay
  <2>1. x.delay = FreqDelay - s.age /\ x.freq # s.id /\ x.next = s.id
    BY <1>4 DEF FreqBefore
  <2>2. x.delay > 0 /\ Now(x) = x.freq
    BY <1>1, <1>4, <2>1 DEF Now
  <2>3. y.delay = FreqDelay - 1 - s.age
    BY <1>1, <1>3, <2>1, <2>2
  <2> QED BY <1>1, <1>2, <1>3, <1>4, <2>1, <2>2, <2>3 DEF FreqAt, OwnFreq
<1>5. CASE ~(s.age < FreqDelay)
  <2>1. x.next = s.id /\ (x.delay = 0 \/ (x.delay = -1 /\ x.freq = s.id))
    BY <1>5 DEF FreqBefore
  <2>2. Now(x) = s.id /\ y.delay = -1
    BY <1>3, <2>1 DEF Now
  <2> QED BY <1>1, <1>2, <1>3, <1>5, <2>1, <2>2 DEF FreqAt, OwnFreq
<1> QED BY <1>4, <1>5

(* It comes to the sample after it. *)
LEMMA ComesToNext ==
  ASSUME NEW x \in Rotations, NEW s \in Samples, FreqAt(x, s)
  PROVE  FreqBefore(x, SYNC!After(s))
<1>1. s.age \in Nat /\ s.age <= MinGap + ClockSamples - 1 /\ x.delay \in Int
  BY ClockSizes DEF Samples, Rotations
<1>2. PICK t \in Samples : t = SYNC!After(s)
  BY AfterIs
<1>3. t.id = s.id /\ t.age = IF s.age = MinGap + ClockSamples - 1 THEN MinGap ELSE s.age + 1
  BY <1>2, AfterIs
<1>4. CASE s.age < FreqDelay
  <2>1. t.age = s.age + 1
    BY <1>1, <1>3, <1>4, ClockSizes
  <2>2. x.delay = FreqDelay - 1 - s.age /\ x.freq # s.id /\ x.next = s.id
    BY <1>4 DEF FreqAt
  <2>3. x.delay = FreqDelay - t.age
    BY <1>1, <2>1, <2>2, ClockSizes
  <2>4. ~(t.age < FreqDelay) => x.delay = 0
    BY <1>1, <1>4, <2>1, <2>3, ClockSizes
  <2> QED BY <1>2, <1>3, <2>2, <2>3, <2>4 DEF FreqBefore
<1>5. CASE ~(s.age < FreqDelay)
  <2>1. ~(t.age < FreqDelay)
    BY <1>1, <1>3, <1>5, ClockSizes
  <2>2. x.delay \in {-1, 0} /\ x.freq = s.id /\ x.next = s.id
    BY <1>5 DEF FreqAt
  <2> QED BY <1>2, <1>3, <2>1, <2>2 DEF FreqBefore
<1> QED BY <1>4, <1>5

(* The states of the block between calls, as those of its loop. *)
RotationNow == [freq |-> freq, next |-> next_freq, delay |-> next_freq_delay, rotated |-> <<>>]

(* The samples that were rotated by the right frequency. *)
Rotateds == {x \in [sample : Samples, freq : Freqs] : OwnFreq(x.sample, x.freq)}

(* Those of a chunk, with their places. *)
Placed == {x \in [sample : Samples, freq : Freqs, at : Nat] : OwnFreq(x.sample, x.freq)}

(* The invariant of the rotation. *)
FreqInv ==
  /\ sync_last \in Samples
  /\ freq \in Freqs /\ next_freq \in Freqs /\ next_freq_delay \in Int
  /\ FreqAt(RotationNow, sync_last)
  /\ link \in Seq(Rotateds) /\ chunk \in Seq(Placed)

(* A call rotates its samples by the right frequencies. *)
LEMMA CallRotates ==
  ASSUME NEW n \in Nat \ {0}, NEW samples \in Seq(Samples), Len(samples) = n,
         \A j \in 2 .. n : samples[j] = SYNC!After(samples[j - 1]),
         NEW tagged, NEW f, NEW start \in Rotations,
         start = [freq |-> freq, next |-> SYNC!C!Take(tagged, f).next,
                  delay |-> SYNC!C!Take(tagged, f).delay, rotated |-> <<>>],
         FreqBefore(start, samples[1])
  PROVE  LET run == SYNC!C!Run(n, tagged, f)
         IN /\ run \in Rotations /\ FreqAt(run, samples[n])
            /\ Len(run.rotated) = n
            /\ \A i \in 1 .. n : OwnFreq(samples[i], run.rotated[i])
<1>0. PICK w : Runs(w, n, tagged, f, start)
  <2>1. n \in Nat
    OBVIOUS
  <2> QED BY <2>1, RunFolds
<1>1. /\ w[0] = start
      /\ \A k \in 1 .. n : w[k] = SYNC!C!Rotate(w[k - 1], k)
      /\ SYNC!C!Run(n, tagged, f) = w[n]
  BY <1>0 DEF Runs
<1> DEFINE Right(x, k) == /\ x \in Rotations /\ Len(x.rotated) = k
                          /\ \A i \in 1 .. k : OwnFreq(samples[i], x.rotated[i])
                          /\ k = 0 => FreqBefore(x, samples[1])
                          /\ k > 0 => FreqAt(x, samples[k])
           Wrong == {k \in 0 .. n : ~Right(w[k], k)}
<1>2. SUFFICES ASSUME Wrong # {}
               PROVE  FALSE
  <2>1. n \in 0 .. n /\ n > 0
    OBVIOUS
  <2>2. n \notin Wrong => Right(w[n], n)
    BY <2>1
  <2> QED BY <1>1, <2>1, <2>2
<1>3. Wrong \subseteq Nat
  OBVIOUS
<1>4. PICK k \in Wrong : \A j \in Wrong : k <= j
  BY <1>2, <1>3, Least
<1>5. k \in 0 .. n /\ ~Right(w[k], k)
  OBVIOUS
<1>6. CASE k = 0
  <2>1. start.rotated = <<>> /\ Len(<<>>) = 0
    OBVIOUS
  <2>2. \A i \in 1 .. 0 : FALSE
    OBVIOUS
  <2>3. Right(start, 0)
    BY <2>1, <2>2
  <2> QED BY <1>1, <1>5, <1>6, <2>3
<1>7. CASE k # 0
  <2>1. k \in 1 .. n /\ k - 1 \in 0 .. n /\ k - 1 \in Nat /\ k \in Nat /\ ~(k <= k - 1)
    BY <1>5, <1>7
  <2>2. k - 1 \notin Wrong
    BY <1>4, <2>1
  <2>3. Right(w[k - 1], k - 1)
    BY <2>1, <2>2
  <2>4. PICK x \in Rotations : x = w[k - 1] /\ Right(x, k - 1)
    BY <2>3
  <2>5. samples[k] \in Samples
    BY <2>1
  <2>6. FreqBefore(x, samples[k])
    <3>1. CASE k = 1
      BY <2>4, <3>1
    <3>2. CASE k # 1
      <4>1. k \in 2 .. n /\ k - 1 > 0 /\ k - 1 \in 1 .. n
        BY <2>1, <3>2
      <4>2. FreqAt(x, samples[k - 1]) /\ samples[k - 1] \in Samples
        BY <2>4, <4>1
      <4>3. FreqBefore(x, SYNC!After(samples[k - 1]))
        BY <4>2, ComesToNext
      <4> QED BY <4>1, <4>3
    <3> QED BY <3>1, <3>2
  <2>7. PICK y \in Rotations : y = w[k] /\ y = SYNC!C!Rotate(x, k)
    BY <1>1, <2>1, <2>4, RotateIs
  <2>8. FreqAt(y, samples[k]) /\ OwnFreq(samples[k], Now(x))
    BY <2>5, <2>6, <2>7, RotatesSample
  <2>9. PICK r \in Seq(Freqs) : r = x.rotated /\ Len(r) = k - 1
    BY <2>4 DEF Rotations
  <2>10. y.rotated = Append(r, Now(x)) /\ Now(x) \in Freqs
    <3>1. y.rotated = Append(r, Now(x))
      BY <2>7, <2>9, RotateIs
    <3>2. x.next \in Freqs /\ x.freq \in Freqs
      BY DEF Rotations
    <3> QED BY <3>1, <3>2 DEF Now
  <2>11. /\ Len(y.rotated) = k /\ y.rotated[k] = Now(x)
         /\ \A i \in 1 .. k - 1 : y.rotated[i] = r[i]
    BY <2>1, <2>9, <2>10
  <2>12. ASSUME NEW i \in 1 .. k
         PROVE  OwnFreq(samples[i], y.rotated[i])
    <3>1. CASE i = k
      BY <2>8, <2>11, <3>1
    <3>2. CASE i # k
      <4>1. i \in 1 .. k - 1
        BY <2>1, <3>2
      <4> QED BY <2>4, <2>9, <2>11, <4>1
    <3> QED BY <3>1, <3>2
  <2>13. Right(y, k)
    BY <2>1, <2>7, <2>8, <2>11, <2>12
  <2> QED BY <1>5, <2>7, <2>13
<1> QED BY <1>6, <1>7

(* What the block takes, and that it comes to the first sample of a call. *)
LEMMA ComesToFirst ==
  ASSUME FreqInv, NEW first \in Samples,
         \/ first = SYNC!After(sync_last)
         \/ sync_last.age >= MinGap - 1 /\ first.age = 0 /\ first.id # sync_last.id
  PROVE  \E start \in Rotations :
           /\ start = [freq |-> freq, next |-> SYNC!C!Take(first.age = 0, first.id).next,
                       delay |-> SYNC!C!Take(first.age = 0, first.id).delay, rotated |-> <<>>]
           /\ FreqBefore(start, first)
<1>1. sync_last \in Samples /\ RotationNow \in Rotations /\ FreqAt(RotationNow, sync_last)
  BY DEF FreqInv, Rotations, RotationNow
<1>2. first.id \in Freqs
  BY DEF Samples, Freqs
<1>3. CASE first = SYNC!After(sync_last)
  <2>1. first.age # 0
    BY <1>1, <1>3, AfterIs, ClockSizes DEF Samples
  <2>2. SYNC!C!Take(first.age = 0, first.id) = [next |-> next_freq, delay |-> next_freq_delay]
    BY <2>1 DEF SYNC!C!Take
  <2>3. FreqBefore(RotationNow, first)
    BY <1>1, <1>3, ComesToNext
  <2> QED BY <1>1, <2>2, <2>3 DEF RotationNow
<1>4. CASE sync_last.age >= MinGap - 1 /\ first.age = 0 /\ first.id # sync_last.id
  <2>1. SYNC!C!Take(first.age = 0, first.id) = [next |-> first.id, delay |-> FreqDelay]
    BY <1>4 DEF SYNC!C!Take
  <2>2. PICK start : start = [freq |-> freq, next |-> first.id, delay |-> FreqDelay, rotated |-> <<>>]
    OBVIOUS
  <2>3. start \in Rotations
    BY <1>2, <2>2, ClockSizes DEF FreqInv, Rotations
  <2>4. sync_last.age \in Int
    BY <1>1 DEF Samples
  <2>5. ~(sync_last.age < FreqDelay)
    BY <1>4, <2>4, ClockSizes
  <2>6. freq = sync_last.id
    BY <1>1, <2>5 DEF FreqAt, RotationNow
  <2>7. FreqBefore(start, first)
    BY <1>4, <2>2, <2>6, ClockSizes DEF FreqBefore
  <2> QED BY <2>1, <2>2, <2>3, <2>7
<1> QED BY <1>3, <1>4

(* Samples arrive. *)
LEMMA CorrectKeeps ==
  ASSUME FreqInv, NEW n \in Nat \ {0}, NEW first \in Samples,
         \/ first = SYNC!After(sync_last)
         \/ sync_last.age >= MinGap - 1 /\ first.age = 0 /\ first.id # sync_last.id,
         SYNC!Correct(SYNC!From(first, n))
  PROVE  FreqInv'
<1>1. PICK samples \in Seq(Samples) :
         /\ samples = SYNC!From(first, n) /\ Len(samples) = n /\ samples[1] = first
         /\ \A j \in 2 .. n : samples[j] = SYNC!After(samples[j - 1])
  BY FromIs
<1>2. PICK start \in Rotations :
         /\ start = [freq |-> freq, next |-> SYNC!C!Take(first.age = 0, first.id).next,
                     delay |-> SYNC!C!Take(first.age = 0, first.id).delay, rotated |-> <<>>]
         /\ FreqBefore(start, samples[1])
  BY <1>1, ComesToFirst
<1>3. PICK run \in Rotations :
         /\ run = SYNC!C!Run(n, first.age = 0, first.id) /\ FreqAt(run, samples[n])
         /\ Len(run.rotated) = n
         /\ \A i \in 1 .. n : OwnFreq(samples[i], run.rotated[i])
  BY <1>1, <1>2, CallRotates
<1>4. PICK g \in Freqs, h \in Freqs, d \in Int, r \in Seq(Freqs) :
         run = [freq |-> g, next |-> h, delay |-> d, rotated |-> r]
  BY DEF Rotations
<1>5. /\ freq' = g /\ next_freq' = h /\ next_freq_delay' = d
      /\ link' = link \o [i \in 1 .. n |-> [sample |-> samples[i], freq |-> r[i]]]
      /\ sync_last' = samples[n] /\ chunk' = chunk
  BY <1>1, <1>3, <1>4 DEF SYNC!Correct, SYNC!C!ProcessBulk, SYNC!C!Rotated
<1>6. PICK s \in Samples : s = samples[n]
  BY <1>1
<1>7. FreqAt([freq |-> g, next |-> h, delay |-> d, rotated |-> <<>>], s)
  BY <1>3, <1>4, <1>6 DEF FreqAt
<1>8. PICK news : news = [i \in 1 .. n |-> [sample |-> samples[i], freq |-> r[i]]]
  OBVIOUS
<1>9. news \in Seq(Rotateds)
  <2>1. ASSUME NEW i \in 1 .. n
        PROVE  [sample |-> samples[i], freq |-> r[i]] \in Rotateds
    <3>1. samples[i] \in Samples /\ r[i] \in Freqs /\ OwnFreq(samples[i], r[i])
      BY <1>1, <1>3, <1>4
    <3> QED BY <3>1 DEF Rotateds
  <2> HIDE DEF Rotateds
  <2> QED BY <1>8, <2>1
<1>10. PICK l \in Seq(Rotateds) : l = link \o news
  <2>1. link \in Seq(Rotateds)
    BY DEF FreqInv
  <2>2. link \o news \in Seq(Rotateds)
    BY <1>9, <2>1
  <2> QED BY <2>2
<1>11. link' = l /\ chunk' = chunk /\ sync_last' = s
  BY <1>5, <1>6, <1>8, <1>10
<1>12. chunk \in Seq(Placed)
  BY DEF FreqInv
<1>13. Rotateds' = Rotateds /\ Placed' = Placed /\ Samples' = Samples /\ Freqs' = Freqs
  BY DEF Rotateds, Placed, Samples, Freqs, OwnFreq
<1>14. RotationNow' = [freq |-> g, next |-> h, delay |-> d, rotated |-> <<>>]
  BY <1>5 DEF RotationNow
<1>15. FreqAt(RotationNow, sync_last)'
  BY <1>7, <1>11, <1>14 DEF FreqAt
<1> QED BY <1>5, <1>11, <1>12, <1>13, <1>15 DEF FreqInv

(* The filter takes samples from the link. *)
LEMMA FilterKeeps ==
  ASSUME FreqInv, SYNC!Filter
  PROVE  FreqInv'
<1>1. PICK n \in 1 .. Len(link) :
         /\ chunk' = SYNC!Chunk(n)
         /\ link' = SubSeq(link, n + 1, Len(link))
         /\ UNCHANGED <<freq, next_freq, next_freq_delay, sync_last>>
  BY DEF SYNC!Filter, SYNC!FilterChunk, SYNC!freq_vars
<1>2. link \in Seq(Rotateds) /\ Len(link) \in Nat
  BY DEF FreqInv
<1>3. PICK l \in Seq(Rotateds), c \in Seq(Placed) :
         c = SYNC!Chunk(n) /\ l = SubSeq(link, n + 1, Len(link))
  <2>1. SYNC!Chunk(n) \in Seq(Placed)
    <3>1. ASSUME NEW i \in 1 .. n
          PROVE  [sample |-> link[i].sample, freq |-> link[i].freq, at |-> i] \in Placed
      <4>1. link[i] \in Rotateds /\ i \in Nat
        <5> HIDE DEF Rotateds
        <5> QED BY <1>2
      <4> QED BY <4>1 DEF Rotateds, Placed
    <3> HIDE DEF Placed
    <3> QED BY <3>1 DEF SYNC!Chunk
  <2>2. SubSeq(link, n + 1, Len(link)) \in Seq(Rotateds)
    <3> HIDE DEF Rotateds
    <3> QED BY <1>2
  <2> QED BY <2>1, <2>2
<1>4. Rotateds' = Rotateds /\ Placed' = Placed /\ Samples' = Samples /\ Freqs' = Freqs
  BY DEF Rotateds, Placed, Samples, Freqs, OwnFreq
<1>5. RotationNow' = RotationNow /\ sync_last' = sync_last
  BY <1>1 DEF RotationNow
<1>6. FreqAt(RotationNow, sync_last)'
  BY <1>5 DEF FreqInv, FreqAt
<1> QED BY <1>1, <1>3, <1>4, <1>6 DEF FreqInv

(* The blocks begin in the invariant. *)
LEMMA FreqInitially ==
  ASSUME SYNC!Init
  PROVE  FreqInv
<1>1. /\ sync_last = [id |-> 0, early |-> FALSE, age |-> MinGap]
      /\ freq = 0 /\ next_freq = 0 /\ next_freq_delay = 0 /\ link = <<>> /\ chunk = <<>>
  BY DEF SYNC!Init, SYNC!C!Init, SYNC!C!NoFreq
<1>2. sync_last \in Samples /\ 0 \in Freqs
  BY <1>1, ClockSizes DEF Samples, Freqs
<1>3. <<>> \in Seq(Rotateds)
  OBVIOUS
<1>4. FreqAt(RotationNow, sync_last)
  BY <1>1, ClockSizes DEF FreqAt, RotationNow
<1> QED BY <1>1, <1>2, <1>3, <1>4 DEF FreqInv

(* No step of the bench breaks it. *)
LEMMA RotationKeeps ==
  ASSUME FreqInv, [BenchNext]_bench_vars
  PROVE  FreqInv'
<1>1. CASE UNCHANGED sync_vars
  <2>1. /\ freq' = freq /\ next_freq' = next_freq /\ next_freq_delay' = next_freq_delay
        /\ sync_last' = sync_last /\ link' = link /\ chunk' = chunk
    BY <1>1 DEF sync_vars
  <2>2. Rotateds' = Rotateds /\ Placed' = Placed /\ Samples' = Samples /\ Freqs' = Freqs
    BY DEF Rotateds, Placed, Samples, Freqs, OwnFreq
  <2>3. RotationNow' = RotationNow
    BY <2>1 DEF RotationNow
  <2>4. FreqAt(RotationNow, sync_last)'
    BY <2>1, <2>3 DEF FreqInv, FreqAt
  <2> QED BY <2>1, <2>2, <2>4 DEF FreqInv
<1>2. CASE SyncStep
  <2>1. CASE SYNC!Quiet
    <3>1. PICK n \in 1 .. LinkCapacity : SYNC!Correct(SYNC!From(SYNC!After(sync_last), n))
      BY <2>1 DEF SYNC!Quiet
    <3>2. SYNC!After(sync_last) \in Samples
      BY AfterIs DEF FreqInv
    <3>3. n \in Nat \ {0}
      OBVIOUS
    <3> QED BY <3>1, <3>2, <3>3, CorrectKeeps
  <2>2. CASE SYNC!Detected
    <3>1. PICK n \in 1 .. LinkCapacity, early \in BOOLEAN :
                 /\ SYNC!Correct(SYNC!From(SYNC!Detection(early), n))
                 /\ sync_last.age >= MinGap - 1
      BY <2>2 DEF SYNC!Detected
    <3>2. /\ SYNC!Detection(early) \in Samples /\ SYNC!Detection(early).age = 0
          /\ SYNC!Detection(early).id # sync_last.id
      BY DetectionIs DEF FreqInv
    <3>3. n \in Nat \ {0}
      OBVIOUS
    <3> QED BY <3>1, <3>2, <3>3, CorrectKeeps
  <2>3. CASE SYNC!Filter
    BY <2>3, FilterKeeps
  <2> QED BY <1>2, <2>1, <2>2, <2>3 DEF SyncStep, SYNC!Next
<1>3. CASE FilterStep \/ DetectionStep \/ DecodingStep \/ UNCHANGED bench_vars
  BY <1>1, <1>3 DEF FilterStep, DetectionStep, DecodingStep, bench_vars
<1> QED BY <1>2, <1>3 DEF BenchNext

(* A sample is rotated by the frequency of the packet before until         *)
(* FreqDelay samples after a detection and by that of its own from then    *)
(* on, for every delay, every distance of detections above it, and however *)
(* the samples are cut into calls (coarse_frequency_correction.hpp:79-91). *)
THEOREM FrequencyOfPacketHolds == BenchSpec => []FrequencyOfPacket
<1>1. BenchInit => FreqInv
  BY FreqInitially DEF BenchInit
<1>2. FreqInv /\ [BenchNext]_bench_vars => FreqInv'
  BY RotationKeeps
<1>3. FreqInv => FrequencyOfPacket
  <2>1. SUFFICES ASSUME FreqInv, NEW i \in DOMAIN chunk
                 PROVE  chunk[i].sample.id # 0 =>
                          (chunk[i].freq = chunk[i].sample.id <=> chunk[i].sample.age >= FreqDelay)
    BY DEF FrequencyOfPacket, SYNC!FrequencyOfPacket
  <2>2. chunk \in Seq(Placed)
    BY <2>1 DEF FreqInv
  <2>3. chunk[i] \in Placed
    <3> HIDE DEF Placed
    <3> QED BY <2>1, <2>2
  <2> QED BY <2>3 DEF Placed, OwnFreq
<1> QED BY <1>1, <1>2, <1>3, PTL DEF BenchSpec

-----------------------------------------------------------------------------
(* The symbol clock: symbols and tags.                                     *)

(* What the theorem is about: four samples in a symbol, and no delay with  *)
(* the remainder with which a tag can go to the symbol after its own.      *)
FourSamples == ClockSamples = 4 /\ \A d \in Delays : d % 4 # 1

(* A detection of sample s that waits for as many samples. *)
Waits(s, index) == <<[id |-> s.id, index |-> index]>>

(* The first symbol of the packet of s is s, or after it; after it.        *)
Awaits(s) == s.id # 0 /\ s.age <= SYNC!FirstSymbol(s)
AwaitsAfter(s) == s.id # 0 /\ s.age < SYNC!FirstSymbol(s)

(* The clock before sample s, and after it. *)
ClockBefore(clock, s) ==
  clock \in 0 .. 3 /\ (s.id # 0 => clock = (s.age - SYNC!FirstSymbol(s)) % 4)
ClockAfter(clock, s) ==
  clock \in 0 .. 3 /\ (s.id # 0 => clock = (s.age + 1 - SYNC!FirstSymbol(s)) % 4)

(* The tags before sample s, and after it: one that waits for its symbol,  *)
(* perhaps a sample too long.                                              *)
TagsBefore(pending, s) ==
  IF Awaits(s)
    THEN \/ pending = Waits(s, delay - s.age)
         \/ ~s.early /\ pending = Waits(s, delay - s.age + 1)
    ELSE pending = <<>>
TagsAfter(pending, s) ==
  IF AwaitsAfter(s)
    THEN \/ pending = Waits(s, delay - s.age - 1)
         \/ ~s.early /\ pending = Waits(s, delay - s.age)
    ELSE pending = <<>>

(* The samples since the last symbol, of those since the one with a tag. *)
Phase(clock) == (clock + 3) % 4

(* The drift before sample s, and after it: up to the first symbol of a    *)
(* packet what it will be there.                                           *)
DriftBefore(d, clock, s) ==
  IF Awaits(s) THEN d \in Int /\ d - Phase(clock) \in -2 .. 2 ELSE d = Phase(clock)
DriftAfter(d, clock, s) ==
  IF AwaitsAfter(s) THEN d \in Int /\ d - Phase(clock) \in -2 .. 2 ELSE d = Phase(clock)

(* The next sample after another, or a detection. *)
Follows4(a, s) ==
  \/ s = SYNC!After(a)
  \/ a.age >= MinGap - 1 /\ s.age = 0 /\ s.id # 0

(* The samples in the link come after sample b, up to the last one. *)
LinkFrom(b) ==
  /\ \A i \in 1 .. Len(link) : Follows4(IF i = 1 THEN b ELSE link[i - 1].sample, link[i].sample)
  /\ sync_last = IF link = <<>> THEN b ELSE link[Len(link)].sample

(* The filter is behind sample b. *)
FilterAt(b) ==
  /\ ClockAfter(clock_phase, b) /\ TagsAfter(tags, b) /\ DriftAfter(drift, clock_phase, b)
  /\ LinkFrom(b)

(* The invariant of the symbol clock. *)
SymbolInv ==
  /\ delay \in Delays /\ slip \in -2 .. 2 /\ Len(link) <= LinkCapacity
  /\ \E b \in Samples : FilterAt(b)
  /\ SYNC!SampledOnTime /\ SYNC!TagOnSymbol

(* The tags and the symbols with theirs; the states of the loop. *)
Tags4 == [id : 0 .. ClockIds, index : Int]
Sent4 == [item : Placed, tags : Seq(Tags4)]
States4 == [clock : 0 .. 3, tags : Seq(Tags4), out : Seq(Sent4)]

(* The tags that go with a symbol taken at sample s. *)
Marks(sent, s) ==
  IF s.id # 0 /\ s.age = SYNC!FirstSymbol(s)
    THEN \E index \in Int : sent = Waits(s, index)
    ELSE sent = <<>>

(* The constants and the setting. *)
LEMMA Four ==
  ASSUME FourSamples, delay \in Delays
  PROVE  /\ ClockSamples = 4 /\ ClockSamples \div 2 = 2
         /\ delay \in Nat /\ delay > 0 /\ delay % 4 # 1
         /\ MinGap \in Nat /\ MinGap > delay + 4
         /\ \A s \in Samples :
              /\ s.id \in 0 .. ClockIds /\ s.age \in Nat /\ s.early \in BOOLEAN
              /\ s.age <= MinGap + 3
              /\ SYNC!FirstSymbol(s) = IF s.early THEN delay - 1 ELSE delay
              /\ SYNC!FirstSymbol(s) \in Nat /\ SYNC!FirstSymbol(s) > 0
<1>1. ClockSamples = 4 /\ delay % 4 # 1
  BY DEF FourSamples
<1>2. delay \in Nat /\ delay > 0 /\ MinGap \in Nat /\ MinGap > delay + 4
  BY <1>1, BlocksAssumption DEF SYNC!GapAssumption
<1>3. delay # 1
  BY <1>1
<1>4. 4 \div 2 = 2
  OBVIOUS
<1>5. ASSUME NEW s \in Samples
      PROVE  /\ s.id \in 0 .. ClockIds /\ s.age \in Nat /\ s.early \in BOOLEAN
             /\ s.age <= MinGap + 3
             /\ SYNC!FirstSymbol(s) = IF s.early THEN delay - 1 ELSE delay
             /\ SYNC!FirstSymbol(s) \in Nat /\ SYNC!FirstSymbol(s) > 0
  BY <1>1, <1>2, <1>3 DEF Samples, SYNC!FirstSymbol
<1> QED BY <1>1, <1>2, <1>4, <1>5

(* Remainders. *)
LEMMA Fourth ==
  ASSUME NEW n \in Int
  PROVE  /\ n % 4 \in 0 .. 3
         /\ (n + 1) % 4 = IF n % 4 = 3 THEN 0 ELSE (n % 4) + 1
         /\ (n + 4) % 4 = n % 4
         /\ (n - 4) % 4 = n % 4
OBVIOUS

(* The phase of a clock. *)
LEMMA PhaseIs ==
  ASSUME NEW c \in 0 .. 3
  PROVE  Phase(c) = IF c = 0 THEN 3 ELSE c - 1
BY DEF Phase

(* No tag goes if there is none; a tag goes if it is due. *)
LEMMA LeadingIs ==
  ASSUME FourSamples, delay \in Delays
  PROVE  /\ SYNC!F!Leading(<<>>) = 0
         /\ \A t \in Tags4 : SYNC!F!Leading(<<t>>) = IF t.index < 2 THEN 1 ELSE 0
<1>1. SYNC!F!Leading(<<>>) = 0
  <2>1. \A n \in 0 .. Len(<<>>) : n = 0
    OBVIOUS
  <2>2. 0 \in 0 .. Len(<<>>) /\ ~(0 < Len(<<>>))
    OBVIOUS
  <2>3. \A i \in 1 .. 0 : FALSE
    OBVIOUS
  <2>4. \E n \in 0 .. Len(<<>>) : /\ \A i \in 1 .. n : SYNC!F!Due(<<>>[i])
                                  /\ n < Len(<<>>) => ~SYNC!F!Due(<<>>[n + 1])
    BY <2>2, <2>3
  <2> QED BY <2>1, <2>4 DEF SYNC!F!Leading
<1>2. ASSUME NEW t \in Tags4
      PROVE  SYNC!F!Leading(<<t>>) = IF t.index < 2 THEN 1 ELSE 0
  <2>1. SYNC!F!Due(t) <=> t.index < 2
    BY Four DEF SYNC!F!Due
  <2>2. Len(<<t>>) = 1 /\ <<t>>[1] = t
    OBVIOUS
  <2>3. \A n \in 0 .. 1 : /\ (\A i \in 1 .. n : SYNC!F!Due(<<t>>[i])) <=> (n = 1 => SYNC!F!Due(t))
                          /\ (n < 1 => ~SYNC!F!Due(<<t>>[n + 1])) <=> (n = 0 => ~SYNC!F!Due(t))
    <3>1. \A i \in 1 .. 0 : FALSE
      OBVIOUS
    <3>2. \A i \in 1 .. 1 : i = 1
      OBVIOUS
    <3>3. \A n \in 0 .. 1 : n = 0 \/ n = 1
      OBVIOUS
    <3>4. 0 + 1 = 1 /\ 0 < 1 /\ ~(1 < 1) /\ 1 \in 1 .. 1
      OBVIOUS
    <3> QED BY <2>2, <3>1, <3>2, <3>3, <3>4, Zenon
  <2>4. PICK m \in 0 .. 1 : m = IF t.index < 2 THEN 1 ELSE 0
    OBVIOUS
  <2>5. \A n \in 0 .. 1 : (/\ \A i \in 1 .. n : SYNC!F!Due(<<t>>[i])
                           /\ n < 1 => ~SYNC!F!Due(<<t>>[n + 1])) <=> n = m
    <3>1. \A n \in 0 .. 1 : n = 0 \/ n = 1
      OBVIOUS
    <3> QED BY <2>1, <2>3, <2>4, <3>1
  <2>6. SYNC!F!Leading(<<t>>) = m
    BY <2>2, <2>5 DEF SYNC!F!Leading
  <2> QED BY <2>4, <2>6
<1> QED BY <1>1, <1>2

(* What a symbol takes of no tag or one. *)
LEMMA PublishIs ==
  ASSUME FourSamples, delay \in Delays, NEW x \in States4, NEW item \in Placed,
         NEW t \in Tags4, x.tags = <<>> \/ x.tags = <<t>>
  PROVE  LET goes == x.tags = <<t>> /\ t.index < 2
         IN SYNC!F!Publish(x, item)
              = [clock |-> x.clock,
                 tags  |-> IF goes THEN <<>> ELSE x.tags,
                 out   |-> Append(x.out, [item |-> item, tags |-> IF goes THEN <<t>> ELSE <<>>])]
<1>1. CASE x.tags = <<>>
  <2>1. SYNC!F!Leading(x.tags) = 0
    BY <1>1, LeadingIs
  <2>2. SubSeq(<<>>, 0 + 1, Len(<<>>)) = <<>> /\ SubSeq(<<>>, 1, 0) = <<>>
    OBVIOUS
  <2>3. x.tags # <<t>>
    BY <1>1
  <2> QED BY <1>1, <2>1, <2>2, <2>3 DEF SYNC!F!Publish
<1>2. CASE x.tags = <<t>>
  <2>1. SYNC!F!Leading(x.tags) = IF t.index < 2 THEN 1 ELSE 0
    BY <1>2, LeadingIs
  <2>2. /\ SubSeq(<<t>>, 0 + 1, Len(<<t>>)) = <<t>> /\ SubSeq(<<t>>, 1, 0) = <<>>
        /\ SubSeq(<<t>>, 1 + 1, Len(<<t>>)) = <<>> /\ SubSeq(<<t>>, 1, 1) = <<t>>
    <3>1. PICK w \in Seq(Tags4) : w = <<t>> /\ Len(w) = 1 /\ w[1] = t
      <4>1. <<t>> \in Seq(Tags4)
        OBVIOUS
      <4> QED BY <4>1
    <3>2. SubSeq(w, 1, Len(w)) = w
      BY SubSeqFull
    <3>3. SubSeq(w, 1, 0) = <<>> /\ SubSeq(w, 2, 1) = <<>>
      OBVIOUS
    <3> QED BY <3>1, <3>2, <3>3
  <2>3. CASE t.index < 2
    BY <1>2, <2>1, <2>2, <2>3 DEF SYNC!F!Publish
  <2>4. CASE ~(t.index < 2)
    BY <1>2, <2>1, <2>2, <2>4 DEF SYNC!F!Publish
  <2> QED BY <2>3, <2>4
<1> QED BY <1>1, <1>2

(* The tags come one sample closer. *)
LEMMA ApproachIs ==
  /\ SYNC!F!Approach(<<>>) = <<>>
  /\ \A i, n : SYNC!F!Approach(<<[id |-> i, index |-> n]>>) = <<[id |-> i, index |-> n - 1]>>
<1>1. SYNC!F!Approach(<<>>) = <<>>
  BY DEF SYNC!F!Approach
<1>2. ASSUME NEW i, NEW n
      PROVE  SYNC!F!Approach(<<[id |-> i, index |-> n]>>) = <<[id |-> i, index |-> n - 1]>>
  <2>1. DOMAIN <<[id |-> i, index |-> n]>> = 1 .. 1
    OBVIOUS
  <2> QED BY <2>1 DEF SYNC!F!Approach
<1> QED BY <1>1, <1>2

(* The tag that waits at a sample, if there is one. *)
LEMMA WaitsBefore ==
  ASSUME FourSamples, delay \in Delays, NEW s \in Samples, NEW p, TagsBefore(p, s)
  PROVE  \E t \in Tags4 :
           /\ t.id = s.id
           /\ p = IF Awaits(s) THEN <<t>> ELSE <<>>
           /\ t.index = delay - s.age \/ (~s.early /\ t.index = delay - s.age + 1)
           /\ t = [id |-> s.id, index |-> t.index]
<1>1. delay - s.age \in Int /\ delay - s.age + 1 \in Int /\ s.id \in 0 .. ClockIds
  BY Four
<1>2. PICK t \in Tags4, u \in Tags4 : /\ t = [id |-> s.id, index |-> delay - s.age]
                                      /\ u = [id |-> s.id, index |-> delay - s.age + 1]
  BY <1>1 DEF Tags4
<1>3. CASE ~Awaits(s)
  BY <1>2, <1>3 DEF TagsBefore
<1>4. CASE Awaits(s)
  <2>1. CASE p = <<t>>
    BY <1>2, <1>4, <2>1
  <2>2. CASE ~s.early /\ p = <<u>>
    BY <1>2, <1>4, <2>2
  <2> QED BY <1>2, <1>4, <2>1, <2>2 DEF TagsBefore, Waits
<1> QED BY <1>3, <1>4

(* One tag or none. *)
LEMMA OneOrNone ==
  ASSUME NEW t \in Tags4, NEW b
  PROVE  \E q \in Seq(Tags4) : q = IF b THEN <<t>> ELSE <<>>
<1>1. <<t>> \in Seq(Tags4)
  OBVIOUS
<1>2. <<>> \in Seq(Tags4)
  OBVIOUS
<1>3. CASE b
  BY <1>1, <1>3
<1>4. CASE ~b
  BY <1>2, <1>4
<1> QED BY <1>3, <1>4

(* The filter passes a sample. *)
LEMMA SampleKeeps ==
  ASSUME FourSamples, delay \in Delays, NEW x \in States4, NEW item \in Placed,
         NEW s \in Samples, s = item.sample,
         ClockBefore(x.clock, s), TagsBefore(x.tags, s)
  PROVE  \E y \in States4, sent \in Seq(Tags4) :
           /\ y = SYNC!F!Sample(x, item)
           /\ ClockAfter(y.clock, s) /\ TagsAfter(y.tags, s)
           /\ y.clock = IF x.clock = 3 THEN 0 ELSE x.clock + 1
           /\ IF x.clock = 0
                THEN y.out = Append(x.out, [item |-> item, tags |-> sent]) /\ Marks(sent, s)
                ELSE y.out = x.out /\ ~(s.id # 0 /\ s.age = SYNC!FirstSymbol(s))
<1>1. PICK c \in 0 .. 3, p \in Seq(Tags4), o \in Seq(Sent4) :
         x = [clock |-> c, tags |-> p, out |-> o]
  BY DEF States4
<1>2. PICK f \in Nat, a \in Nat, d \in Nat :
         /\ f = SYNC!FirstSymbol(s) /\ a = s.age /\ d = delay
         /\ f = IF s.early THEN d - 1 ELSE d
         /\ f > 0
  BY Four
<1>3. PICK t \in Tags4 : /\ t.id = s.id
                         /\ p = IF Awaits(s) THEN <<t>> ELSE <<>>
                         /\ t.index = d - a \/ (~s.early /\ t.index = d - a + 1)
                         /\ t = [id |-> s.id, index |-> t.index]
  BY <1>1, <1>2, WaitsBefore
<1>4. PICK b \in 0 .. 3 : b = IF c = 3 THEN 0 ELSE c + 1
  OBVIOUS
<1>5. SYNC!F!Tick(c) = b
  BY <1>4, Four DEF SYNC!F!Tick
<1>6. ClockAfter(b, s)
  <2>1. CASE s.id = 0
    BY <2>1 DEF ClockAfter
  <2>2. CASE s.id # 0
    <3>1. c = (a - f) % 4 /\ a - f \in Int /\ a + 1 - f = (a - f) + 1
      BY <1>1, <1>2, <2>2 DEF ClockBefore
    <3>2. (a + 1 - f) % 4 = b
      BY <1>4, <3>1, Fourth
    <3> QED BY <1>2, <3>2 DEF ClockAfter
  <2> QED BY <2>1, <2>2
<1>7. c # 0 => ~(s.id # 0 /\ a = f)
  BY <1>1, <1>2 DEF ClockBefore
<1>8. PICK n \in Int : n = t.index
  BY DEF Tags4
<1>9. t = [id |-> s.id, index |-> n] /\ s.id \in 0 .. ClockIds
  BY <1>3, <1>8, Four
<1>10. PICK v \in Tags4 : v = [id |-> s.id, index |-> n - 1]
  <2>1. [id |-> s.id, index |-> n - 1] \in Tags4
    BY <1>8, <1>9 DEF Tags4
  <2> QED BY <2>1
<1>11. PICK q \in Seq(Tags4) : q = IF Awaits(s) THEN <<v>> ELSE <<>>
  BY OneOrNone
<1>12. SYNC!F!Approach(p) = q
  <2>1. CASE Awaits(s)
    BY <1>3, <1>9, <1>10, <1>11, <2>1, ApproachIs
  <2>2. CASE ~Awaits(s)
    BY <1>3, <1>11, <2>2, ApproachIs
  <2> QED BY <2>1, <2>2
<1>13. n = d - a \/ (~s.early /\ n = d - a + 1)
  BY <1>3, <1>8
<1>14. Awaits(s) => (AwaitsAfter(s) <=> a # f)
  BY <1>2 DEF Awaits, AwaitsAfter
<1>15. AwaitsAfter(s) => Awaits(s)
  BY <1>2 DEF Awaits, AwaitsAfter
<1>16. AwaitsAfter(s) => TagsAfter(q, s)
  <2> SUFFICES ASSUME AwaitsAfter(s) PROVE TagsAfter(q, s)
    OBVIOUS
  <2>1. q = <<v>>
    BY <1>11, <1>15
  <2>2. n - 1 = d - a - 1 \/ (~s.early /\ n - 1 = d - a)
    BY <1>13
  <2> QED BY <1>2, <1>10, <2>1, <2>2 DEF TagsAfter, Waits
<1>17. CASE c # 0
  <2>1. PICK y : y = [clock |-> b, tags |-> q, out |-> o]
    OBVIOUS
  <2>2. SYNC!F!Sample(x, item) = y
    BY <1>1, <1>5, <1>12, <1>17, <2>1 DEF SYNC!F!Sample
  <2>3. y \in States4
    BY <2>1 DEF States4
  <2>4. TagsAfter(q, s)
    <3>1. CASE AwaitsAfter(s)
      BY <1>16, <3>1
    <3>2. CASE ~AwaitsAfter(s)
      <4>1. ~Awaits(s)
        BY <1>2, <1>7, <1>14, <1>17, <3>2 DEF Awaits
      <4> QED BY <1>11, <3>2, <4>1 DEF TagsAfter
    <3> QED BY <3>1, <3>2
  <2>5. <<>> \in Seq(Tags4)
    OBVIOUS
  <2>6. ~(s.id # 0 /\ s.age = SYNC!FirstSymbol(s))
    BY <1>2, <1>7, <1>17
  <2> QED BY <1>1, <1>4, <1>6, <1>17, <2>1, <2>2, <2>3, <2>4, <2>5, <2>6
<1>18. CASE c = 0
  <2>1. Awaits(s) => (n < 2 <=> a = f)
    <3> SUFFICES ASSUME Awaits(s) PROVE n < 2 <=> a = f
      OBVIOUS
    <3>1. a <= f /\ (a - f) % 4 = 0 /\ a - f \in Int
      BY <1>1, <1>2, <1>18 DEF Awaits, ClockBefore
    <3>2. a = f \/ a - f <= 0 - 4
      BY <3>1
    <3>3. n = d - a \/ n = d - a + 1
      BY <1>13
    <3>4. CASE s.early
      <4>1. f = d - 1 /\ n = d - a
        BY <1>2, <1>13, <3>4
      <4> QED BY <3>2, <4>1
    <3>5. CASE ~s.early
      <4>1. f = d
        BY <1>2, <3>5
      <4> QED BY <3>2, <3>3, <4>1
    <3> QED BY <3>4, <3>5
  <2>2. PICK sent \in Seq(Tags4) : sent = IF Awaits(s) /\ n < 2 THEN <<t>> ELSE <<>>
    BY OneOrNone
  <2>3. PICK r \in Seq(Tags4) : r = IF Awaits(s) /\ n < 2 THEN <<>> ELSE p
    <3>1. <<>> \in Seq(Tags4)
      OBVIOUS
    <3>2. CASE Awaits(s) /\ n < 2
      BY <3>1, <3>2
    <3>3. CASE ~(Awaits(s) /\ n < 2)
      BY <3>3
    <3> QED BY <3>2, <3>3
  <2>4. p = <<t>> <=> Awaits(s)
    BY <1>3
  <2>5. PICK g \in Seq(Sent4) : g = Append(o, [item |-> item, tags |-> sent])
    <3>1. [item |-> item, tags |-> sent] \in Sent4
      BY DEF Sent4
    <3>2. Append(o, [item |-> item, tags |-> sent]) \in Seq(Sent4)
      BY <3>1
    <3> QED BY <3>2
  <2>6. SYNC!F!Publish(x, item) = [clock |-> c, tags |-> r, out |-> g]
    <3>1. x.tags = <<>> \/ x.tags = <<t>>
      BY <1>1, <1>3
    <3>2. x.tags = <<t>> /\ t.index < 2 <=> Awaits(s) /\ n < 2
      BY <1>1, <1>8, <2>4
    <3> QED BY <1>1, <2>2, <2>3, <2>5, <3>1, <3>2, PublishIs
  <2>7. PICK z \in Seq(Tags4) : z = IF AwaitsAfter(s) THEN q ELSE <<>>
    <3>1. <<>> \in Seq(Tags4)
      OBVIOUS
    <3>2. CASE AwaitsAfter(s)
      BY <3>2
    <3>3. CASE ~AwaitsAfter(s)
      BY <3>1, <3>3
    <3> QED BY <3>2, <3>3
  <2>8. SYNC!F!Approach(r) = z
    <3>1. CASE AwaitsAfter(s)
      BY <1>2, <1>12, <1>14, <1>15, <2>1, <2>3, <2>7, <3>1
    <3>2. CASE ~AwaitsAfter(s)
      <4>1. r = <<>>
        BY <1>3, <1>14, <2>1, <2>3, <3>2
      <4> QED BY <2>7, <3>2, <4>1, ApproachIs
    <3> QED BY <3>1, <3>2
  <2>9. TagsAfter(z, s)
    BY <1>16, <2>7 DEF TagsAfter
  <2>10. PICK y : y = [clock |-> b, tags |-> z, out |-> g]
    OBVIOUS
  <2>11. SYNC!F!Sample(x, item) = y
    BY <1>1, <1>5, <1>18, <2>6, <2>8, <2>10 DEF SYNC!F!Sample
  <2>12. y \in States4
    BY <2>10 DEF States4
  <2>13. Marks(sent, s)
    <3>1. CASE s.id # 0 /\ a = f
      <4>1. Awaits(s)
        BY <1>2, <3>1 DEF Awaits
      <4>2. sent = <<t>>
        BY <2>1, <2>2, <3>1, <4>1
      <4>3. sent = Waits(s, n)
        BY <1>9, <4>2 DEF Waits
      <4> QED BY <1>2, <3>1, <4>3 DEF Marks
    <3>2. CASE ~(s.id # 0 /\ a = f)
      <4>1. ~(Awaits(s) /\ n < 2)
        BY <2>1, <3>2 DEF Awaits
      <4> QED BY <1>2, <2>2, <3>2, <4>1 DEF Marks
    <3> QED BY <3>1, <3>2
  <2>14. y.out = Append(x.out, [item |-> item, tags |-> sent])
    BY <1>1, <2>5, <2>10
  <2>15. ClockAfter(y.clock, s) /\ TagsAfter(y.tags, s) /\ y.clock = b
    BY <1>6, <2>9, <2>10
  <2>16. x.clock = 0
    BY <1>1, <1>18
  <2>17. y.clock = IF x.clock = 3 THEN 0 ELSE x.clock + 1
    BY <1>4, <1>18, <2>15, <2>16
  <2> QED BY <2>11, <2>12, <2>13, <2>14, <2>15, <2>16, <2>17
<1> QED BY <1>17, <1>18

(* A sample that comes after another, not a detection. *)
LEMMA NextSample4 ==
  ASSUME FourSamples, delay \in Delays, NEW a \in Samples,
         NEW c, ClockAfter(c, a), NEW p, TagsAfter(p, a)
  PROVE  LET s == SYNC!After(a)
         IN /\ s \in Samples /\ s.age > 0
            /\ ClockBefore(c, s) /\ TagsBefore(p, s)
            /\ \A d : DriftAfter(d, c, a) => DriftBefore(d, c, s)
<1>1. PICK s \in Samples : s = SYNC!After(a)
  BY AfterIs
<1>2. /\ s.id = a.id /\ s.early = a.early /\ s.age > 0
      /\ s.age = IF a.age = MinGap + 3 THEN MinGap ELSE a.age + 1
  BY <1>1, AfterIs, Four
<1>3. PICK f \in Nat, x \in Nat, y \in Nat, g \in Nat, d \in Nat :
         /\ f = SYNC!FirstSymbol(a) /\ x = a.age /\ y = s.age /\ g = MinGap /\ d = delay
         /\ f = SYNC!FirstSymbol(s)
         /\ f = IF a.early THEN d - 1 ELSE d
         /\ g > d + 4 /\ d > 0 /\ f > 0
         /\ y = IF x = g + 3 THEN g ELSE x + 1
  <2>1. SYNC!FirstSymbol(s) = SYNC!FirstSymbol(a)
    BY <1>2 DEF SYNC!FirstSymbol
  <2> QED BY <1>2, <2>1, Four
<1>4. ClockBefore(c, s)
  <2>1. CASE s.id = 0
    BY <1>2, <2>1 DEF ClockBefore, ClockAfter
  <2>2. CASE s.id # 0
    <3>1. c = (x + 1 - f) % 4
      BY <1>2, <1>3, <2>2 DEF ClockAfter
    <3>2. (x + 1 - f) % 4 = (y - f) % 4
      <4>1. CASE x # g + 3
        BY <1>3, <4>1
      <4>2. CASE x = g + 3
        <5>1. x + 1 - f = (y - f) + 4 /\ y - f \in Int
          BY <1>3, <4>2
        <5> QED BY <5>1, Fourth
      <4> QED BY <4>1, <4>2
    <3> QED BY <1>3, <3>1, <3>2 DEF ClockBefore, ClockAfter
  <2> QED BY <2>1, <2>2
<1>5. AwaitsAfter(a) <=> Awaits(s)
  BY <1>2, <1>3 DEF AwaitsAfter, Awaits
<1>6. AwaitsAfter(a) => y = x + 1
  BY <1>3 DEF AwaitsAfter
<1>7. TagsBefore(p, s)
  <2>1. CASE AwaitsAfter(a)
    <3>1. d - y = d - x - 1 /\ d - y + 1 = d - x
      BY <1>3, <1>6, <2>1
    <3> QED BY <1>2, <1>3, <1>5, <2>1, <3>1 DEF TagsAfter, TagsBefore, Waits
  <2>2. CASE ~AwaitsAfter(a)
    BY <1>5, <2>2 DEF TagsAfter, TagsBefore
  <2> QED BY <2>1, <2>2
<1>8. \A e : DriftAfter(e, c, a) => DriftBefore(e, c, s)
  BY <1>5 DEF DriftAfter, DriftBefore
<1> QED BY <1>1, <1>2, <1>4, <1>7, <1>8

(* What a sample does to the drift. *)
DriftTo(d, took, sent, clock, s) ==
  LET e == d + 1 - (IF took THEN 4 ELSE 0)
  IN IF took /\ sent # <<>>
       THEN e \in -2 .. 2 /\ DriftAfter(0, clock, s)
       ELSE DriftAfter(e, clock, s)

(* The drift is what it is to be after a sample. *)
LEMMA DriftKeeps ==
  ASSUME FourSamples, delay \in Delays, NEW s \in Samples,
         NEW c \in 0 .. 3, ClockBefore(c, s), NEW d, DriftBefore(d, c, s),
         NEW sent, c = 0 => Marks(sent, s),
         c # 0 => ~(s.id # 0 /\ s.age = SYNC!FirstSymbol(s)),
         NEW b, b = IF c = 3 THEN 0 ELSE c + 1
  PROVE  DriftTo(d, c = 0, sent, b, s)
<1>1. PICK f \in Nat, a \in Nat : f = SYNC!FirstSymbol(s) /\ a = s.age /\ f > 0
  BY Four
<1>2. PICK h \in 0 .. 3, i \in 0 .. 3 : h = Phase(c) /\ i = Phase(b)
                       /\ i = (IF c = 0 THEN 0 ELSE h + 1) /\ (c = 0 => h = 3)
  <2>1. b \in 0 .. 3
    OBVIOUS
  <2>2. Phase(c) = (IF c = 0 THEN 3 ELSE c - 1) /\ Phase(b) = (IF b = 0 THEN 3 ELSE b - 1)
    BY <2>1, PhaseIs
  <2> QED BY <2>1, <2>2
<1>3. AwaitsAfter(s) <=> Awaits(s) /\ a # f
  BY <1>1 DEF Awaits, AwaitsAfter
<1>4. PICK e \in Int : e = d
  BY <1>2 DEF DriftBefore
<1>5. CASE s.id # 0 /\ a = f
  <2>1. c = 0 /\ sent # <<>>
    <3>1. c = 0
      BY <1>1, <1>5
    <3>2. \E index \in Int : sent = Waits(s, index)
      BY <1>1, <1>5, <3>1 DEF Marks
    <3>3. \A index : Waits(s, index) # <<>>
      BY DEF Waits
    <3> QED BY <3>1, <3>2, <3>3
  <2>2. Awaits(s) /\ ~AwaitsAfter(s)
    BY <1>1, <1>3, <1>5 DEF Awaits
  <2>3. e - 3 \in -2 .. 2
    BY <1>2, <1>4, <2>1, <2>2 DEF DriftBefore
  <2>4. e + 1 - 4 = e - 3
    OBVIOUS
  <2>5. DriftAfter(0, b, s)
    BY <1>2, <2>1, <2>2 DEF DriftAfter
  <2> QED BY <1>4, <2>1, <2>3, <2>4, <2>5 DEF DriftTo
<1>6. CASE ~(s.id # 0 /\ a = f)
  <2>1. c = 0 => sent = <<>>
    BY <1>1, <1>6 DEF Marks
  <2>2. AwaitsAfter(s) <=> Awaits(s)
    BY <1>1, <1>3, <1>6 DEF Awaits
  <2>3. PICK u \in Int : u = e + 1 - (IF c = 0 THEN 4 ELSE 0)
    <3>1. e + 1 - 4 \in Int /\ e + 1 - 0 \in Int
      OBVIOUS
    <3>2. CASE c = 0
      BY <3>1, <3>2
    <3>3. CASE c # 0
      BY <3>1, <3>3
    <3> QED BY <3>2, <3>3
  <2>4. u - i = e - h
    BY <1>2, <2>3
  <2>5. CASE Awaits(s)
    <3>1. e - h \in -2 .. 2
      BY <1>2, <1>4, <2>5 DEF DriftBefore
    <3>2. DriftAfter(u, b, s)
      BY <1>2, <2>2, <2>4, <2>5, <3>1 DEF DriftAfter
    <3> QED BY <1>4, <2>1, <2>3, <3>2 DEF DriftTo
  <2>6. CASE ~Awaits(s)
    <3>1. e = h
      BY <1>2, <1>4, <2>6 DEF DriftBefore
    <3>2. u = i
      BY <2>4, <3>1
    <3>3. DriftAfter(u, b, s)
      BY <1>2, <2>2, <2>6, <3>2 DEF DriftAfter
    <3> QED BY <1>4, <2>1, <2>3, <3>3 DEF DriftTo
  <2> QED BY <2>5, <2>6
<1> QED BY <1>5, <1>6

(* A sample item after sample a, from state x to state y. *)
Step4(a, x, y, item, took, sent) ==
  LET s == item.sample
  IN /\ ClockAfter(y.clock, s) /\ TagsAfter(y.tags, s)
     /\ y.out = IF took THEN Append(x.out, [item |-> item, tags |-> sent]) ELSE x.out
     /\ took => Marks(sent, s)
     /\ s.id # 0 /\ s.age >= SYNC!FirstSymbol(s) =>
          (took <=> (s.age - SYNC!FirstSymbol(s)) % 4 = 0)
     /\ \A d : DriftAfter(d, x.clock, a) => DriftTo(d, took, sent, y.clock, s)

(* A step of the loop on a sample, given its drift before. *)
LEMMA LoopStep4 ==
  ASSUME FourSamples, delay \in Delays, NEW a \in Samples, NEW x \in States4, NEW item \in Placed,
         item.sample \in Samples, ClockBefore(x.clock, item.sample), TagsBefore(x.tags, item.sample),
         NEW v, v.out = x.out,
         \A d : DriftAfter(d, v.clock, a) => DriftBefore(d, x.clock, item.sample)
  PROVE  \E y \in States4, took \in BOOLEAN, sent \in Seq(Tags4) :
           y = SYNC!F!Sample(x, item) /\ Step4(a, v, y, item, took, sent)
<1>1. PICK s \in Samples : s = item.sample
  OBVIOUS
<1>2. PICK y \in States4, sent \in Seq(Tags4) :
           /\ y = SYNC!F!Sample(x, item)
           /\ ClockAfter(y.clock, s) /\ TagsAfter(y.tags, s)
           /\ y.clock = IF x.clock = 3 THEN 0 ELSE x.clock + 1
           /\ IF x.clock = 0
                THEN y.out = Append(x.out, [item |-> item, tags |-> sent]) /\ Marks(sent, s)
                ELSE y.out = x.out /\ ~(s.id # 0 /\ s.age = SYNC!FirstSymbol(s))
  BY <1>1, SampleKeeps
<1>3. PICK took \in BOOLEAN : took = (x.clock = 0)
  OBVIOUS
<1>4. x.clock \in 0 .. 3
  BY DEF States4
<1>5. \A d : DriftAfter(d, v.clock, a) => DriftTo(d, took, sent, y.clock, s)
  <2>1. ASSUME NEW d, DriftAfter(d, v.clock, a)
        PROVE  DriftTo(d, x.clock = 0, sent, y.clock, s)
    <3>1. DriftBefore(d, x.clock, s)
      BY <1>1, <2>1
    <3>2. ClockBefore(x.clock, s)
      BY <1>1
    <3>3. x.clock = 0 => Marks(sent, s)
      BY <1>2
    <3>4. x.clock # 0 => ~(s.id # 0 /\ s.age = SYNC!FirstSymbol(s))
      BY <1>2
    <3>5. y.clock = IF x.clock = 3 THEN 0 ELSE x.clock + 1
      BY <1>2
    <3> QED BY <1>4, <3>1, <3>2, <3>3, <3>4, <3>5, DriftKeeps
  <2> QED BY <1>3, <2>1
<1>6. s.id # 0 => (took <=> (s.age - SYNC!FirstSymbol(s)) % 4 = 0)
  BY <1>1, <1>3 DEF ClockBefore
<1>7. y.out = IF took THEN Append(v.out, [item |-> item, tags |-> sent]) ELSE v.out
  BY <1>2, <1>3
<1>8. took => Marks(sent, s)
  BY <1>2, <1>3
<1>9. Step4(a, v, y, item, took, sent)
  BY <1>1, <1>2, <1>5, <1>6, <1>7, <1>8 DEF Step4
<1> QED BY <1>2, <1>9

(* The state of the filter between calls, as that of its loop. *)
Now4 == [clock |-> clock_phase, tags |-> tags, out |-> <<>>]

(* The states with at most one tag. *)
Shorts == {x \in States4 : x.tags = <<>> \/ \E t \in Tags4 : x.tags = <<t>>}

(* The tag of a detection. *)
LEMMA Pending ==
  ASSUME NEW s \in Samples, NEW n \in Int
  PROVE  /\ SYNC!F!Pend(<<>>, s.id, n) = Waits(s, n)
         /\ Waits(s, n) \in Seq(Tags4)
         /\ \E t \in Tags4 : Waits(s, n) = <<t>>
<1>1. PICK t : t = [id |-> s.id, index |-> n]
  OBVIOUS
<1>2. t \in Tags4
  BY <1>1 DEF Tags4, Samples
<1>3. <<t>> \in Seq(Tags4) /\ Append(<<>>, t) = <<t>>
  BY <1>2
<1> QED BY <1>1, <1>2, <1>3 DEF SYNC!F!Pend, Waits

(* The clock of a detection. *)
LEMMA NewClock ==
  ASSUME FourSamples, delay \in Delays, NEW s \in Samples
  PROVE  /\ SYNC!F!NewClockPhase(s.early) = (0 - SYNC!FirstSymbol(s)) % 4
         /\ SYNC!F!NewClockPhase(s.early) \in 0 .. 3
         /\ s.early => SYNC!F!NewClockPhase(s.early) # 0
<1>1. PICK d \in Nat : d = delay /\ d % 4 # 1 /\ d > 0
  BY Four
<1>2. SYNC!F!NewClockPhase(s.early) = (((-d) % 4) + (IF s.early THEN 1 ELSE 0)) % 4
  BY <1>1, Four DEF SYNC!F!NewClockPhase, SYNC!F!ResetClockPhase
<1>3. SYNC!FirstSymbol(s) = IF s.early THEN d - 1 ELSE d
  BY <1>1, Four
<1>4. CASE s.early
  <2>1. PICK r \in 0 .. 3 : r = (-d) % 4
    OBVIOUS
  <2>2. r # 3
    BY <1>1, <2>1
  <2>3. -(d - 1) = (-d) + 1
    OBVIOUS
  <2>4. (0 - (d - 1)) % 4 = r + 1
    BY <1>1, <2>1, <2>2
  <2>5. (r + 1) % 4 = r + 1 /\ r + 1 \in 0 .. 3 /\ r + 1 # 0
    BY <2>2
  <2> QED BY <1>2, <1>3, <1>4, <2>1, <2>4, <2>5
<1>5. CASE ~s.early
  <2>1. PICK r \in 0 .. 3 : r = (-d) % 4
    OBVIOUS
  <2>2. (r + 0) % 4 = r /\ (0 - d) % 4 = r
    BY <2>1
  <2> QED BY <1>2, <1>3, <1>5, <2>1, <2>2
<1> QED BY <1>4, <1>5

(* A detection of the filter and its sample. *)
LEMMA DetectKeeps ==
  ASSUME FourSamples, delay \in Delays, NEW b \in Samples, b.age >= MinGap - 1,
         ClockAfter(clock_phase, b), TagsAfter(tags, b),
         NEW items \in Seq(Placed), items # <<>>, NEW s \in Samples, s = items[1].sample,
         s.age = 0, s.id # 0
  PROVE  \E y \in States4, took \in BOOLEAN, sent \in Seq(Tags4) :
           /\ Step4(b, Now4, y, items[1], took, sent)
           /\ \/ y \in Shorts /\ SYNC!F!Detect(Now4, items, s.id, s.early)
                                   = [state |-> y, chunk |-> Tail(items)]
              \/ \E z \in Shorts :
                   /\ SYNC!F!Detect(Now4, items, s.id, s.early) = [state |-> z, chunk |-> items]
                   /\ y = SYNC!F!Sample(z, items[1])
<1>1. PICK f \in Nat, d \in Nat :
         /\ f = SYNC!FirstSymbol(s) /\ d = delay
         /\ f = (IF s.early THEN d - 1 ELSE d) /\ f > 0 /\ d > 0
  BY Four
<1>2. ~AwaitsAfter(b)
  <2>1. PICK g \in Nat, a \in Nat, h \in Nat :
           /\ g = MinGap /\ a = b.age /\ h = SYNC!FirstSymbol(b)
           /\ h = (IF b.early THEN d - 1 ELSE d) /\ g > d + 4
    BY <1>1, Four
  <2>2. ~(a < h)
    BY <1>1, <2>1
  <2> QED BY <2>1, <2>2 DEF AwaitsAfter
<1>3. tags = <<>>
  BY <1>2 DEF TagsAfter
<1>4. PICK c \in 0 .. 3 : c = clock_phase
  BY DEF ClockAfter
<1>5. PICK new \in 0 .. 3 : /\ new = SYNC!F!NewClockPhase(s.early) /\ new = (0 - f) % 4
                            /\ s.early => new # 0
  BY <1>1, NewClock
<1>6. AwaitsAfter(s) /\ Awaits(s)
  BY <1>1 DEF AwaitsAfter, Awaits
<1>7. \A e : DriftAfter(e, c, b) => e = Phase(c)
  BY <1>2 DEF DriftAfter
<1>8. PICK item \in Placed : item = items[1]
  OBVIOUS
<1>0. <<>> \in Seq(Tags4) /\ <<>> \in Seq(Sent4)
  OBVIOUS
<1>9. PICK x \in States4 : x = Now4 /\ x = [clock |-> c, tags |-> <<>>, out |-> <<>>]
  BY <1>0, <1>3, <1>4 DEF Now4, States4
<1>10. ~(s.age >= SYNC!FirstSymbol(s))
  BY <1>1
<1>11. CASE SYNC!F!Skips(new)
  <2>1. c = 0 /\ new = 1
    BY <1>4, <1>11 DEF SYNC!F!Skips
  <2>2. PICK t \in Tags4 : TRUE
    BY <1>1, Pending
  <2>3. SYNC!F!Publish(x, item)
          = [clock |-> c, tags |-> <<>>,
             out |-> Append(<<>>, [item |-> item, tags |-> <<>>])]
    <3>1. x.tags = <<>> /\ x.tags # <<t>> /\ x.clock = c /\ x.out = <<>>
      BY <1>9
    <3> QED BY <3>1, PublishIs
  <2>4. PICK o \in Seq(Sent4) : o = Append(<<>>, [item |-> item, tags |-> <<>>])
    <3>1. <<>> \in Seq(Tags4)
      OBVIOUS
    <3>2. [item |-> item, tags |-> <<>>] \in Sent4
      BY <3>1 DEF Sent4
    <3>3. Append(<<>>, [item |-> item, tags |-> <<>>]) \in Seq(Sent4)
      BY <3>2
    <3> QED BY <3>3
  <2>5. PICK p \in Seq(Tags4) : /\ p = Waits(s, d - 1)
                                /\ p = SYNC!F!Pend(SYNC!F!Approach(<<>>), s.id, d - 1)
                                /\ \E u \in Tags4 : p = <<u>>
    <3>1. d - 1 \in Int
      OBVIOUS
    <3> QED BY <3>1, Pending, ApproachIs
  <2>6. PICK y : y = [clock |-> 2, tags |-> p, out |-> o]
    OBVIOUS
  <2>7. y \in States4 /\ y \in Shorts
    <3>1. y \in States4
      <4>1. 2 \in 0 .. 3
        OBVIOUS
      <4> QED BY <2>5, <2>6, <4>1 DEF States4
    <3> QED BY <2>5, <2>6, <3>1 DEF Shorts
  <2>8. SYNC!F!Detect(x, items, s.id, s.early) = [state |-> y, chunk |-> Tail(items)]
    <3>1. PICK pub : pub = SYNC!F!Publish(x, items[1])
      OBVIOUS
    <3>2. pub.out = o /\ pub.tags = <<>>
      BY <1>8, <2>3, <2>4, <3>1
    <3>3. SYNC!F!Skips(SYNC!F!NewClockPhase(s.early))
      BY <1>5, <1>11
    <3>4. SYNC!F!Detect(x, items, s.id, s.early)
            = [state |-> [clock |-> SYNC!F!NewClockPhase(s.early) + 1, out |-> pub.out,
                          tags  |-> SYNC!F!Pend(SYNC!F!Approach(pub.tags), s.id, delay - 1)],
               chunk |-> Tail(items)]
      BY <3>1, <3>3 DEF SYNC!F!Detect
    <3>5. SYNC!F!NewClockPhase(s.early) + 1 = 2
      BY <1>5, <2>1
    <3>6. SYNC!F!Pend(SYNC!F!Approach(pub.tags), s.id, delay - 1) = p
      BY <1>1, <2>5, <3>2
    <3>7. y = [clock |-> 2, out |-> o, tags |-> p]
      BY <2>6
    <3> QED BY <3>2, <3>4, <3>5, <3>6, <3>7, Zenon
  <2>9. ClockAfter(2, s)
    <3>1. PICK r \in Int : r = 0 - f /\ 0 + 1 - f = r + 1
      OBVIOUS
    <3>2. (r + 1) % 4 = IF r % 4 = 3 THEN 0 ELSE (r % 4) + 1
      BY Fourth
    <3>3. (0 + 1 - f) % 4 = 2
      BY <1>5, <2>1, <3>1, <3>2
    <3> QED BY <1>1, <3>3 DEF ClockAfter
  <2>10. TagsAfter(p, s)
    <3>1. d - 0 - 1 = d - 1
      OBVIOUS
    <3> QED BY <1>1, <1>6, <2>5, <3>1 DEF TagsAfter
  <2>11. \A e : DriftAfter(e, c, b) => DriftTo(e, TRUE, <<>>, 2, s)
    <3>1. Phase(c) = 3 /\ Phase(2) = 1
      BY <2>1, PhaseIs
    <3>2. 3 + 1 - 4 = 0 /\ 0 - 1 \in -2 .. 2
      OBVIOUS
    <3>3. DriftAfter(0, 2, s)
      BY <1>6, <3>1, <3>2 DEF DriftAfter
    <3> QED BY <1>7, <3>1, <3>2, <3>3 DEF DriftTo
  <2>12. Marks(<<>>, s)
    BY <1>10, <1>1 DEF Marks
  <2>13. Step4(b, x, y, item, TRUE, <<>>)
    <3>1. item.sample = s
      BY <1>8
    <3>2. y.clock = 2 /\ y.tags = p /\ y.out = o
      BY <2>6
    <3>3. x.out = <<>> /\ x.clock = c
      BY <1>9
    <3> QED BY <1>10, <2>4, <2>9, <2>10, <2>11, <2>12, <3>1, <3>2, <3>3 DEF Step4
  <2>14. <<>> \in Seq(Tags4)
    OBVIOUS
  <2> QED BY <1>8, <1>9, <2>7, <2>8, <2>13, <2>14
<1>12. CASE ~SYNC!F!Skips(new) /\ SYNC!F!Repeats(new)
  <2>1. c = 1 /\ new = 0 /\ ~s.early
    BY <1>4, <1>5, <1>12 DEF SYNC!F!Repeats
  <2>5. PICK p \in Seq(Tags4) : /\ p = Waits(s, d)
                                /\ p = SYNC!F!Pend(<<>>, s.id, d)
                                /\ \E u \in Tags4 : p = <<u>>
    <3>1. d \in Int
      OBVIOUS
    <3> QED BY <3>1, Pending
  <2>6. PICK y : y = [clock |-> 1, tags |-> p, out |-> <<>>]
    OBVIOUS
  <2>7. y \in States4 /\ y \in Shorts
    <3>1. y \in States4
      <4>1. 1 \in 0 .. 3
        OBVIOUS
      <4> QED BY <1>0, <2>5, <2>6, <4>1 DEF States4
    <3> QED BY <2>5, <2>6, <3>1 DEF Shorts
  <2>8. SYNC!F!Detect(x, items, s.id, s.early) = [state |-> y, chunk |-> Tail(items)]
    <3>1. x.out = <<>> /\ x.tags = <<>>
      BY <1>9
    <3>2. new + 1 = 1 /\ delay = d
      BY <1>1, <2>1
    <3>3. /\ ~SYNC!F!Skips(SYNC!F!NewClockPhase(s.early))
          /\ SYNC!F!Repeats(SYNC!F!NewClockPhase(s.early))
      BY <1>5, <1>12
    <3> QED BY <1>5, <2>5, <2>6, <3>1, <3>2, <3>3 DEF SYNC!F!Detect
  <2>9. ClockAfter(1, s)
    <3>1. PICK r \in Int : r = 0 - f /\ 0 + 1 - f = r + 1
      OBVIOUS
    <3>2. (r + 1) % 4 = IF r % 4 = 3 THEN 0 ELSE (r % 4) + 1
      BY Fourth
    <3>3. (0 + 1 - f) % 4 = 1
      BY <1>5, <2>1, <3>1, <3>2
    <3> QED BY <1>1, <3>3 DEF ClockAfter
  <2>10. TagsAfter(p, s)
    <3>1. d - 0 = d
      OBVIOUS
    <3> QED BY <1>1, <1>6, <2>1, <2>5, <3>1 DEF TagsAfter
  <2>11. \A e : DriftAfter(e, c, b) => DriftTo(e, FALSE, <<>>, 1, s)
    <3>1. Phase(c) = 0 /\ Phase(1) = 0
      BY <2>1, PhaseIs
    <3>2. 0 + 1 - 0 = 1 /\ 1 - 0 \in -2 .. 2
      OBVIOUS
    <3>3. DriftAfter(1, 1, s)
      BY <1>6, <3>1, <3>2 DEF DriftAfter
    <3> QED BY <1>7, <3>1, <3>2, <3>3 DEF DriftTo
  <2>12. y.out = x.out /\ y.tags = p /\ y.clock = 1
    BY <1>9, <2>6
  <2>13. Step4(b, x, y, item, FALSE, <<>>)
    <3>1. item.sample = s
      BY <1>8
    <3>2. x.clock = c
      BY <1>9
    <3> QED BY <1>10, <2>9, <2>10, <2>11, <2>12, <3>1, <3>2 DEF Step4
  <2>14. <<>> \in Seq(Tags4)
    OBVIOUS
  <2> QED BY <1>8, <1>9, <2>7, <2>8, <2>13, <2>14
<1>13. CASE ~SYNC!F!Skips(new) /\ ~SYNC!F!Repeats(new)
  <2>1. ~(c = 0 /\ new = 1) /\ ~(c = 1 /\ new = 0)
    BY <1>4, <1>13 DEF SYNC!F!Repeats, SYNC!F!Skips
  <2>5. PICK p \in Seq(Tags4) : /\ p = Waits(s, d)
                                /\ p = SYNC!F!Pend(<<>>, s.id, d)
                                /\ \E u \in Tags4 : p = <<u>>
    <3>1. d \in Int
      OBVIOUS
    <3> QED BY <3>1, Pending
  <2>6. PICK z : z = [clock |-> new, tags |-> p, out |-> <<>>]
    OBVIOUS
  <2>7. z \in States4 /\ z \in Shorts
    <3>1. z \in States4
      BY <1>0, <2>5, <2>6 DEF States4
    <3> QED BY <2>5, <2>6, <3>1 DEF Shorts
  <2>8. SYNC!F!Detect(x, items, s.id, s.early) = [state |-> z, chunk |-> items]
    <3>1. x.out = <<>> /\ x.tags = <<>> /\ delay = d
      BY <1>1, <1>9
    <3>3. /\ ~SYNC!F!Skips(SYNC!F!NewClockPhase(s.early))
          /\ ~SYNC!F!Repeats(SYNC!F!NewClockPhase(s.early))
      BY <1>5, <1>13
    <3> QED BY <1>5, <2>5, <2>6, <3>1, <3>3 DEF SYNC!F!Detect
  <2>9. ClockBefore(z.clock, s)
    BY <1>1, <1>5, <2>6 DEF ClockBefore
  <2>10. TagsBefore(z.tags, s)
    <3>1. d - 0 = d
      OBVIOUS
    <3> QED BY <1>1, <1>6, <2>5, <2>6, <3>1 DEF TagsBefore
  <2>11. \A e : DriftAfter(e, c, b) => DriftBefore(e, z.clock, s)
    <3>1. PICK h \in 0 .. 3, i \in 0 .. 3 :
             /\ h = Phase(c) /\ i = Phase(new)
             /\ h = (IF c = 0 THEN 3 ELSE c - 1) /\ i = (IF new = 0 THEN 3 ELSE new - 1)
      <4>1. (IF c = 0 THEN 3 ELSE c - 1) \in 0 .. 3 /\ (IF new = 0 THEN 3 ELSE new - 1) \in 0 .. 3
        OBVIOUS
      <4> QED BY <4>1, PhaseIs
    <3>2. h - i \in -2 .. 2
      BY <2>1, <3>1
    <3>3. DriftBefore(h, new, s)
      BY <1>6, <3>1, <3>2 DEF DriftBefore
    <3> QED BY <1>7, <2>6, <3>1, <3>3
  <2>12. PICK y \in States4, took \in BOOLEAN, sent \in Seq(Tags4) :
           y = SYNC!F!Sample(z, item) /\ Step4(b, x, y, item, took, sent)
    <3>1. item.sample = s /\ x.out = z.out /\ x.clock = c
      BY <1>8, <1>9, <2>6
    <3> QED BY <2>7, <2>9, <2>10, <2>11, <3>1, LoopStep4
  <2> QED BY <1>8, <1>9, <2>7, <2>8, <2>12
<1> QED BY <1>11, <1>12, <1>13

(* The loop keeps to states with at most one tag. *)
LEMMA SampleCloses ==
  ASSUME FourSamples, delay \in Delays, NEW x \in Shorts, NEW item \in Placed
  PROVE  SYNC!F!Sample(x, item) \in Shorts
<1>1. PICK c \in 0 .. 3, p \in Seq(Tags4), o \in Seq(Sent4) :
         x = [clock |-> c, tags |-> p, out |-> o]
  BY DEF Shorts, States4
<1>2. PICK t \in Tags4 : p = <<>> \/ p = <<t>>
  <2>1. CASE p = <<>>
    <3>1. [id |-> 0, index |-> 0] \in Tags4
      BY ClockSizes DEF Tags4
    <3> QED BY <2>1, <3>1
  <2>2. CASE p # <<>>
    BY <1>1, <2>2 DEF Shorts
  <2> QED BY <2>1, <2>2
<1>3. PICK b \in 0 .. 3 : b = SYNC!F!Tick(c)
  <2>1. SYNC!F!Tick(c) = IF c = 3 THEN 0 ELSE c + 1
    BY Four DEF SYNC!F!Tick
  <2>2. (IF c = 3 THEN 0 ELSE c + 1) \in 0 .. 3
    OBVIOUS
  <2> QED BY <2>1, <2>2
<1>4. <<>> \in Seq(Tags4) /\ <<t>> \in Seq(Tags4)
  OBVIOUS
<1>5. PICK y : y = IF x.clock = 0 THEN SYNC!F!Publish(x, item) ELSE x
  OBVIOUS
<1>6. PICK q \in Seq(Tags4), r \in Seq(Sent4) : /\ y.tags = q /\ y.out = r /\ (q = <<>> \/ q = <<t>>)
  <2>1. CASE c # 0
    BY <1>1, <1>2, <1>5, <2>1
  <2>2. CASE c = 0
    <3>1. x \in States4
      BY DEF Shorts
    <3>2. PICK goes \in BOOLEAN : goes = (x.tags = <<t>> /\ t.index < 2)
      OBVIOUS
    <3>3. y = [clock |-> c, tags |-> IF goes THEN <<>> ELSE p,
               out |-> Append(o, [item |-> item, tags |-> IF goes THEN <<t>> ELSE <<>>])]
      BY <1>1, <1>2, <1>5, <2>2, <3>1, <3>2, PublishIs
    <3>4. PICK sent \in Seq(Tags4), left \in Seq(Tags4) :
             /\ sent = (IF goes THEN <<t>> ELSE <<>>)
             /\ left = (IF goes THEN <<>> ELSE p) /\ (left = <<>> \/ left = <<t>>)
      <4>1. CASE goes
        BY <1>4, <4>1
      <4>2. CASE ~goes
        BY <1>2, <1>4, <4>2
      <4> QED BY <4>1, <4>2
    <3>5. [item |-> item, tags |-> sent] \in Sent4
      BY DEF Sent4
    <3>6. Append(o, [item |-> item, tags |-> sent]) \in Seq(Sent4)
      BY <3>5
    <3> QED BY <3>3, <3>4, <3>6
  <2> QED BY <2>1, <2>2
<1>7. SYNC!F!Sample(x, item) = [clock |-> b, tags |-> SYNC!F!Approach(q), out |-> r]
  BY <1>1, <1>3, <1>5, <1>6 DEF SYNC!F!Sample
<1>8. PICK z \in Seq(Tags4) : z = SYNC!F!Approach(q) /\ (z = <<>> \/ \E u \in Tags4 : z = <<u>>)
  <2>1. CASE q = <<>>
    BY <1>4, <2>1, ApproachIs
  <2>2. CASE q = <<t>>
    <3>1. PICK i \in 0 .. ClockIds, n \in Int : t = [id |-> i, index |-> n]
      BY DEF Tags4
    <3>2. [id |-> i, index |-> n - 1] \in Tags4
      BY <3>1 DEF Tags4
    <3>3. PICK u \in Tags4 : u = [id |-> i, index |-> n - 1]
      BY <3>2
    <3>4. <<u>> \in Seq(Tags4)
      OBVIOUS
    <3>5. SYNC!F!Approach(q) = <<u>>
      BY <2>2, <3>1, <3>3, ApproachIs
    <3> QED BY <3>4, <3>5
  <2> QED BY <1>6, <2>1, <2>2
<1>9. [clock |-> b, tags |-> z, out |-> r] \in States4
  BY DEF States4
<1> QED BY <1>7, <1>8, <1>9 DEF Shorts

(* The end of the loop, and its states. *)
Looped(start, rest) == SYNC!F!FoldLeft(SYNC!F!Sample, start, rest)
Loops4(w, start, rest) ==
  /\ w[0] = start
  /\ \A k \in 1 .. Len(rest) : w[k] = SYNC!F!Sample(w[k - 1], rest[k])
  /\ Looped(start, rest) = w[Len(rest)]

(* The loop of a call takes sample by sample. *)
LEMMA LoopFolds ==
  ASSUME FourSamples, delay \in Delays, NEW start \in Shorts, NEW rest \in Seq(Placed)
  PROVE  \E w : Loops4(w, start, rest)
<1>0. PICK n \in Nat : n = Len(rest)
  OBVIOUS
<1> DEFINE S == 1 .. n
           op(it, s) == IF s = {} THEN start
                        ELSE SYNC!F!Sample(it[s \ {SYNC!F!Max(s)}], rest[SYNC!F!Max(s)])
           iter == CHOOSE it : it = [s \in SUBSET S |-> op(it, s)]
<1>1. Looped(start, rest) = iter[S]
  <2>1. DOMAIN rest = S
    BY <1>0
  <2> QED BY <2>1 DEF Looped, SYNC!F!FoldLeft, SYNC!F!MapThenFoldSet
<1>2. \A s : SYNC!F!Max(s) = Greatest(s)
  BY DEF SYNC!F!Max, Greatest
<1>3. PICK step : step = [p \in Shorts \X (1 .. n) |-> SYNC!F!Sample(p[1], rest[p[2]])]
  OBVIOUS
<1>4. \A k \in 1 .. n : rest[k] \in Placed
  BY <1>0
<1>5. step \in [Shorts \X (1 .. n) -> Shorts]
  <2>1. ASSUME NEW p \in Shorts \X (1 .. n)
        PROVE  SYNC!F!Sample(p[1], rest[p[2]]) \in Shorts
    <3>1. p[1] \in Shorts /\ rest[p[2]] \in Placed
      BY <1>4
    <3> QED BY <3>1, SampleCloses
  <2> QED BY <1>3, <2>1
<1>7. PICK v : /\ v = [s \in SUBSET S |-> FoldOver(v, s, start, step)]
               /\ \A s \in SUBSET S : v[s] \in Shorts
  <2>1. 1 \in Nat \ {0} /\ n \in Nat
    OBVIOUS
  <2>2. \E v : FoldedFrom(v, 1, n, Shorts, start, step)
    <3> HIDE DEF Shorts
    <3> QED BY <1>5, <2>1, FoldsFrom
  <2> QED BY <2>2 DEF FoldedFrom
<1>8. ASSUME NEW s \in SUBSET S
      PROVE  FoldOver(v, s, start, step) = op(v, s)
  <2>1. CASE s = {}
    BY <2>1 DEF FoldOver
  <2>2. CASE s # {}
    <3>1. s \in SUBSET (1 .. n)
      OBVIOUS
    <3>2. PICK g \in S : g = Greatest(s) /\ g \in 1 .. n
      BY <2>2, <3>1, GreatestIs
    <3>3. s \ {g} \in SUBSET S
      OBVIOUS
    <3>4. v[s \ {g}] \in Shorts
      BY <1>7, <3>3
    <3>5. step[v[s \ {g}], g] = SYNC!F!Sample(v[s \ {g}], rest[g])
      BY <1>3, <3>2, <3>4
    <3> QED BY <1>2, <2>2, <3>2, <3>5 DEF FoldOver
  <2> QED BY <2>1, <2>2
<1>9. v = [s \in SUBSET S |-> op(v, s)]
  <2>1. [s \in SUBSET S |-> op(v, s)] = [s \in SUBSET S |-> FoldOver(v, s, start, step)]
    BY <1>8
  <2> QED BY <1>7, <2>1
<1>10. iter = [s \in SUBSET S |-> op(iter, s)]
  BY <1>9
<1> HIDE DEF iter
<1>11. PICK w : w = [k \in 0 .. n |-> iter[1 .. k]]
  OBVIOUS
<1>12. w[0] = start
  <2>1. w[0] = iter[{}]
    BY <1>11
  <2>2. {} \in SUBSET S
    OBVIOUS
  <2>3. iter[{}] = op(iter, {})
    BY <1>10, <2>2
  <2> QED BY <2>1, <2>3
<1>13. ASSUME NEW k \in 1 .. n
       PROVE  w[k] = SYNC!F!Sample(w[k - 1], rest[k])
  <2>1. 1 .. k \in SUBSET S /\ 1 .. k \in SUBSET (1 .. k) /\ k \in 1 .. k /\ 1 .. k # {} /\ k \in Nat
    OBVIOUS
  <2>2. Greatest(1 .. k) = k
    BY <2>1, GreatestIs
  <2>3. (1 .. k) \ {k} = 1 .. k - 1
    OBVIOUS
  <2>4. iter[1 .. k] = op(iter, 1 .. k)
    BY <1>10, <2>1
  <2>5. iter[1 .. k] = SYNC!F!Sample(iter[1 .. k - 1], rest[k])
    BY <1>2, <2>1, <2>2, <2>3, <2>4
  <2>6. k - 1 \in 0 .. n /\ k \in 0 .. n
    OBVIOUS
  <2> QED BY <1>11, <2>5, <2>6
<1>14. Looped(start, rest) = w[n]
  BY <1>1, <1>11
<1> QED BY <1>0, <1>12, <1>13, <1>14 DEF Loops4

(* The sample before the i-th of a call behind sample b. *)
Before4(b, items, i) == IF i = 1 THEN b ELSE items[i - 1].sample

(* A call of the filter on items, behind sample b. *)
Called(b, items, n) ==
  /\ b \in Samples /\ ClockAfter(clock_phase, b) /\ TagsAfter(tags, b)
  /\ items \in Seq(Placed) /\ n = Len(items) /\ n > 0
  /\ \A i \in 1 .. n : items[i].sample \in Samples
  /\ Follows4(b, items[1].sample)
  /\ \A i \in 2 .. n : items[i].sample = SYNC!After(items[i - 1].sample)

(* The states of the loop in such a call. *)
StatesOf(w, items, n) ==
  /\ w[0] = Now4
  /\ \A i \in 2 .. n : w[i] = SYNC!F!Sample(w[i - 1], items[i])
  /\ SYNC!F!Run(items, items[1].sample.age = 0, items[1].sample.id, items[1].sample.early) = w[n]

(* The filter between calls has one tag at most. *)
LEMMA NowShort ==
  ASSUME FourSamples, delay \in Delays, NEW b \in Samples, ClockAfter(clock_phase, b), TagsAfter(tags, b)
  PROVE  Now4 \in Shorts /\ Now4 \in States4
<1>1. clock_phase \in 0 .. 3
  BY DEF ClockAfter
<1>2. tags \in Seq(Tags4) /\ (tags = <<>> \/ \E t \in Tags4 : tags = <<t>>)
  <2>1. CASE AwaitsAfter(b)
    <3>1. delay - b.age - 1 \in Int /\ delay - b.age \in Int
      BY Four
    <3> QED BY <2>1, <3>1, Pending DEF TagsAfter
  <2>2. CASE ~AwaitsAfter(b)
    BY <2>2 DEF TagsAfter
  <2> QED BY <2>1, <2>2
<1>3. <<>> \in Seq(Sent4)
  OBVIOUS
<1>4. Now4 \in States4
  BY <1>1, <1>2, <1>3 DEF Now4, States4
<1> QED BY <1>2, <1>4 DEF Now4, Shorts

(* The call has such states, and the first of its samples is a step. *)
LEMMA CallStates ==
  ASSUME FourSamples, delay \in Delays, NEW b, NEW items, NEW n \in Nat, Called(b, items, n)
  PROVE  \E w : /\ StatesOf(w, items, n)
                /\ w[1] \in States4
                /\ \E took \in BOOLEAN, sent \in Seq(Tags4) : Step4(b, w[0], w[1], items[1], took, sent)
<1>1. PICK s \in Samples : s = items[1].sample
  BY DEF Called
<1>2. items[1] \in Placed /\ items \in Seq(Placed) /\ items # <<>> /\ n = Len(items) /\ n > 0 /\ b \in Samples
  <2> HIDE DEF Placed
  <2> QED BY DEF Called
<1>3. ClockAfter(clock_phase, b) /\ TagsAfter(tags, b) /\ Follows4(b, s)
  BY <1>1 DEF Called
<1>4. Now4 \in Shorts /\ Now4 \in States4
  BY <1>2, <1>3, NowShort
<1>5. Now4.clock = clock_phase /\ Now4.tags = tags /\ Now4.out = <<>>
  BY DEF Now4
<1>6. CASE s = SYNC!After(b)
  <2>1. ~(s.age = 0) /\ s.age > 0
    BY <1>2, <1>6, AfterIs, Four
  <2>2. PICK w : /\ w[0] = Now4
                 /\ \A k \in 1 .. n : w[k] = SYNC!F!Sample(w[k - 1], items[k])
                 /\ Looped(Now4, items) = w[n]
    BY <1>2, <1>4, LoopFolds DEF Loops4
  <2>3. SYNC!F!Run(items, s.age = 0, s.id, s.early) = Looped(Now4, items)
    BY <2>1 DEF SYNC!F!Run, Now4, Looped
  <2>4. StatesOf(w, items, n)
    BY <1>1, <2>2, <2>3 DEF StatesOf
  <2>5. 1 \in 1 .. n /\ 1 - 1 = 0
    BY <1>2
  <2>6. w[1] = SYNC!F!Sample(Now4, items[1])
    BY <2>2, <2>5
  <2>7. /\ ClockBefore(Now4.clock, s) /\ TagsBefore(Now4.tags, s)
        /\ \A d : DriftAfter(d, Now4.clock, b) => DriftBefore(d, Now4.clock, s)
    BY <1>2, <1>3, <1>5, <1>6, NextSample4
  <2>8. \E y \in States4, took \in BOOLEAN, sent \in Seq(Tags4) :
           y = SYNC!F!Sample(Now4, items[1]) /\ Step4(b, Now4, y, items[1], took, sent)
    BY <1>1, <1>2, <1>4, <2>7, LoopStep4
  <2> QED BY <2>2, <2>4, <2>6, <2>8
<1>7. CASE b.age >= MinGap - 1 /\ s.age = 0 /\ s.id # 0
  <2>1. PICK y \in States4, took \in BOOLEAN, sent \in Seq(Tags4) :
           /\ Step4(b, Now4, y, items[1], took, sent)
           /\ \/ y \in Shorts /\ SYNC!F!Detect(Now4, items, s.id, s.early)
                                   = [state |-> y, chunk |-> Tail(items)]
              \/ \E z \in Shorts :
                   /\ SYNC!F!Detect(Now4, items, s.id, s.early) = [state |-> z, chunk |-> items]
                   /\ y = SYNC!F!Sample(z, items[1])
    BY <1>1, <1>2, <1>3, <1>7, DetectKeeps
  <2>2. SYNC!F!Run(items, s.age = 0, s.id, s.early)
          = Looped(SYNC!F!Detect(Now4, items, s.id, s.early).state,
                   SYNC!F!Detect(Now4, items, s.id, s.early).chunk)
    BY <1>7 DEF SYNC!F!Run, Now4, Looped
  <2>3. CASE y \in Shorts /\ SYNC!F!Detect(Now4, items, s.id, s.early)
                               = [state |-> y, chunk |-> Tail(items)]
    <3>1. PICK rest \in Seq(Placed) : rest = Tail(items) /\ Len(rest) = n - 1
                                      /\ \A k \in 1 .. n - 1 : rest[k] = items[k + 1]
      <4>1. /\ Tail(items) \in Seq(Placed) /\ Len(Tail(items)) = n - 1
            /\ \A k \in 1 .. n - 1 : Tail(items)[k] = items[k + 1]
        <5> HIDE DEF Placed
        <5> QED BY <1>2
      <4> QED BY <4>1
    <3>2. PICK u : /\ u[0] = y
                   /\ \A k \in 1 .. n - 1 : u[k] = SYNC!F!Sample(u[k - 1], rest[k])
                   /\ Looped(y, rest) = u[n - 1]
      <4>1. y \in Shorts
        BY <2>3
      <4>2. PICK u : Loops4(u, y, rest)
        BY <4>1, LoopFolds
      <4> QED BY <3>1, <4>2 DEF Loops4
    <3>3. PICK w : w = [k \in 0 .. n |-> IF k = 0 THEN Now4 ELSE u[k - 1]]
      OBVIOUS
    <3>4. w[0] = Now4 /\ w[1] = y /\ w[n] = u[n - 1]
      <4>1. 0 \in 0 .. n /\ 1 \in 0 .. n /\ n \in 0 .. n /\ n # 0 /\ 1 - 1 = 0
        BY <1>2
      <4> QED BY <3>2, <3>3, <4>1
    <3>5. ASSUME NEW i \in 2 .. n
          PROVE  w[i] = SYNC!F!Sample(w[i - 1], items[i])
      <4>1. /\ i \in 0 .. n /\ i - 1 \in 0 .. n /\ i # 0 /\ i - 1 # 0
            /\ i - 1 \in 1 .. n - 1 /\ (i - 1) + 1 = i
        BY <1>2
      <4>2. w[i] = u[i - 1] /\ w[i - 1] = u[(i - 1) - 1]
        BY <3>3, <4>1
      <4>3. u[i - 1] = SYNC!F!Sample(u[(i - 1) - 1], items[i])
        BY <3>1, <3>2, <4>1
      <4> QED BY <4>2, <4>3
    <3>6. SYNC!F!Run(items, s.age = 0, s.id, s.early) = w[n]
      BY <2>2, <2>3, <3>1, <3>2, <3>4
    <3>7. StatesOf(w, items, n)
      BY <1>1, <3>4, <3>5, <3>6 DEF StatesOf
    <3> QED BY <2>1, <3>4, <3>7
  <2>4. ASSUME NEW z \in Shorts,
               SYNC!F!Detect(Now4, items, s.id, s.early) = [state |-> z, chunk |-> items],
               y = SYNC!F!Sample(z, items[1])
        PROVE  \E w : /\ StatesOf(w, items, n)
                      /\ w[0] = Now4 /\ w[1] = y
    <3>2. PICK u : /\ u[0] = z
                   /\ \A k \in 1 .. n : u[k] = SYNC!F!Sample(u[k - 1], items[k])
                   /\ Looped(z, items) = u[n]
      BY <1>2, LoopFolds DEF Loops4
    <3>3. PICK w : w = [k \in 0 .. n |-> IF k = 0 THEN Now4 ELSE u[k]]
      OBVIOUS
    <3>4. w[0] = Now4 /\ w[1] = y /\ w[n] = u[n]
      <4>1. 0 \in 0 .. n /\ 1 \in 0 .. n /\ n \in 0 .. n /\ n # 0 /\ 1 - 1 = 0 /\ 1 \in 1 .. n
        BY <1>2
      <4> QED BY <2>4, <3>2, <3>3, <4>1
    <3>5. ASSUME NEW i \in 2 .. n
          PROVE  w[i] = SYNC!F!Sample(w[i - 1], items[i])
      <4>1. i \in 0 .. n /\ i - 1 \in 0 .. n /\ i # 0 /\ i - 1 # 0 /\ i \in 1 .. n
        BY <1>2
      <4>2. w[i] = u[i] /\ w[i - 1] = u[i - 1]
        BY <3>3, <4>1
      <4> QED BY <3>2, <4>1, <4>2
    <3>6. SYNC!F!Run(items, s.age = 0, s.id, s.early) = w[n]
      BY <2>2, <2>4, <3>2, <3>4
    <3>7. StatesOf(w, items, n)
      BY <1>1, <3>4, <3>5, <3>6 DEF StatesOf
    <3> QED BY <3>4, <3>7
  <2>5. CASE \E z \in Shorts :
                   /\ SYNC!F!Detect(Now4, items, s.id, s.early) = [state |-> z, chunk |-> items]
                   /\ y = SYNC!F!Sample(z, items[1])
    BY <2>1, <2>4, <2>5
  <2> QED BY <2>1, <2>3, <2>5
<1> QED BY <1>3, <1>6, <1>7 DEF Follows4

(* Every sample of the call is a step. *)
Steps4(w, tk, sn, b, items, n) ==
  /\ StatesOf(w, items, n)
  /\ \A i \in 0 .. n : w[i] \in States4
  /\ \A i \in 1 .. n : /\ tk[i] \in BOOLEAN /\ sn[i] \in Seq(Tags4)
                       /\ Step4(Before4(b, items, i), w[i - 1], w[i], items[i], tk[i], sn[i])

(* By induction from the first. *)
LEMMA CallSteps ==
  ASSUME FourSamples, delay \in Delays, NEW b, NEW items, NEW n \in Nat, Called(b, items, n)
  PROVE  \E w, tk, sn : Steps4(w, tk, sn, b, items, n)
<1>1. PICK w : /\ StatesOf(w, items, n) /\ w[1] \in States4
               /\ \E took \in BOOLEAN, sent \in Seq(Tags4) : Step4(b, w[0], w[1], items[1], took, sent)
  BY CallStates
<1>2. n > 0 /\ b \in Samples /\ items \in Seq(Placed) /\ n = Len(items)
      /\ ClockAfter(clock_phase, b) /\ TagsAfter(tags, b)
  BY DEF Called
<1> DEFINE Good(i) == /\ w[i] \in States4
                      /\ \E took \in BOOLEAN, sent \in Seq(Tags4) :
                           Step4(Before4(b, items, i), w[i - 1], w[i], items[i], took, sent)
           Wrong == {i \in 1 .. n : ~Good(i)}
<1>3. \A i \in 1 .. n : Good(i)
  <2>1. SUFFICES ASSUME Wrong # {}
                 PROVE  FALSE
    OBVIOUS
  <2>2. Wrong \subseteq Nat
    OBVIOUS
  <2>3. PICK k \in Wrong : \A j \in Wrong : k <= j
    BY <2>1, <2>2, Least
  <2>4. k \in 1 .. n /\ ~Good(k)
    OBVIOUS
  <2>5. CASE k = 1
    <3>1. Before4(b, items, 1) = b /\ 1 - 1 = 0
      BY DEF Before4
    <3> QED BY <1>1, <2>4, <2>5, <3>1
  <2>6. CASE k # 1
    <3>1. k - 1 \in 1 .. n /\ ~(k <= k - 1) /\ k \in 2 .. n /\ k \in Nat
      BY <2>4, <2>6
    <3>2. Good(k - 1)
      BY <2>3, <3>1
    <3>3. PICK x \in States4, a \in Samples, s \in Samples, item \in Placed :
             x = w[k - 1] /\ a = items[k - 1].sample /\ s = items[k].sample /\ item = items[k]
      <4>1. items[k - 1].sample \in Samples /\ items[k].sample \in Samples
        BY <3>1 DEF Called
      <4>2. items[k] \in Placed
        <5> HIDE DEF Placed
        <5> QED BY <1>2, <2>4
      <4> QED BY <3>2, <4>1, <4>2
    <3>4. ClockAfter(x.clock, a) /\ TagsAfter(x.tags, a)
      BY <3>2, <3>3 DEF Step4
    <3>5. s = SYNC!After(a)
      BY <3>1, <3>3 DEF Called
    <3>6. /\ ClockBefore(x.clock, s) /\ TagsBefore(x.tags, s)
          /\ \A d : DriftAfter(d, x.clock, a) => DriftBefore(d, x.clock, s)
      BY <3>4, <3>5, NextSample4
    <3>7. item.sample = s
      BY <3>3
    <3>8. PICK y \in States4, took \in BOOLEAN, sent \in Seq(Tags4) :
             y = SYNC!F!Sample(x, item) /\ Step4(a, x, y, item, took, sent)
      BY <3>6, <3>7, LoopStep4
    <3>9. w[k] = SYNC!F!Sample(x, item)
      BY <1>1, <3>1, <3>3 DEF StatesOf
    <3>10. Before4(b, items, k) = a
      BY <2>6, <3>3 DEF Before4
    <3> QED BY <2>4, <3>3, <3>8, <3>9, <3>10
  <2> QED BY <2>5, <2>6
<1>4. PICK tk : tk = [i \in 1 .. n |-> CHOOSE took \in BOOLEAN : \E sent \in Seq(Tags4) :
                        Step4(Before4(b, items, i), w[i - 1], w[i], items[i], took, sent)]
  OBVIOUS
<1>5. PICK sn : sn = [i \in 1 .. n |-> CHOOSE sent \in Seq(Tags4) :
                        Step4(Before4(b, items, i), w[i - 1], w[i], items[i], tk[i], sent)]
  OBVIOUS
<1>6. ASSUME NEW i \in 1 .. n
      PROVE  /\ tk[i] \in BOOLEAN /\ sn[i] \in Seq(Tags4)
             /\ Step4(Before4(b, items, i), w[i - 1], w[i], items[i], tk[i], sn[i])
  <2>1. /\ tk[i] \in BOOLEAN
        /\ \E sent \in Seq(Tags4) : Step4(Before4(b, items, i), w[i - 1], w[i], items[i], tk[i], sent)
    BY <1>3, <1>4
  <2> QED BY <1>5, <2>1
<1>7. ASSUME NEW i \in 0 .. n
      PROVE  w[i] \in States4
  <2>1. CASE i = 0
    <3>1. Now4 \in States4
      BY <1>2, NowShort
    <3> QED BY <1>1, <2>1, <3>1 DEF StatesOf
  <2>2. CASE i # 0
    <3>1. i \in 1 .. n
      BY <2>2
    <3> QED BY <1>3, <3>1
  <2> QED BY <2>1, <2>2
<1> QED BY <1>1, <1>6, <1>7 DEF Steps4

(* The symbols of the first j items are those taken, each once. *)
OutOf(out, tk, sn, items, j) ==
  /\ out \in Seq(Sent4)
  /\ \A k \in 1 .. Len(out) : \E i \in 1 .. j : tk[i] /\ out[k] = [item |-> items[i], tags |-> sn[i]]
  /\ \A i \in 1 .. j : tk[i] =>
       \E k \in 1 .. Len(out) : out[k] = [item |-> items[i], tags |-> sn[i]]
  /\ \A k, l \in 1 .. Len(out) : out[k].item = out[l].item => k = l

(* No two items of a chunk are the same. *)
Distinct(items, n) == \A i, j \in 1 .. n : items[i] = items[j] => i = j

(* One more item. *)
LEMMA OutGrows ==
  ASSUME NEW n \in Nat, NEW items \in Seq(Placed), n = Len(items), Distinct(items, n),
         NEW tk, NEW sn, NEW j \in 1 .. n, tk[j] \in BOOLEAN, sn[j] \in Seq(Tags4),
         NEW out, OutOf(out, tk, sn, items, j - 1), NEW new,
         new = IF tk[j] THEN Append(out, [item |-> items[j], tags |-> sn[j]]) ELSE out
  PROVE  OutOf(new, tk, sn, items, j)
<1>0. out \in Seq(Sent4) /\ j - 1 \in Nat /\ j \in Nat
  BY DEF OutOf
<1>1. /\ \A k \in 1 .. Len(out) : \E i \in 1 .. j - 1 : tk[i] /\ out[k] = [item |-> items[i], tags |-> sn[i]]
      /\ \A i \in 1 .. j - 1 : tk[i] =>
           \E k \in 1 .. Len(out) : out[k] = [item |-> items[i], tags |-> sn[i]]
      /\ \A k, l \in 1 .. Len(out) : out[k].item = out[l].item => k = l
  BY DEF OutOf
<1>2. 1 .. j = (1 .. j - 1) \cup {j}
  OBVIOUS
<1>3. CASE ~tk[j]
  <2>1. new = out
    BY <1>3
  <2>2. \A i \in 1 .. j : tk[i] => i \in 1 .. j - 1
    BY <1>2, <1>3
  <2>3. \A i \in 1 .. j - 1 : i \in 1 .. j
    BY <1>2
  <2>4. \A k \in 1 .. Len(out) : \E i \in 1 .. j : tk[i] /\ out[k] = [item |-> items[i], tags |-> sn[i]]
    BY <1>1, <2>3
  <2>5. \A i \in 1 .. j : tk[i] =>
           \E k \in 1 .. Len(out) : out[k] = [item |-> items[i], tags |-> sn[i]]
    BY <1>1, <2>2
  <2> QED BY <1>0, <1>1, <2>1, <2>4, <2>5 DEF OutOf
<1>4. CASE tk[j]
  <2>1. PICK e \in Sent4 : e = [item |-> items[j], tags |-> sn[j]]
    <3>1. items[j] \in Placed
      <4> HIDE DEF Placed
      <4>1. j \in 1 .. Len(items)
        OBVIOUS
      <4> QED BY <4>1
    <3>2. [item |-> items[j], tags |-> sn[j]] \in Sent4
      BY <3>1 DEF Sent4
    <3> QED BY <3>2
  <2>2. PICK m \in Nat : m = Len(out)
    BY <1>0
  <2>3. /\ new \in Seq(Sent4) /\ Len(new) = m + 1 /\ new[m + 1] = e
        /\ \A k \in 1 .. m : new[k] = out[k]
    BY <1>0, <1>4, <2>1, <2>2
  <2>4. 1 .. m + 1 = (1 .. m) \cup {m + 1}
    OBVIOUS
  <2>5. \A k \in 1 .. m : out[k].item # items[j]
    <3>1. ASSUME NEW k \in 1 .. m
          PROVE  out[k].item # items[j]
      <4>1. PICK i \in 1 .. j - 1 : out[k] = [item |-> items[i], tags |-> sn[i]]
        BY <1>1, <2>2
      <4>2. i # j /\ i \in 1 .. n
        OBVIOUS
      <4>3. items[i] # items[j]
        BY <4>2 DEF Distinct
      <4> QED BY <4>1, <4>3
    <3> QED BY <3>1
  <2>6. ASSUME NEW k \in 1 .. m + 1
        PROVE  \E i \in 1 .. j : tk[i] /\ new[k] = [item |-> items[i], tags |-> sn[i]]
    <3>1. CASE k = m + 1
      BY <1>4, <2>1, <2>3, <3>1
    <3>2. CASE k # m + 1
      <4>1. k \in 1 .. m
        BY <3>2
      <4>2. PICK i \in 1 .. j - 1 : tk[i] /\ out[k] = [item |-> items[i], tags |-> sn[i]]
        BY <1>1, <2>2, <4>1
      <4>3. i \in 1 .. j /\ new[k] = out[k]
        BY <1>2, <2>3, <4>1
      <4> QED BY <4>2, <4>3
    <3> QED BY <3>1, <3>2
  <2>7. ASSUME NEW i \in 1 .. j, tk[i]
        PROVE  \E k \in 1 .. m + 1 : new[k] = [item |-> items[i], tags |-> sn[i]]
    <3>1. CASE i = j
      <4>1. m + 1 \in 1 .. m + 1
        OBVIOUS
      <4> QED BY <2>1, <2>3, <3>1, <4>1
    <3>2. CASE i # j
      <4>1. i \in 1 .. j - 1
        BY <3>2
      <4>2. PICK k \in 1 .. m : out[k] = [item |-> items[i], tags |-> sn[i]]
        BY <1>1, <2>2, <2>7, <4>1
      <4>3. k \in 1 .. m + 1 /\ new[k] = out[k]
        BY <2>3
      <4> QED BY <4>2, <4>3
    <3> QED BY <3>1, <3>2
  <2>8. ASSUME NEW k \in 1 .. m + 1, NEW l \in 1 .. m + 1, new[k].item = new[l].item
        PROVE  k = l
    <3>1. e.item = items[j]
      BY <2>1
    <3>2. CASE k \in 1 .. m /\ l \in 1 .. m
      BY <1>1, <2>2, <2>3, <2>8, <3>2
    <3>3. CASE k = m + 1 /\ l \in 1 .. m
      BY <2>3, <2>5, <2>8, <3>1, <3>3
    <3>4. CASE k \in 1 .. m /\ l = m + 1
      BY <2>3, <2>5, <2>8, <3>1, <3>4
    <3> QED BY <2>4, <3>2, <3>3, <3>4
  <2>9. \A k \in 1 .. Len(new) : \E i \in 1 .. j : tk[i] /\ new[k] = [item |-> items[i], tags |-> sn[i]]
    BY <2>3, <2>6
  <2>10. \A i \in 1 .. j : tk[i] =>
           \E k \in 1 .. Len(new) : new[k] = [item |-> items[i], tags |-> sn[i]]
    BY <2>3, <2>7
  <2>11. \A k, l \in 1 .. Len(new) : new[k].item = new[l].item => k = l
    BY <2>3, <2>8
  <2> QED BY <2>3, <2>9, <2>10, <2>11 DEF OutOf
<1> QED BY <1>3, <1>4

(* The symbols of a call. *)
LEMMA OutIs ==
  ASSUME NEW n \in Nat, NEW items \in Seq(Placed), n = Len(items), Distinct(items, n),
         NEW w, NEW tk, NEW sn, NEW b, Steps4(w, tk, sn, b, items, n)
  PROVE  OutOf(w[n].out, tk, sn, items, n)
<1> DEFINE Good(j) == OutOf(w[j].out, tk, sn, items, j)
           Wrong == {j \in 0 .. n : ~Good(j)}
<1>1. SUFFICES ASSUME Wrong # {}
               PROVE  FALSE
  <2>1. n \in 0 .. n
    OBVIOUS
  <2>2. n \notin Wrong => Good(n)
    BY <2>1
  <2> QED BY <2>2
<1>2. Wrong \subseteq Nat
  OBVIOUS
<1>3. PICK j \in Wrong : \A k \in Wrong : j <= k
  BY <1>1, <1>2, Least
<1>4. j \in 0 .. n /\ ~Good(j)
  OBVIOUS
<1>5. CASE j = 0
  <2>1. w[0].out = <<>>
    BY DEF Steps4, StatesOf, Now4
  <2>2. <<>> \in Seq(Sent4) /\ Len(<<>>) = 0 /\ 1 .. 0 = {}
    OBVIOUS
  <2>3. OutOf(<<>>, tk, sn, items, 0)
    BY <2>2 DEF OutOf
  <2> QED BY <1>4, <1>5, <2>1, <2>3
<1>6. CASE j # 0
  <2>1. j \in 1 .. n /\ j - 1 \in 0 .. n /\ ~(j <= j - 1) /\ j \in Nat
    BY <1>4, <1>6
  <2>2. Good(j - 1)
    BY <1>3, <2>1
  <2>3. /\ tk[j] \in BOOLEAN /\ sn[j] \in Seq(Tags4)
        /\ Step4(Before4(b, items, j), w[j - 1], w[j], items[j], tk[j], sn[j])
    BY <2>1 DEF Steps4
  <2>4. w[j].out = IF tk[j] THEN Append(w[j - 1].out, [item |-> items[j], tags |-> sn[j]])
                            ELSE w[j - 1].out
    BY <2>3 DEF Step4
  <2>5. Good(j)
    BY <2>1, <2>2, <2>3, <2>4, OutGrows
  <2> QED BY <1>4, <2>5
<1> QED BY <1>5, <1>6

(* An item gave one symbol or none. *)
LEMMA TakenIs ==
  ASSUME NEW n \in Nat, NEW items \in Seq(Placed), n = Len(items), Distinct(items, n),
         NEW tk, NEW sn, NEW out, OutOf(out, tk, sn, items, n),
         NEW i \in 1 .. n, tk[i] \in BOOLEAN
  PROVE  /\ SYNC!Taken(out, items[i]) # {} <=> tk[i]
         /\ Cardinality(SYNC!Taken(out, items[i])) = IF tk[i] THEN 1 ELSE 0
         /\ (\E k \in SYNC!Taken(out, items[i]) : out[k].tags # <<>>) <=> (tk[i] /\ sn[i] # <<>>)
<1>a. PICK taken : taken = SYNC!Taken(out, items[i]) /\ taken = {k \in DOMAIN out : out[k].item = items[i]}
  BY DEF SYNC!Taken
<1>0. DOMAIN out = 1 .. Len(out)
  BY DEF OutOf
<1>1. CASE tk[i]
  <2>1. PICK k \in 1 .. Len(out) : out[k] = [item |-> items[i], tags |-> sn[i]]
    BY <1>1 DEF OutOf
  <2>2. out[k].item = items[i] /\ out[k].tags = sn[i]
    BY <2>1
  <2>3. \A l \in 1 .. Len(out) : out[l].item = items[i] => l = k
    BY <2>2 DEF OutOf
  <2>4. taken = {k}
    BY <1>0, <1>a, <2>2, <2>3
  <2>5. Cardinality({k}) = 1
    BY FS_Singleton
  <2> QED BY <1>a, <1>1, <2>2, <2>4, <2>5
<1>2. CASE ~tk[i]
  <2>1. ASSUME NEW k \in 1 .. Len(out), out[k].item = items[i]
        PROVE  FALSE
    <3>1. PICK j \in 1 .. n : tk[j] /\ out[k] = [item |-> items[j], tags |-> sn[j]]
      BY DEF OutOf
    <3>2. items[j] = items[i]
      BY <2>1, <3>1
    <3>3. j = i
      BY <3>2 DEF Distinct
    <3> QED BY <1>2, <3>1, <3>3
  <2>2. taken = {}
    BY <1>0, <1>a, <2>1
  <2>3. Cardinality({}) = 0
    BY FS_EmptySet
  <2> QED BY <1>a, <1>2, <2>2, <2>3
<1> QED BY <1>1, <1>2

(* What is measured. *)
Measures == [drift : Int, slip : Int]

(* Cardinalities are the same there. *)
LEMMA CountsAre == \A S : SYNC!Cardinality(S) = Cardinality(S)
BY DEF SYNC!Cardinality, Cardinality

(* That of an item which gave one symbol or none. *)
LEMMA PassedIs ==
  ASSUME FourSamples, delay \in Delays,
         NEW n \in Nat, NEW items \in Seq(Placed), n = Len(items), Distinct(items, n),
         NEW tk, NEW sn, NEW out, OutOf(out, tk, sn, items, n),
         NEW i \in 1 .. n, tk[i] \in BOOLEAN, NEW m \in Measures
  PROVE  /\ \E e \in Int :
               /\ e = m.drift + 1 - (IF tk[i] THEN 4 ELSE 0)
               /\ SYNC!Pass(out, m, items[i]) = IF tk[i] /\ sn[i] # <<>>
                                                 THEN [drift |-> 0, slip |-> e]
                                                 ELSE [drift |-> e, slip |-> m.slip]
         /\ SYNC!Pass(out, m, items[i]) \in Measures
<1>1. PICK f \in Int, g \in Int : f = m.drift /\ g = m.slip
  BY DEF Measures
<1>2. PICK taken : taken = SYNC!Taken(out, items[i])
  OBVIOUS
<1>3. /\ Cardinality(taken) = IF tk[i] THEN 1 ELSE 0
      /\ (\E k \in taken : out[k].tags # <<>>) <=> (tk[i] /\ sn[i] # <<>>)
  BY <1>2, TakenIs
<1>4. PICK e \in Int : e = f + 1 - (IF tk[i] THEN 4 ELSE 0)
  <2>1. f + 1 - 4 \in Int /\ f + 1 - 0 \in Int
    OBVIOUS
  <2>2. CASE tk[i]
    BY <2>1, <2>2
  <2>3. CASE ~tk[i]
    BY <2>1, <2>3
  <2> QED BY <2>2, <2>3
<1>5. (f + 1) - ClockSamples * Cardinality(taken) = e
  <2>1. ClockSamples = 4
    BY Four
  <2>2. CASE tk[i]
    BY <1>3, <1>4, <2>1, <2>2
  <2>3. CASE ~tk[i]
    BY <1>3, <1>4, <2>1, <2>3
  <2> QED BY <2>2, <2>3
<1>6. SYNC!Pass(out, m, items[i]) = IF tk[i] /\ sn[i] # <<>>
                                   THEN [drift |-> 0, slip |-> e]
                                   ELSE [drift |-> e, slip |-> m.slip]
  <2>1. SYNC!Pass(out, m, items[i])
          = IF \E k \in taken : out[k].tags # <<>>
              THEN [drift |-> 0, slip |-> (m.drift + 1) - ClockSamples * Cardinality(taken)]
              ELSE [drift |-> (m.drift + 1) - ClockSamples * Cardinality(taken), slip |-> m.slip]
    BY <1>2, CountsAre DEF SYNC!Pass
  <2>2. (m.drift + 1) - ClockSamples * Cardinality(taken) = e
    BY <1>1, <1>5
  <2>3. CASE tk[i] /\ sn[i] # <<>>
    BY <1>3, <2>1, <2>2, <2>3
  <2>4. CASE ~(tk[i] /\ sn[i] # <<>>)
    BY <1>3, <2>1, <2>2, <2>4
  <2> QED BY <2>3, <2>4
<1>7. [drift |-> 0, slip |-> e] \in Measures /\ [drift |-> e, slip |-> m.slip] \in Measures
  BY <1>1 DEF Measures
<1> QED BY <1>1, <1>4, <1>6, <1>7

(* The measures after the items of a call. *)
MeasuresOf(m, items, out) ==
  /\ m[0] = [drift |-> drift, slip |-> slip]
  /\ \A k \in 0 .. Len(items) : m[k] \in Measures
  /\ \A k \in 1 .. Len(items) : m[k] = SYNC!Pass(out, m[k - 1], items[k])
  /\ SYNC!Measure(items, out) = m[Len(items)]

(* There are such. *)
LEMMA MeasureFolds ==
  ASSUME drift \in Int, slip \in Int, NEW items \in Seq(Placed), NEW out,
         \A k \in 1 .. Len(items), m \in Measures : SYNC!Pass(out, m, items[k]) \in Measures
  PROVE  \E m : MeasuresOf(m, items, out)
<1>0. PICK n \in Nat : n = Len(items)
  OBVIOUS
<1>a. PICK start \in Measures : start = [drift |-> drift, slip |-> slip]
  BY DEF Measures
<1> DEFINE S == 1 .. n
           op(it, s) == IF s = {} THEN start
                        ELSE SYNC!Pass(out, it[s \ {SYNC!Max(s)}], items[SYNC!Max(s)])
           iter == CHOOSE it : it = [s \in SUBSET S |-> op(it, s)]
<1>1. SYNC!Measure(items, out) = iter[S]
  <2>1. DOMAIN items = S
    BY <1>0
  <2> QED BY <1>a, <2>1 DEF SYNC!Measure, SYNC!FoldLeft, SYNC!MapThenFoldSet
<1>2. \A s : SYNC!Max(s) = Greatest(s)
  BY DEF SYNC!Max, Greatest
<1>3. PICK step : step = [p \in Measures \X (1 .. n) |-> SYNC!Pass(out, p[1], items[p[2]])]
  OBVIOUS
<1>5. step \in [Measures \X (1 .. n) -> Measures]
  <2>1. ASSUME NEW p \in Measures \X (1 .. n)
        PROVE  SYNC!Pass(out, p[1], items[p[2]]) \in Measures
    <3>1. p[1] \in Measures /\ p[2] \in 1 .. Len(items)
      BY <1>0
    <3> QED BY <3>1
  <2> QED BY <1>3, <2>1
<1>7. PICK v : /\ v = [s \in SUBSET S |-> FoldOver(v, s, start, step)]
               /\ \A s \in SUBSET S : v[s] \in Measures
  <2>1. 1 \in Nat \ {0} /\ n \in Nat
    OBVIOUS
  <2>2. \E v : FoldedFrom(v, 1, n, Measures, start, step)
    <3> HIDE DEF Measures
    <3> QED BY <1>5, <2>1, FoldsFrom
  <2> QED BY <2>2 DEF FoldedFrom
<1>8. ASSUME NEW s \in SUBSET S
      PROVE  FoldOver(v, s, start, step) = op(v, s)
  <2>1. CASE s = {}
    BY <2>1 DEF FoldOver
  <2>2. CASE s # {}
    <3>1. s \in SUBSET (1 .. n)
      OBVIOUS
    <3>2. PICK g \in S : g = Greatest(s) /\ g \in 1 .. n
      BY <2>2, <3>1, GreatestIs
    <3>3. s \ {g} \in SUBSET S
      OBVIOUS
    <3>4. v[s \ {g}] \in Measures
      BY <1>7, <3>3
    <3>5. step[v[s \ {g}], g] = SYNC!Pass(out, v[s \ {g}], items[g])
      BY <1>3, <3>2, <3>4
    <3> QED BY <1>2, <2>2, <3>2, <3>5 DEF FoldOver
  <2> QED BY <2>1, <2>2
<1>9. v = [s \in SUBSET S |-> op(v, s)]
  <2>1. [s \in SUBSET S |-> op(v, s)] = [s \in SUBSET S |-> FoldOver(v, s, start, step)]
    BY <1>8
  <2> QED BY <1>7, <2>1
<1>10. iter = [s \in SUBSET S |-> op(iter, s)]
  BY <1>9
<1> HIDE DEF iter
<1>11. PICK w : w = [k \in 0 .. n |-> iter[1 .. k]]
  OBVIOUS
<1>12. w[0] = start
  <2>1. w[0] = iter[{}]
    BY <1>11
  <2>2. {} \in SUBSET S
    OBVIOUS
  <2>3. iter[{}] = op(iter, {})
    BY <1>10, <2>2
  <2> QED BY <2>1, <2>3
<1>13. ASSUME NEW k \in 1 .. n
       PROVE  w[k] = SYNC!Pass(out, w[k - 1], items[k])
  <2>1. 1 .. k \in SUBSET S /\ 1 .. k \in SUBSET (1 .. k) /\ k \in 1 .. k /\ 1 .. k # {} /\ k \in Nat
    <3>1. k \in Nat /\ k >= 1 /\ k <= n
      OBVIOUS
    <3>2. 1 .. k \subseteq 1 .. n
      BY <3>1
    <3>3. k \in 1 .. k
      BY <3>1
    <3> QED BY <3>1, <3>2, <3>3, Zenon
  <2>2. Greatest(1 .. k) = k
    BY <2>1, GreatestIs
  <2>3. (1 .. k) \ {k} = 1 .. k - 1
    OBVIOUS
  <2>4. iter[1 .. k] = op(iter, 1 .. k)
    BY <1>10, <2>1
  <2>5. iter[1 .. k] = SYNC!Pass(out, iter[1 .. k - 1], items[k])
    BY <1>2, <2>1, <2>2, <2>3, <2>4
  <2>6. k - 1 \in 0 .. n /\ k \in 0 .. n
    OBVIOUS
  <2> QED BY <1>11, <2>5, <2>6
<1>14. SYNC!Measure(items, out) = w[n]
  BY <1>1, <1>11
<1>15. \A k \in 0 .. n : w[k] \in Measures
  <2> DEFINE Wrong == {k \in 0 .. n : w[k] \notin Measures}
  <2>1. SUFFICES ASSUME Wrong # {}
                 PROVE  FALSE
    OBVIOUS
  <2>2. Wrong \subseteq Nat
    OBVIOUS
  <2>3. PICK k \in Wrong : \A j \in Wrong : k <= j
    BY <2>1, <2>2, Least
  <2>4. k \in 0 .. n /\ w[k] \notin Measures
    OBVIOUS
  <2>5. k # 0
    BY <1>12, <2>4
  <2>6. k \in 1 .. n /\ k - 1 \in 0 .. n /\ ~(k <= k - 1) /\ k \in Nat /\ k \in 1 .. Len(items)
    BY <1>0, <2>4, <2>5
  <2>7. w[k - 1] \in Measures
    BY <2>3, <2>6
  <2> QED BY <1>13, <2>4, <2>6, <2>7
<1> QED BY <1>0, <1>a, <1>12, <1>13, <1>14, <1>15 DEF MeasuresOf

(* The drift after a call, and between symbols with tags. *)
LEMMA MeasureIs ==
  ASSUME FourSamples, delay \in Delays,
         NEW n \in Nat, NEW items \in Seq(Placed), NEW b, Called(b, items, n), Distinct(items, n),
         NEW w, NEW tk, NEW sn, Steps4(w, tk, sn, b, items, n),
         DriftAfter(drift, clock_phase, b), slip \in -2 .. 2
  PROVE  /\ SYNC!Measure(items, w[n].out).slip \in -2 .. 2
         /\ DriftAfter(SYNC!Measure(items, w[n].out).drift, w[n].clock, items[n].sample)
<1>1. PICK out : out = w[n].out
  OBVIOUS
<1>2. n = Len(items) /\ n > 0 /\ clock_phase \in 0 .. 3
  BY DEF Called, ClockAfter
<1>3. OutOf(out, tk, sn, items, n)
  BY <1>1, <1>2, OutIs
<1>4. \A i \in 1 .. n : tk[i] \in BOOLEAN
  BY DEF Steps4
<1>5. drift \in Int /\ slip \in Int
  <2>1. Phase(clock_phase) \in Int
    BY <1>2 DEF Phase
  <2> QED BY <2>1 DEF DriftAfter
<1>6. PICK m : MeasuresOf(m, items, out)
  <2>1. ASSUME NEW k \in 1 .. Len(items), NEW x \in Measures
        PROVE  SYNC!Pass(out, x, items[k]) \in Measures
    BY <1>2, <1>3, <1>4, PassedIs
  <2> QED BY <1>5, <2>1, MeasureFolds
<1> DEFINE Good(j) == /\ m[j].slip \in -2 .. 2
                      /\ j = 0 => DriftAfter(m[j].drift, clock_phase, b)
                      /\ j > 0 => DriftAfter(m[j].drift, w[j].clock, items[j].sample)
           Wrong == {j \in 0 .. n : ~Good(j)}
<1>7. SUFFICES ASSUME Wrong # {}
               PROVE  FALSE
  <2>1. n \in 0 .. n
    OBVIOUS
  <2>2. n \notin Wrong => Good(n)
    BY <2>1
  <2>3. SYNC!Measure(items, out) = m[n]
    BY <1>2, <1>6 DEF MeasuresOf
  <2> QED BY <1>1, <1>2, <2>2, <2>3
<1>8. Wrong \subseteq Nat
  OBVIOUS
<1>9. PICK j \in Wrong : \A k \in Wrong : j <= k
  BY <1>7, <1>8, Least
<1>10. j \in 0 .. n /\ ~Good(j)
  OBVIOUS
<1>11. CASE j = 0
  <2>1. m[0].drift = drift /\ m[0].slip = slip
    BY <1>6 DEF MeasuresOf
  <2> QED BY <1>10, <1>11, <2>1
<1>12. CASE j # 0
  <2>1. j \in 1 .. n /\ j - 1 \in 0 .. n /\ ~(j <= j - 1) /\ j \in Nat /\ j > 0
    BY <1>10, <1>12
  <2>2. Good(j - 1)
    BY <1>9, <2>1
  <2>3. PICK x \in Measures : x = m[j - 1]
    BY <1>2, <1>6, <2>1 DEF MeasuresOf
  <2>4. DriftAfter(x.drift, w[j - 1].clock, Before4(b, items, j))
    <3>1. CASE j = 1
      <4>1. w[0].clock = clock_phase /\ 1 - 1 = 0
        BY DEF Steps4, StatesOf, Now4
      <4> QED BY <2>2, <2>3, <3>1, <4>1 DEF Before4
    <3>2. CASE j # 1
      <4>1. j - 1 > 0
        BY <2>1, <3>2
      <4> QED BY <2>2, <2>3, <3>2, <4>1 DEF Before4
    <3> QED BY <3>1, <3>2
  <2>5. Step4(Before4(b, items, j), w[j - 1], w[j], items[j], tk[j], sn[j])
    BY <2>1 DEF Steps4
  <2>6. DriftTo(x.drift, tk[j], sn[j], w[j].clock, items[j].sample)
    BY <2>4, <2>5 DEF Step4
  <2>7. PICK e \in Int :
           /\ e = x.drift + 1 - (IF tk[j] THEN 4 ELSE 0)
           /\ SYNC!Pass(out, x, items[j]) = IF tk[j] /\ sn[j] # <<>>
                                            THEN [drift |-> 0, slip |-> e]
                                            ELSE [drift |-> e, slip |-> x.slip]
    BY <1>2, <1>3, <1>4, <2>1, PassedIs
  <2>8. m[j] = SYNC!Pass(out, x, items[j])
    BY <1>2, <1>6, <2>1, <2>3 DEF MeasuresOf
  <2>9. CASE tk[j] /\ sn[j] # <<>>
    <3>1. m[j].drift = 0 /\ m[j].slip = e
      BY <2>7, <2>8, <2>9
    <3>2. e \in -2 .. 2 /\ DriftAfter(0, w[j].clock, items[j].sample)
      BY <2>6, <2>7, <2>9 DEF DriftTo
    <3> QED BY <1>10, <2>1, <3>1, <3>2
  <2>10. CASE ~(tk[j] /\ sn[j] # <<>>)
    <3>1. m[j].drift = e /\ m[j].slip = x.slip
      BY <2>7, <2>8, <2>10
    <3>2. DriftAfter(e, w[j].clock, items[j].sample)
      BY <2>6, <2>7, <2>10 DEF DriftTo
    <3> QED BY <1>10, <2>1, <2>2, <2>3, <3>1, <3>2
  <2> QED BY <2>9, <2>10
<1> QED BY <1>11, <1>12

(* What is on time and on its symbol, of a call on items. *)
OnTime(out, items) ==
  \A i \in DOMAIN items :
    LET s == items[i].sample
    IN s.id # 0 /\ s.age >= SYNC!FirstSymbol(s) =>
         ((\E k \in DOMAIN out : out[k].item = items[i])
            <=> (s.age - SYNC!FirstSymbol(s)) % ClockSamples = 0)
OnSymbol(out) ==
  \A k \in DOMAIN out :
    LET s    == out[k].item.sample
        sent == out[k].tags
    IN [i \in DOMAIN sent |-> sent[i].id] =
         IF s.id # 0 /\ s.age = SYNC!FirstSymbol(s) THEN <<s.id>> ELSE <<>>

(* What a call does is right. *)
LEMMA CallIsRight ==
  ASSUME FourSamples, delay \in Delays,
         NEW n \in Nat, NEW items \in Seq(Placed), NEW b, Called(b, items, n), Distinct(items, n),
         NEW w, NEW tk, NEW sn, Steps4(w, tk, sn, b, items, n)
  PROVE  /\ ClockAfter(w[n].clock, items[n].sample) /\ TagsAfter(w[n].tags, items[n].sample)
         /\ OnTime(w[n].out, items) /\ OnSymbol(w[n].out)
<1>1. n = Len(items) /\ n > 0 /\ n \in 1 .. n /\ DOMAIN items = 1 .. n
  BY DEF Called
<1>2. PICK out : out = w[n].out
  OBVIOUS
<1>3. OutOf(out, tk, sn, items, n)
  BY <1>1, <1>2, OutIs
<1>4. ASSUME NEW i \in 1 .. n
      PROVE  /\ tk[i] \in BOOLEAN
             /\ Step4(Before4(b, items, i), w[i - 1], w[i], items[i], tk[i], sn[i])
  BY DEF Steps4
<1>5. ClockAfter(w[n].clock, items[n].sample) /\ TagsAfter(w[n].tags, items[n].sample)
  BY <1>1, <1>4 DEF Step4
<1>6. OnTime(out, items)
  <2>1. ASSUME NEW i \in 1 .. n
        PROVE  tk[i] <=> \E k \in DOMAIN out : out[k].item = items[i]
    <3>1. SYNC!Taken(out, items[i]) # {} <=> tk[i]
      <4>1. tk[i] \in BOOLEAN
        BY <1>4
      <4> HIDE DEF Placed
      <4> QED BY <1>1, <1>3, <4>1, TakenIs
    <3> QED BY <3>1 DEF SYNC!Taken
  <2>2. ClockSamples = 4
    BY Four
  <2>3. ASSUME NEW i \in 1 .. n, NEW s, s = items[i].sample, s.id # 0, s.age >= SYNC!FirstSymbol(s)
        PROVE  tk[i] <=> (s.age - SYNC!FirstSymbol(s)) % 4 = 0
    BY <1>4, <2>3 DEF Step4
  <2> QED BY <1>1, <2>1, <2>2, <2>3 DEF OnTime
<1>7. OnSymbol(out)
  <2>1. ASSUME NEW k \in DOMAIN out, NEW s, s = out[k].item.sample, NEW sent, sent = out[k].tags
        PROVE  [i \in DOMAIN sent |-> sent[i].id] =
                 IF s.id # 0 /\ s.age = SYNC!FirstSymbol(s) THEN <<s.id>> ELSE <<>>
    <3>1. DOMAIN out = 1 .. Len(out)
      BY <1>3 DEF OutOf
    <3>2. PICK i \in 1 .. n : tk[i] /\ out[k] = [item |-> items[i], tags |-> sn[i]]
      BY <1>3, <3>1 DEF OutOf
    <3>3. Marks(sent, s)
      BY <1>4, <2>1, <3>2 DEF Step4
    <3>4. CASE s.id # 0 /\ s.age = SYNC!FirstSymbol(s)
      <4>1. PICK index \in Int : sent = <<[id |-> s.id, index |-> index]>>
        BY <3>3, <3>4 DEF Marks, Waits
      <4>2. DOMAIN sent = 1 .. 1 /\ \A j \in 1 .. 1 : sent[j].id = s.id
        BY <4>1
      <4>3. [j \in DOMAIN sent |-> sent[j].id] = [j \in 1 .. 1 |-> s.id]
        BY <4>2
      <4>4. [j \in 1 .. 1 |-> s.id] = <<s.id>>
        OBVIOUS
      <4> QED BY <3>4, <4>3, <4>4
    <3>5. CASE ~(s.id # 0 /\ s.age = SYNC!FirstSymbol(s))
      <4>1. sent = <<>>
        BY <3>3, <3>5 DEF Marks
      <4>2. [j \in DOMAIN sent |-> sent[j].id] = <<>>
        BY <4>1
      <4> QED BY <3>5, <4>2
    <3> QED BY <3>4, <3>5
  <2> QED BY <2>1 DEF OnSymbol
<1> QED BY <1>2, <1>5, <1>6, <1>7

(* The items of a chunk. *)
LEMMA ChunkIs ==
  ASSUME FreqInv, NEW n \in 1 .. Len(link)
  PROVE  /\ SYNC!Chunk(n) \in Seq(Placed) /\ Len(SYNC!Chunk(n)) = n
         /\ \A i \in 1 .. n : /\ SYNC!Chunk(n)[i].sample = link[i].sample
                              /\ SYNC!Chunk(n)[i].at = i
                              /\ link[i].sample \in Samples
         /\ Distinct(SYNC!Chunk(n), n)
<1>1. link \in Seq(Rotateds) /\ Len(link) \in Nat
  BY DEF FreqInv
<1>2. \A i \in 1 .. n : link[i] \in Rotateds /\ i \in Nat
  <2> HIDE DEF Rotateds
  <2> QED BY <1>1
<1>3. PICK c : c = SYNC!Chunk(n)
  OBVIOUS
<1>4. c = [i \in 1 .. n |-> [sample |-> link[i].sample, freq |-> link[i].freq, at |-> i]]
  BY <1>3 DEF SYNC!Chunk
<1>5. \A i \in 1 .. n : [sample |-> link[i].sample, freq |-> link[i].freq, at |-> i] \in Placed
  BY <1>2 DEF Rotateds, Placed
<1>6. c \in Seq(Placed) /\ Len(c) = n
  <2> HIDE DEF Placed
  <2> QED BY <1>4, <1>5
<1>7. \A i \in 1 .. n : c[i].sample = link[i].sample /\ c[i].at = i /\ link[i].sample \in Samples
  BY <1>2, <1>4 DEF Rotateds
<1>8. Distinct(c, n)
  BY <1>7 DEF Distinct
<1> QED BY <1>3, <1>6, <1>7, <1>8

(* The filter takes samples from the link. *)
LEMMA FilterTakes ==
  ASSUME FourSamples, FreqInv, SymbolInv, SYNC!Filter
  PROVE  SymbolInv'
<1>1. delay \in Delays /\ slip \in -2 .. 2 /\ Len(link) <= LinkCapacity
  BY DEF SymbolInv
<1>2. PICK b \in Samples : FilterAt(b)
  BY DEF SymbolInv
<1>3. /\ ClockAfter(clock_phase, b) /\ TagsAfter(tags, b) /\ DriftAfter(drift, clock_phase, b)
      /\ LinkFrom(b)
  BY <1>2 DEF FilterAt
<1>4. PICK n \in 1 .. Len(link) :
         /\ \A i \in 2 .. n : link[i].sample.age # 0
         /\ SYNC!FilterChunk(SYNC!Chunk(n))
         /\ link' = SubSeq(link, n + 1, Len(link))
         /\ sync_last' = sync_last
  BY DEF SYNC!Filter
<1>5. link \in Seq(Rotateds) /\ Len(link) \in Nat /\ n \in Nat /\ n > 0 /\ n <= Len(link)
  BY DEF FreqInv
<1>6. PICK items \in Seq(Placed) :
         /\ items = SYNC!Chunk(n) /\ Len(items) = n /\ Distinct(items, n)
         /\ \A i \in 1 .. n : items[i].sample = link[i].sample /\ link[i].sample \in Samples
  BY ChunkIs
<1>7. \A i \in 1 .. Len(link) :
         Follows4(IF i = 1 THEN b ELSE link[i - 1].sample, link[i].sample)
  BY <1>3 DEF LinkFrom
<1>8. Called(b, items, n)
  <2>1. 1 \in 1 .. n /\ 1 \in 1 .. Len(link)
    BY <1>5
  <2>2. Follows4(b, items[1].sample)
    BY <1>6, <1>7, <2>1
  <2>3. ASSUME NEW i \in 2 .. n
        PROVE  items[i].sample = SYNC!After(items[i - 1].sample)
    <3>1. i \in 1 .. n /\ i - 1 \in 1 .. n /\ i # 1 /\ i \in 1 .. Len(link)
      BY <1>5
    <3>2. Follows4(link[i - 1].sample, link[i].sample) /\ link[i].sample.age # 0
      BY <1>4, <1>7, <3>1
    <3> QED BY <1>6, <3>1, <3>2 DEF Follows4
  <2>4. \A i \in 1 .. n : items[i].sample \in Samples
    BY <1>6
  <2> HIDE DEF Placed
  <2> QED BY <1>3, <1>5, <1>6, <2>2, <2>3, <2>4 DEF Called
<1>9. PICK w, tk, sn : Steps4(w, tk, sn, b, items, n)
  BY <1>1, <1>5, <1>8, CallSteps
<1>10. SYNC!F!Run(items, items[1].sample.age = 0, items[1].sample.id, items[1].sample.early) = w[n]
  BY <1>9 DEF Steps4, StatesOf
<1>11. PICK s \in Samples : s = items[n].sample /\ s = link[n].sample
  BY <1>5, <1>6
<1>12. /\ clock_phase' = w[n].clock /\ tags' = w[n].tags /\ delay' = delay
       /\ chunk' = items /\ sync_out' = w[n].out
       /\ drift' = SYNC!Measure(items, w[n].out).drift
       /\ slip' = SYNC!Measure(items, w[n].out).slip
  BY <1>4, <1>6, <1>10 DEF SYNC!FilterChunk, SYNC!F!ProcessBulk, SYNC!F!Symbols
<1>13. /\ ClockAfter(w[n].clock, s) /\ TagsAfter(w[n].tags, s)
       /\ OnTime(w[n].out, items) /\ OnSymbol(w[n].out)
  BY <1>1, <1>5, <1>8, <1>6, <1>9, <1>11, CallIsRight
<1>14. slip' \in -2 .. 2 /\ DriftAfter(drift', w[n].clock, s)
  BY <1>1, <1>3, <1>5, <1>8, <1>6, <1>9, <1>11, <1>12, MeasureIs
<1>15. \A x : SYNC!FirstSymbol(x)' = SYNC!FirstSymbol(x)
  BY <1>12 DEF SYNC!FirstSymbol
<1>16. ClockAfter(clock_phase, s)' /\ TagsAfter(tags, s)' /\ DriftAfter(drift, clock_phase, s)'
  <2>1. AwaitsAfter(s)' <=> AwaitsAfter(s)
    BY <1>15 DEF AwaitsAfter
  <2>2. ClockAfter(clock_phase, s)'
    BY <1>12, <1>13, <1>15 DEF ClockAfter
  <2>3. TagsAfter(tags, s)'
    BY <1>12, <1>13, <2>1 DEF TagsAfter
  <2>4. DriftAfter(drift, clock_phase, s)'
    BY <1>12, <1>14, <2>1 DEF DriftAfter
  <2> QED BY <2>2, <2>3, <2>4
<1>17. PICK l : l = link' /\ Len(l) = Len(link) - n /\ \A i \in 1 .. Len(link) - n : l[i] = link[n + i]
  <2>1. PICK m \in Nat, v \in Seq(Rotateds) : m = Len(link) - n /\ v = link /\ Len(v) = m + n
    BY <1>5
  <2>2. PICK l : l = SubSeq(v, n + 1, m + n)
    OBVIOUS
  <2>3. Len(l) = m /\ \A i \in 1 .. m : l[i] = v[n + i]
    <3> HIDE DEF Rotateds
    <3>1. Len(l) = m
      BY <1>5, <2>1, <2>2
    <3>2. \A i \in 1 .. m : l[i] = v[n + i]
      BY <1>5, <2>1, <2>2
    <3> QED BY <3>1, <3>2
  <2> QED BY <1>4, <2>1, <2>2, <2>3
<1>18. LinkFrom(s)'
  <2>1. ASSUME NEW i \in 1 .. Len(l)
        PROVE  Follows4(IF i = 1 THEN s ELSE l[i - 1].sample, l[i].sample)
    <3>1. /\ n + i \in 1 .. Len(link) /\ n + i # 1 /\ l[i] = link[n + i]
          /\ (n + i) - 1 = n + (i - 1)
      BY <1>5, <1>17
    <3>2. Follows4(link[n + (i - 1)].sample, link[n + i].sample)
      BY <1>7, <3>1
    <3>3. CASE i = 1
      <4>1. n + (i - 1) = n
        BY <1>5, <3>3
      <4> QED BY <1>11, <3>1, <3>2, <3>3, <4>1
    <3>4. CASE i # 1
      <4>1. i - 1 \in 1 .. Len(link) - n
        BY <1>5, <1>17, <3>4
      <4> QED BY <1>17, <3>1, <3>2, <3>4, <4>1
    <3> QED BY <3>3, <3>4
  <2>2. link # <<>>
    BY <1>5
  <2>3. sync_last = link[Len(link)].sample
    BY <1>3, <2>2 DEF LinkFrom
  <2>4. sync_last = IF l = <<>> THEN s ELSE l[Len(l)].sample
    <3>1. CASE n = Len(link)
      <4>1. Len(l) = 0
        BY <1>5, <1>17, <3>1
      <4>2. l = <<>>
        <5>1. l \in Seq(Rotateds)
          <6> HIDE DEF Rotateds
          <6> QED BY <1>4, <1>5, <1>17
        <5> HIDE DEF Rotateds
        <5> QED BY <4>1, <5>1
      <4> QED BY <1>11, <2>3, <3>1, <4>2
    <3>2. CASE n # Len(link)
      <4>1. Len(l) \in 1 .. Len(link) - n /\ n + Len(l) = Len(link)
        BY <1>5, <1>17, <3>2
      <4>2. l[Len(l)] = link[Len(link)]
        BY <1>17, <4>1
      <4>3. l # <<>>
        BY <4>1
      <4> QED BY <2>3, <4>2, <4>3
    <3> QED BY <3>1, <3>2
  <2> QED BY <1>4, <1>17, <2>1, <2>4 DEF LinkFrom
<1>19. Len(link)' <= LinkCapacity
  <2>1. LinkCapacity \in Nat
    BY BlocksAssumption DEF SYNC!GapAssumption
  <2> QED BY <1>1, <1>5, <1>17, <2>1
<1>20. SYNC!SampledOnTime'
  BY <1>12, <1>13, <1>15 DEF OnTime, SYNC!SampledOnTime
<1>21. SYNC!TagOnSymbol'
  BY <1>12, <1>13, <1>15 DEF OnSymbol, SYNC!TagOnSymbol
<1>22. FilterAt(s)'
  BY <1>16, <1>18 DEF FilterAt
<1>23. Samples' = Samples
  BY DEF Samples
<1> QED BY <1>1, <1>12, <1>14, <1>19, <1>20, <1>21, <1>22, <1>23 DEF SymbolInv

(* Samples arrive. *)
LEMMA CorrectBrings ==
  ASSUME FourSamples, FreqInv, SymbolInv, NEW n \in Nat \ {0}, NEW first \in Samples,
         Follows4(sync_last, first), SYNC!Correct(SYNC!From(first, n))
  PROVE  SymbolInv'
<1>1. delay \in Delays /\ slip \in -2 .. 2 /\ SYNC!SampledOnTime /\ SYNC!TagOnSymbol
  BY DEF SymbolInv
<1>2. PICK b \in Samples : FilterAt(b)
  BY DEF SymbolInv
<1>3. /\ ClockAfter(clock_phase, b) /\ TagsAfter(tags, b) /\ DriftAfter(drift, clock_phase, b)
      /\ LinkFrom(b)
  BY <1>2 DEF FilterAt
<1>4. PICK samples \in Seq(Samples) :
         /\ samples = SYNC!From(first, n) /\ Len(samples) = n /\ samples[1] = first
         /\ \A j \in 2 .. n : samples[j] = SYNC!After(samples[j - 1])
  BY FromIs
<1>5. PICK r : link' = link \o [i \in 1 .. n |-> [sample |-> samples[i], freq |-> r[i]]]
  BY <1>4 DEF SYNC!Correct
<1>6. /\ Len(link) + n <= LinkCapacity /\ sync_last' = samples[n]
      /\ delay' = delay /\ clock_phase' = clock_phase /\ tags' = tags
      /\ chunk' = chunk /\ sync_out' = sync_out /\ drift' = drift /\ slip' = slip
  BY <1>4 DEF SYNC!Correct, SYNC!filter_vars
<1>7. PICK m \in Nat : m = Len(link)
  BY DEF FreqInv
<1>8. PICK l : /\ l = link' /\ Len(l) = m + n
               /\ \A i \in 1 .. m : l[i] = link[i]
               /\ \A i \in 1 .. n : l[m + i].sample = samples[i]
  <2>1. PICK news : news = [i \in 1 .. n |-> [sample |-> samples[i], freq |-> r[i]]]
    OBVIOUS
  <2>2. PICK D : D = {news[i] : i \in 1 .. n} \cup {link[i] : i \in 1 .. m}
    OBVIOUS
  <2>3. news \in Seq(D) /\ Len(news) = n /\ \A i \in 1 .. n : news[i].sample = samples[i]
    BY <2>1, <2>2
  <2>4. link \in Seq(D)
    <3>1. link \in Seq(Rotateds)
      BY DEF FreqInv
    <3> HIDE DEF Rotateds
    <3> QED BY <1>7, <2>2, <3>1
  <2>5. link' = link \o news
    BY <1>5, <2>1
  <2>6. /\ Len(link \o news) = m + n
        /\ \A i \in 1 .. m : (link \o news)[i] = link[i]
    BY <1>7, <2>3, <2>4
  <2>7. \A i \in 1 .. n : (link \o news)[m + i] = news[i]
    BY <1>7, <2>3, <2>4
  <2>8. PICK l : l = link \o news
    OBVIOUS
  <2>9. \A i \in 1 .. n : l[m + i].sample = samples[i]
    BY <2>3, <2>7, <2>8
  <2>10. Len(l) = m + n /\ (\A i \in 1 .. m : l[i] = link[i]) /\ l = link'
    BY <2>5, <2>6, <2>8
  <2> QED BY <2>9, <2>10
<1>9. LinkFrom(b)'
  <2>1. /\ \A i \in 1 .. m : Follows4(IF i = 1 THEN b ELSE link[i - 1].sample, link[i].sample)
        /\ sync_last = IF link = <<>> THEN b ELSE link[m].sample
    BY <1>3, <1>7 DEF LinkFrom
  <2>2. link = <<>> <=> m = 0
    <3>1. link \in Seq(Rotateds)
      BY DEF FreqInv
    <3> HIDE DEF Rotateds
    <3> QED BY <1>7, <3>1
  <2>3. ASSUME NEW i \in 1 .. m + n
        PROVE  Follows4(IF i = 1 THEN b ELSE l[i - 1].sample, l[i].sample)
    <3>1. CASE i \in 1 .. m
      <4>1. i # 1 => i - 1 \in 1 .. m
        BY <3>1
      <4> QED BY <1>8, <2>1, <3>1, <4>1
    <3>2. CASE i = m + 1
      <4>1. 1 \in 1 .. n
        OBVIOUS
      <4>2. l[i].sample = first
        BY <1>4, <1>8, <3>2, <4>1
      <4>3. CASE m = 0
        BY <2>1, <2>2, <3>2, <4>2, <4>3
      <4>4. CASE m # 0
        <5>1. i # 1 /\ i - 1 = m /\ m \in 1 .. m
          BY <3>2, <4>4
        <5>2. l[i - 1].sample = sync_last
          BY <1>8, <2>1, <2>2, <4>4, <5>1
        <5> QED BY <4>2, <5>1, <5>2
      <4> QED BY <4>3, <4>4
    <3>3. CASE ~(i \in 1 .. m) /\ i # m + 1
      <4>1. PICK j \in 2 .. n : i = m + j
        <5>1. i - m \in 2 .. n /\ i = m + (i - m)
          BY <3>3
        <5> QED BY <5>1
      <4>2. j \in 1 .. n /\ j - 1 \in 1 .. n /\ i - 1 = m + (j - 1) /\ i # 1
        BY <4>1
      <4>3. l[i].sample = samples[j] /\ l[i - 1].sample = samples[j - 1]
        BY <1>8, <4>1, <4>2
      <4>4. samples[j] = SYNC!After(samples[j - 1])
        BY <1>4
      <4> QED BY <4>2, <4>3, <4>4 DEF Follows4
    <3> QED BY <3>1, <3>2, <3>3
  <2>4. sync_last' = IF l = <<>> THEN b ELSE l[m + n].sample
    <3>1. m + n \in 1 .. m + n /\ n \in 1 .. n
      OBVIOUS
    <3>2. l # <<>>
      <4>1. Len(l) # 0
        BY <1>8
      <4> QED BY <4>1
    <3> QED BY <1>6, <1>8, <3>1, <3>2
  <2> QED BY <1>8, <2>3, <2>4 DEF LinkFrom
<1>10. \A x : SYNC!FirstSymbol(x)' = SYNC!FirstSymbol(x)
  BY <1>6 DEF SYNC!FirstSymbol
<1>11. AwaitsAfter(b)' <=> AwaitsAfter(b)
  BY <1>10 DEF AwaitsAfter
<1>12. ClockAfter(clock_phase, b)'
  BY <1>3, <1>6, <1>10 DEF ClockAfter
<1>13. TagsAfter(tags, b)'
  BY <1>3, <1>6, <1>11 DEF TagsAfter
<1>14. DriftAfter(drift, clock_phase, b)'
  BY <1>3, <1>6, <1>11 DEF DriftAfter
<1>15. FilterAt(b)'
  BY <1>9, <1>12, <1>13, <1>14 DEF FilterAt
<1>16. SYNC!SampledOnTime'
  BY <1>1, <1>6, <1>10 DEF SYNC!SampledOnTime
<1>17. SYNC!TagOnSymbol'
  BY <1>1, <1>6, <1>10 DEF SYNC!TagOnSymbol
<1>18. Len(link)' <= LinkCapacity
  BY <1>6, <1>7, <1>8
<1>19. Samples' = Samples
  BY DEF Samples
<1> QED BY <1>1, <1>6, <1>15, <1>16, <1>17, <1>18, <1>19 DEF SymbolInv

(* The clock begins in the invariant. *)
LEMMA SymbolsInitially ==
  ASSUME FourSamples, SYNC!Init
  PROVE  SymbolInv
<1>1. /\ delay \in Delays /\ sync_last = [id |-> 0, early |-> FALSE, age |-> MinGap]
      /\ link = <<>> /\ chunk = <<>> /\ sync_out = <<>>
      /\ drift = ClockSamples - 1 /\ slip = 0 /\ clock_phase = 0 /\ tags = <<>>
  BY DEF SYNC!Init, SYNC!F!Init
<1>2. PICK b \in Samples : b = sync_last
  <2>1. sync_last \in Samples
    BY <1>1, ClockSizes DEF Samples
  <2> QED BY <2>1
<1>3. b.id = 0 /\ ~AwaitsAfter(b)
  BY <1>1, <1>2 DEF AwaitsAfter
<1>4. ClockAfter(clock_phase, b) /\ TagsAfter(tags, b)
  BY <1>1, <1>3 DEF ClockAfter, TagsAfter
<1>5. DriftAfter(drift, clock_phase, b)
  <2>1. ClockSamples = 4
    BY DEF FourSamples
  <2>2. Phase(0) = 3
    BY PhaseIs
  <2> QED BY <1>1, <1>3, <2>1, <2>2 DEF DriftAfter
<1>6. LinkFrom(b)
  <2>1. Len(<<>>) = 0 /\ 1 .. 0 = {}
    OBVIOUS
  <2> QED BY <1>1, <1>2, <2>1 DEF LinkFrom
<1>7. FilterAt(b)
  BY <1>4, <1>5, <1>6 DEF FilterAt
<1>8. Len(link) <= LinkCapacity
  <2>1. Len(<<>>) = 0 /\ LinkCapacity \in Nat
    BY BlocksAssumption DEF SYNC!GapAssumption
  <2> QED BY <1>1, <2>1
<1>9. SYNC!SampledOnTime /\ SYNC!TagOnSymbol
  BY <1>1 DEF SYNC!SampledOnTime, SYNC!TagOnSymbol
<1> QED BY <1>1, <1>7, <1>8, <1>9 DEF SymbolInv

(* What the invariants say of the run's property. *)
LEMMA SymbolsAreOnTime ==
  ASSUME FourSamples, FreqInv, SymbolInv
  PROVE  SymbolsOnTime
<1>1. PICK b \in Samples : FilterAt(b)
  BY DEF SymbolInv
<1>2. clock_phase \in 0 .. ClockSamples - 1
  <2>1. ClockSamples - 1 = 3
    BY DEF FourSamples
  <2> QED BY <1>1, <2>1 DEF FilterAt, ClockAfter
<1>3. Len(tags) <= 1
  <2>1. \A n : Len(Waits(b, n)) = 1
    BY DEF Waits
  <2>2. Len(<<>>) = 0
    OBVIOUS
  <2>3. TagsAfter(tags, b)
    BY <1>1 DEF FilterAt
  <2>4. CASE AwaitsAfter(b)
    <3>1. tags = Waits(b, delay - b.age - 1) \/ tags = Waits(b, delay - b.age)
      BY <2>3, <2>4 DEF TagsAfter
    <3>2. Len(tags) = 1
      BY <2>1, <3>1
    <3> QED BY <3>2
  <2>5. CASE ~AwaitsAfter(b)
    <3>1. tags = <<>>
      BY <2>3, <2>5 DEF TagsAfter
    <3> QED BY <2>2, <3>1
  <2> QED BY <2>4, <2>5
<1>4. next_freq_delay \in -1 .. FreqDelay
  <2>1. /\ FreqAt(RotationNow, sync_last) /\ sync_last.age \in Nat /\ next_freq_delay \in Int
        /\ FreqDelay \in Nat
    BY ClockSizes DEF FreqInv, Samples
  <2> QED BY <2>1 DEF FreqAt, RotationNow
<1>5. freq \in 0 .. ClockIds /\ next_freq \in 0 .. ClockIds
  BY DEF FreqInv, Freqs
<1>6. Len(link) <= LinkCapacity /\ slip \in -2 .. 2
  BY DEF SymbolInv
<1>7. SYNC!TypeOK
  BY <1>2, <1>3, <1>4, <1>5, <1>6 DEF SYNC!TypeOK
<1>8. 2 * slip \in -4 .. 4
  BY <1>6
<1>9. SYNC!NoSymbolLostOrRepeated
  <2>1. ClockSamples = 4
    BY DEF FourSamples
  <2> QED BY <1>8, <2>1 DEF SYNC!NoSymbolLostOrRepeated
<1> QED BY <1>7, <1>9 DEF SymbolInv, SymbolsOnTime

(* From the first symbol of a packet on, exactly the samples that are      *)
(* whole symbols after it are taken, its tag goes with the first, and no   *)
(* symbol is lost or repeated between packets: with four samples in a      *)
(* symbol, for every delay of the filter with which an early tag is not    *)
(* late (see FourSamples), every distance of detections above it, and      *)
(* however the samples are cut (symbol_filter.hpp:126-230).                *)
THEOREM SymbolsOnTimeHolds ==
  ASSUME FourSamples
  PROVE  BenchSpec => []SymbolsOnTime
<1>1. BenchInit => FreqInv /\ SymbolInv
  BY FreqInitially, SymbolsInitially DEF BenchInit
<1>2. ASSUME FreqInv, SymbolInv, [BenchNext]_bench_vars
      PROVE  (FreqInv /\ SymbolInv)'
  <2>1. FreqInv'
    BY <1>2, RotationKeeps
  <2>2. CASE UNCHANGED sync_vars
    <3>1. /\ delay' = delay /\ clock_phase' = clock_phase /\ tags' = tags
          /\ sync_last' = sync_last /\ link' = link /\ chunk' = chunk /\ sync_out' = sync_out
          /\ drift' = drift /\ slip' = slip
      BY <2>2 DEF sync_vars
    <3>2. Samples' = Samples /\ \A x : SYNC!FirstSymbol(x)' = SYNC!FirstSymbol(x)
      BY <3>1 DEF Samples, SYNC!FirstSymbol
    <3>3. PICK b \in Samples : FilterAt(b)
      BY <1>2 DEF SymbolInv
    <3>4. AwaitsAfter(b)' <=> AwaitsAfter(b)
      BY <3>2 DEF AwaitsAfter
    <3>5. ClockAfter(clock_phase, b)' /\ TagsAfter(tags, b)' /\ DriftAfter(drift, clock_phase, b)'
      BY <3>1, <3>2, <3>3, <3>4 DEF FilterAt, ClockAfter, TagsAfter, DriftAfter
    <3>6. LinkFrom(b)'
      BY <3>1, <3>3 DEF FilterAt, LinkFrom
    <3>7. FilterAt(b)'
      BY <3>5, <3>6 DEF FilterAt
    <3>8. SYNC!SampledOnTime' /\ SYNC!TagOnSymbol'
      BY <1>2, <3>1, <3>2 DEF SymbolInv, SYNC!SampledOnTime, SYNC!TagOnSymbol
    <3>9. delay' \in Delays /\ slip' \in -2 .. 2 /\ Len(link)' <= LinkCapacity
      BY <1>2, <3>1 DEF SymbolInv
    <3>10. SymbolInv'
      BY <3>2, <3>7, <3>8, <3>9 DEF SymbolInv
    <3> QED BY <2>1, <3>10
  <2>3. CASE SyncStep
    <3>1. CASE SYNC!Quiet
      <4>1. PICK n \in 1 .. LinkCapacity : SYNC!Correct(SYNC!From(SYNC!After(sync_last), n))
        BY <3>1 DEF SYNC!Quiet
      <4>2. SYNC!After(sync_last) \in Samples /\ Follows4(sync_last, SYNC!After(sync_last))
        BY <1>2, AfterIs DEF FreqInv, Follows4
      <4>3. n \in Nat \ {0}
        OBVIOUS
      <4> QED BY <1>2, <2>1, <4>1, <4>2, <4>3, CorrectBrings
    <3>2. CASE SYNC!Detected
      <4>1. PICK n \in 1 .. LinkCapacity, early \in BOOLEAN :
                   /\ SYNC!Correct(SYNC!From(SYNC!Detection(early), n))
                   /\ sync_last.age >= MinGap - 1
        BY <3>2 DEF SYNC!Detected
      <4>2. /\ SYNC!Detection(early) \in Samples /\ SYNC!Detection(early).age = 0
            /\ SYNC!Detection(early).id # 0
        BY <1>2, DetectionIs DEF FreqInv
      <4>3. n \in Nat \ {0} /\ Follows4(sync_last, SYNC!Detection(early))
        BY <4>1, <4>2 DEF Follows4
      <4> QED BY <1>2, <2>1, <4>1, <4>2, <4>3, CorrectBrings
    <3>3. CASE SYNC!Filter
      BY <1>2, <2>1, <3>3, FilterTakes
    <3> QED BY <2>3, <3>1, <3>2, <3>3 DEF SyncStep, SYNC!Next
  <2>4. CASE FilterStep \/ DetectionStep \/ DecodingStep \/ UNCHANGED bench_vars
    BY <2>2, <2>4 DEF FilterStep, DetectionStep, DecodingStep, bench_vars
  <2> QED BY <1>2, <2>3, <2>4 DEF BenchNext
<1>3. FreqInv /\ SymbolInv => SymbolsOnTime
  BY SymbolsAreOnTime
<1> QED BY <1>1, <1>2, <1>3, PTL DEF BenchSpec
=============================================================================
