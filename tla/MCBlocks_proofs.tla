---------------------------- MODULE MCBlocks_proofs ----------------------------
(***************************************************************************)
(* Proofs about two of the parts that work on their own, for every value   *)
(* of their constants.                                                     *)
(*                                                                         *)
(* BurstShaper keeps IInv: place counts what is not remaining of a packet, *)
(* and ChunkShaped says of a chunk that each of its items gets the shape   *)
(* of its place.  ProbeRate keeps ProbeInv, which says of each step of the *)
(* thread what it has read so far.                                         *)
(***************************************************************************)
EXTENDS MCBlocks, TLAPS

-----------------------------------------------------------------------------
(* The stream form and the PDU form of BurstShaper multiply every item by  *)
(* the same, for all shapes, packets and ways to cut a packet in chunks.   *)

(* Within a packet place counts what is not remaining; and the part that   *)
(* is trailed is never longer than the trailing shape, as the first items  *)
(* of a packet are led before.                                             *)
Counts ==
  /\ failed = FALSE
  /\ packet_len \in Nat /\ remaining \in Nat /\ remaining <= packet_len
  /\ packet_len \in Lengths \cup {0}
  /\ place = packet_len - remaining

Shaped ==
  /\ out \in Seq(Shapes) /\ Len(out) <= place
  /\ FormsAgree

IInv == Counts /\ Shaped

(* What one call does with a chunk that ends within the packet: it takes   *)
(* all of it, and every item gets the shape of its place in the packet.    *)
LEMMA ChunkShaped ==
  ASSUME NEW len \in Nat, NEW left \in Nat, left <= len,
         NEW n \in Nat, n <= left, NEW tag,
         Length(tag) = len, Left(tag) = left
  PROVE  /\ Consumed(tag, n) = n
         /\ \A i \in 1 .. n :
              /\ ShapeOf(tag, n, i) = ProcessOne(len, len - left + i)
              /\ ShapeOf(tag, n, i) \in Shapes
<1> DEFINE pos == len - left
           led == Led(tag, n)
           copied == Copied(tag, n)
           trailed == Trailed(tag, n)
<1>0. /\ Leading \in Nat /\ Trailing \in Nat
      /\ Position(tag) = pos /\ pos \in Nat
  BY ShaperAssumption DEF Position
<1>1. /\ led \in Nat /\ led <= n
      /\ pos >= Leading => led = 0
      /\ pos < Leading /\ Leading - pos <= n => led = Leading - pos
      /\ pos < Leading /\ Leading - pos > n => led = n
  BY <1>0 DEF Led, Lesser
<1>2. /\ copied \in Nat /\ led + copied <= n
      /\ left - led <= Trailing => copied = 0
      /\ left - led > Trailing /\ left - Trailing <= n => copied = left - led - Trailing
      /\ left - led > Trailing /\ left - Trailing > n => copied = n - led
  <2> HIDE DEF led
  <2>1. copied = IF left - led > Trailing THEN Lesser(left - led - Trailing, n - led) ELSE 0
    BY DEF Copied, led
  <2>2. QED BY <1>0, <1>1, <2>1 DEF Lesser
<1>3. trailed = n - (led + copied)
  <2> HIDE DEF led, copied
  <2>1. trailed = Lesser(left - (led + copied), n - (led + copied))
    BY DEF Trailed, led, copied
  <2>2. QED BY <1>1, <1>2, <2>1 DEF Lesser
<1>4. Consumed(tag, n) = n
  <2>1. Consumed(tag, n) = led + copied + trailed
    BY DEF Consumed
  <2> HIDE DEF led, copied, trailed
  <2>2. QED BY <1>1, <1>2, <1>3, <2>1
<1>5. ASSUME NEW i \in 1 .. n
      PROVE  /\ ShapeOf(tag, n, i) = ProcessOne(len, pos + i)
             /\ ShapeOf(tag, n, i) \in Shapes
  <2>1. ShapeOf(tag, n, i) =
          CASE i <= led          -> <<"leading", pos + i>>
            [] i > led + copied  -> <<"trailing", Trailing - (left - i)>>
            [] OTHER             -> Plain
    BY <1>0 DEF ShapeOf
  <2>2. ProcessOne(len, pos + i) =
          LET t == IF len > Leading THEN Lesser(len - Leading, Trailing) ELSE 0
          IN CASE pos + i <= Lesser(Leading, len) -> <<"leading", pos + i>>
               [] pos + i > len - t -> <<"trailing", Trailing - (len - (pos + i))>>
               [] OTHER             -> Plain
    BY DEF ProcessOne
  <2> HIDE DEF led, copied, trailed
  <2>3. CASE i <= led
    <3>1. pos + i <= Leading /\ pos + i <= len
      BY <1>0, <1>1, <2>3
    <3>2. ShapeOf(tag, n, i) = <<"leading", pos + i>>
      BY <1>1, <1>2, <2>1, <2>3
    <3>3. ProcessOne(len, pos + i) = <<"leading", pos + i>>
      BY <1>0, <2>2, <3>1 DEF Lesser
    <3>4. pos + i \in Nat
      BY <1>0
    <3>5. QED BY <3>2, <3>3, <3>4 DEF Shapes
  <2>4. CASE i > led + copied
    <3>1. i > led /\ pos + i > Leading /\ pos + i <= len
      BY <1>0, <1>1, <1>2, <2>4
    <3>2. left - i < Trailing
      BY <1>0, <1>1, <1>2, <2>4
    <3>3. len - (pos + i) = left - i
      BY <1>0
    <3>4. QED BY <1>0, <1>1, <1>2, <2>1, <2>2, <2>4, <3>1, <3>2, <3>3 DEF Lesser, Shapes
  <2>5. CASE i > led /\ i <= led + copied
    <3>1. pos + i > Leading /\ pos + i <= len
      BY <1>0, <1>1, <1>2, <2>5
    <3>2. left - i >= Trailing
      BY <1>0, <1>1, <1>2, <2>5
    <3>3. len - (pos + i) = left - i
      BY <1>0
    <3>4. QED BY <1>0, <1>1, <1>2, <2>1, <2>2, <2>5, <3>1, <3>2, <3>3 DEF Lesser, Shapes, Plain
  <2>6. QED BY <1>0, <1>1, <1>2, <2>3, <2>4, <2>5
<1>6. QED BY <1>4, <1>5

(* Before the first packet nothing is remaining. *)
LEMMA InitShaped == Init => IInv
BY DEF Init, StreamInit, IInv, Counts, Shaped, FormsAgree

(* A call keeps the count, and what it publishes is shaped by place. *)
LEMMA CallShaped ==
  ASSUME IInv, NEW len \in Lengths, NEW tag, NEW n \in Nat \ {0},
         Length(tag) = len, Left(tag) \in Nat, n <= Left(tag), Left(tag) <= len,
         place' = len - Left(tag) + Len(out'),
         ProcessBulk(tag, n, out')
  PROVE  IInv'
<1> DEFINE left == Left(tag)
<1>0. len \in Nat \ {0}
  BY ShaperAssumption
<1>1. /\ Consumed(tag, n) = n
      /\ \A i \in 1 .. n : /\ ShapeOf(tag, n, i) = ProcessOne(len, len - left + i)
                           /\ ShapeOf(tag, n, i) \in Shapes
  BY <1>0, ChunkShaped
<1>2. Shape(tag, n, out')
  BY <1>0 DEF ProcessBulk, Fail
<1>3. /\ out' = [i \in 1 .. n |-> ShapeOf(tag, n, i)]
      /\ packet_len' = len /\ remaining' = left - n /\ failed' = failed
  BY <1>1, <1>2 DEF Shape
<1>4. out' \in Seq(Shapes) /\ Len(out') = n /\ DOMAIN out' = 1 .. n
  BY <1>1, <1>3
<1>5. Counts'
  BY <1>0, <1>3, <1>4 DEF IInv, Counts
<1>6. Shaped'
  <2>1. Len(out') <= place'
    BY <1>0, <1>4
  <2>2. ASSUME NEW i \in DOMAIN out'
        PROVE  out'[i] = ProcessOne(packet_len', place' - Len(out') + i)
    BY <1>0, <1>1, <1>3, <1>4, <2>2
  <2>3. QED BY <1>4, <2>1, <2>2 DEF Shaped, FormsAgree, PlaceOf
<1>7. QED BY <1>5, <1>6 DEF IInv

(* Any call does. *)
LEMMA NextShaped == IInv /\ [Next]_vars => IInv'
<1> SUFFICES ASSUME IInv, [Next]_vars
             PROVE  IInv'
  OBVIOUS
<1>1. CASE Next
  <2>1. PICK len \in (IF AtStart THEN Lengths ELSE {packet_len}), n \in 1 .. MaxChunk :
          /\ n <= (IF AtStart THEN len ELSE remaining)
          /\ ProcessBulk(IF AtStart THEN len ELSE 0, n, out')
          /\ place' = (IF AtStart THEN 0 ELSE place) + Len(out')
    BY <1>1 DEF Next
  <2>2. n \in Nat \ {0}
    BY ShaperAssumption
  <2>3. CASE AtStart
    <3>1. len \in Lengths /\ len \in Nat \ {0}
      BY <2>3, ShaperAssumption
    <3>2. /\ Length(len) = len /\ Left(len) = len
          /\ ProcessBulk(len, n, out') /\ n <= len /\ place' = 0 + Len(out')
      BY <2>1, <2>3 DEF Length, Left
    <3>3. place' = len - Left(len) + Len(out')
      BY <3>1, <3>2
    <3>4. QED BY <2>2, <3>1, <3>2, <3>3, CallShaped
  <2>4. CASE ~AtStart
    <3>1. len = packet_len /\ packet_len \in Lengths /\ remaining \in Nat \ {0}
      BY <2>1, <2>4 DEF IInv, Counts, AtStart
    <3>2. /\ Length(0) = len /\ Left(0) = remaining
          /\ ProcessBulk(0, n, out') /\ n <= remaining /\ place' = place + Len(out')
      BY <2>1, <2>4, <3>1 DEF Length, Left
    <3>3. remaining <= len /\ place' = len - Left(0) + Len(out')
      BY <3>1, <3>2 DEF IInv, Counts
    <3>4. QED BY <2>2, <3>1, <3>2, <3>3, CallShaped
  <2>5. QED BY <2>3, <2>4
<1>2. CASE UNCHANGED vars
  BY <1>2 DEF vars, IInv, Counts, Shaped, FormsAgree, PlaceOf
<1>3. QED BY <1>1, <1>2

(* A step of the bench is a call, or leaves the block alone. *)
LEMMA BenchShaped == IInv /\ [BenchNext]_bench_vars => IInv'
<1>1. [BenchNext]_bench_vars => [Next]_vars
  BY DEF BenchNext, ShapeStep, CrcStep, ResampleStep, ProbeStep, Probe, StreamStep,
     ModulationStep, bench_vars, shape_vars, vars
<1> QED BY <1>1, NextShaped

(* The block keeps its counts in range and never stops with an error. *)
THEOREM ShaperTypeCorrect == BenchSpec => []TypeOK
<1>1. BenchInit => IInv
  BY InitShaped DEF BenchInit
<1>2. IInv /\ [BenchNext]_bench_vars => IInv'
  BY BenchShaped
<1>3. IInv => TypeOK
  BY DEF IInv, Counts, Shaped, TypeOK
<1> QED BY <1>1, <1>2, <1>3, PTL DEF BenchSpec

(* Both forms of the block give the same burst, however the packet is cut  *)
(* into calls, also inside a shape (burst_shaper.hpp:94-122 and 153-165).  *)
THEOREM FormsAlwaysAgree == BenchSpec => []FormsAgree
<1>1. BenchInit => IInv
  BY InitShaped DEF BenchInit
<1>2. IInv /\ [BenchNext]_bench_vars => IInv'
  BY BenchShaped
<1>3. IInv => FormsAgree
  BY DEF IInv, Shaped
<1> QED BY <1>1, <1>2, <1>3, PTL DEF BenchSpec

-----------------------------------------------------------------------------
(* What the proof of ReportsRight needs.  The worker measures in steps,    *)
(* and between them others move: what it has read by each of its steps is  *)
(* a conjunct of its own.                                                  *)
Count == 0 .. Modulus - 1

Types ==
  /\ owner \in {"stopped", "running", "stopping", "joining", "pausing",
                "joining to pause", "paused"}
  /\ worker \in {"none", "starting", "working", "checking", "blocking", "waiting",
                 "leaving", "ended", "woken", "timed", "counted"}
  /\ mutex \in {"free", "worker"}
  /\ stop \in BOOLEAN
  /\ count_start \in Count /\ count_end \in Count
  /\ reported \in Count /\ first \in Count

(* wait_for() is called after the interval began, so that a wait that is   *)
(* over is not over before the interval is.                                *)
WaitsInInterval ==
  worker \in {"checking", "blocking", "waiting", "leaving"} => since_wait <= since_start

(* The worker goes on to the message only at the end of the interval.      *)
WholeInterval ==
  /\ worker = "leaving" /\ ~stop => since_start = Interval
  /\ worker = "woken" => since_start = Interval
  /\ worker \in {"timed", "counted"} => elapsed = Interval

ProbeInv == PROBE!ReportsRight /\ Types /\ WaitsInInterval /\ WholeInterval

(* The remainder of a number that is at most one turn away.                *)
LEMMA OneTurn ==
  ASSUME PROBE!ProbeAssumption
  PROVE  /\ \A x \in Int : x % Modulus \in Count
         /\ \A x \in Int : 0 <= x /\ x < Modulus => x % Modulus = x
         /\ \A x \in Int : Modulus <= x /\ x < 2 * Modulus => x % Modulus = x - Modulus
         /\ \A x \in Int : 0 - Modulus <= x /\ x < 0 => x % Modulus = x + Modulus
<1>1. Modulus \in Nat \ {0}
  BY DEF PROBE!ProbeAssumption
<1>2. \A x \in Int : x % Modulus \in Count
  BY <1>1 DEF Count
<1>3. \A x \in Int : 0 <= x /\ x < Modulus => x % Modulus = x
  BY <1>1
<1>4. \A x \in Int : Modulus <= x /\ x < 2 * Modulus => x % Modulus = x - Modulus
  BY <1>1
<1>5. \A x \in Int : 0 - Modulus <= x /\ x < 0 => x % Modulus = x + Modulus
  BY <1>1
<1> QED BY <1>2, <1>3, <1>4, <1>5

(* The difference of two counts, which wrapped or not.                     *)
LEMMA Differences ==
  ASSUME PROBE!ProbeAssumption, NEW a \in Count, NEW b \in Count
  PROVE  /\ PROBE!Minus(a, b) \in Count
         /\ a >= b => PROBE!Minus(a, b) = a - b
         /\ a < b => PROBE!Minus(a, b) = a - b + Modulus
<1>1. /\ Modulus \in Nat \ {0}
      /\ a \in Nat /\ a < Modulus /\ b \in Nat /\ b < Modulus
  BY DEF PROBE!ProbeAssumption, Count
<1>2. /\ a - b \in Int
      /\ a >= b => 0 <= a - b /\ a - b < Modulus
      /\ a < b => 0 - Modulus <= a - b /\ a - b < 0
  BY <1>1
<1> QED BY <1>2, OneTurn DEF PROBE!Minus

(* The sum of two counts.                                                  *)
LEMMA Sums ==
  ASSUME PROBE!ProbeAssumption, NEW a \in Count, NEW b \in Count
  PROVE  /\ (a + b) % Modulus \in Count
         /\ a + b < Modulus => (a + b) % Modulus = a + b
         /\ a + b >= Modulus => (a + b) % Modulus = a + b - Modulus
<1>1. /\ Modulus \in Nat \ {0}
      /\ a \in Nat /\ a < Modulus /\ b \in Nat /\ b < Modulus
  BY DEF PROBE!ProbeAssumption, Count
<1>2. /\ a + b \in Int
      /\ 0 <= a + b /\ a + b < 2 * Modulus
  BY <1>1
<1> QED BY <1>1, <1>2, OneTurn

(* Items that are consumed add to what the next message will tell of as    *)
(* they add to what was consumed in all.                                   *)
LEMMA ConsumedMore ==
  ASSUME PROBE!ProbeAssumption,
         NEW r \in Count, NEW s \in Count, NEW c \in Count, NEW f \in Count,
         NEW n \in Nat, PROBE!Minus(s, c) + n < Modulus,
         (r + PROBE!Minus(s, c)) % Modulus = PROBE!Minus(s, f)
  PROVE  (r + PROBE!Minus((s + n) % Modulus, c)) % Modulus = PROBE!Minus((s + n) % Modulus, f)
<1> DEFINE t == (s + n) % Modulus
<1>1. /\ Modulus \in Nat \ {0}
      /\ r \in Nat /\ r < Modulus /\ s \in Nat /\ s < Modulus
      /\ c \in Nat /\ c < Modulus /\ f \in Nat /\ f < Modulus
  BY DEF PROBE!ProbeAssumption, Count
<1>2. /\ PROBE!Minus(s, c) \in Count /\ PROBE!Minus(s, f) \in Count
      /\ PROBE!Minus(s, c) \in Nat /\ n < Modulus /\ n \in Count
  <2>1. PROBE!Minus(s, c) \in Count /\ PROBE!Minus(s, f) \in Count
    BY Differences
  <2>2. PROBE!Minus(s, c) \in Nat
    BY <1>1, <2>1 DEF Count
  <2>3. n < Modulus
    BY <1>1, <2>2
  <2> QED BY <1>1, <2>1, <2>2, <2>3 DEF Count
<1>3. /\ t \in Count
      /\ s + n < Modulus => t = s + n
      /\ s + n >= Modulus => t = s + n - Modulus
  BY <1>2, Sums
<1>4. /\ PROBE!Minus(t, c) \in Count /\ PROBE!Minus(t, f) \in Count
      /\ t \in Nat /\ t < Modulus
  BY <1>1, <1>3, Differences DEF Count
<1> HIDE DEF t
<1>5. /\ s >= c => PROBE!Minus(s, c) = s - c
      /\ s < c => PROBE!Minus(s, c) = s - c + Modulus
      /\ s >= f => PROBE!Minus(s, f) = s - f
      /\ s < f => PROBE!Minus(s, f) = s - f + Modulus
      /\ t >= c => PROBE!Minus(t, c) = t - c
      /\ t < c => PROBE!Minus(t, c) = t - c + Modulus
      /\ t >= f => PROBE!Minus(t, f) = t - f
      /\ t < f => PROBE!Minus(t, f) = t - f + Modulus
  BY <1>3, Differences
<1>6. PROBE!Minus(t, c) = PROBE!Minus(s, c) + n
  <2>1. t = IF s + n < Modulus THEN s + n ELSE s + n - Modulus
    BY <1>1, <1>2, <1>3
  <2>2. CASE s >= c
    <3>1. PROBE!Minus(s, c) = s - c
      BY <1>5, <2>2
    <3> QED BY <1>1, <1>2, <1>4, <1>5, <2>1, <2>2, <3>1
  <2>3. CASE s < c
    <3>1. PROBE!Minus(s, c) = s - c + Modulus
      BY <1>5, <2>3
    <3> QED BY <1>1, <1>2, <1>4, <1>5, <2>1, <2>3, <3>1
  <2> QED BY <1>1, <2>2, <2>3
<1>7. PROBE!Minus(t, f) = IF PROBE!Minus(s, f) + n < Modulus
                      THEN PROBE!Minus(s, f) + n ELSE PROBE!Minus(s, f) + n - Modulus
  <2>1. PROBE!Minus(t, f) \in Nat /\ PROBE!Minus(t, f) < Modulus
        /\ PROBE!Minus(s, f) \in Nat /\ PROBE!Minus(s, f) < Modulus
    BY <1>1, <1>2, <1>4 DEF Count
  <2>2. t = IF s + n < Modulus THEN s + n ELSE s + n - Modulus
    BY <1>1, <1>2, <1>3
  <2>3. CASE s >= f
    <3>1. PROBE!Minus(s, f) = s - f
      BY <1>5, <2>3
    <3> QED BY <1>1, <1>2, <1>4, <1>5, <2>1, <2>2, <2>3, <3>1
  <2>4. CASE s < f
    <3>1. PROBE!Minus(s, f) = s - f + Modulus
      BY <1>5, <2>4
    <3> QED BY <1>1, <1>2, <1>4, <1>5, <2>1, <2>2, <2>4, <3>1
  <2> QED BY <1>1, <2>3, <2>4
<1>8. /\ r + PROBE!Minus(s, c) < Modulus => (r + PROBE!Minus(s, c)) % Modulus = r + PROBE!Minus(s, c)
      /\ r + PROBE!Minus(s, c) >= Modulus => (r + PROBE!Minus(s, c)) % Modulus = r + PROBE!Minus(s, c) - Modulus
      /\ r + PROBE!Minus(t, c) < Modulus => (r + PROBE!Minus(t, c)) % Modulus = r + PROBE!Minus(t, c)
      /\ r + PROBE!Minus(t, c) >= Modulus => (r + PROBE!Minus(t, c)) % Modulus = r + PROBE!Minus(t, c) - Modulus
  BY <1>2, <1>4, Sums
<1>9. (r + PROBE!Minus(t, c)) % Modulus = PROBE!Minus(t, f)
  BY <1>1, <1>2, <1>6, <1>7, <1>8
<1> QED BY <1>9 DEF t

(* A message takes its items from what the next one will tell of.          *)
LEMMA ReportedMore ==
  ASSUME PROBE!ProbeAssumption,
         NEW r \in Count, NEW s \in Count, NEW c \in Count, NEW e \in Count
  PROVE  (((r + PROBE!Minus(e, c)) % Modulus) + PROBE!Minus(s, e)) % Modulus
           = (r + PROBE!Minus(s, c)) % Modulus
<1> DEFINE q == (r + PROBE!Minus(e, c)) % Modulus
<1>1. /\ Modulus \in Nat \ {0}
      /\ r \in Nat /\ r < Modulus /\ s \in Nat /\ s < Modulus
      /\ c \in Nat /\ c < Modulus /\ e \in Nat /\ e < Modulus
  BY DEF PROBE!ProbeAssumption, Count
<1>2. /\ PROBE!Minus(s, c) \in Count /\ PROBE!Minus(e, c) \in Count /\ PROBE!Minus(s, e) \in Count
  BY Differences
<1>3. /\ q \in Count
      /\ r + PROBE!Minus(e, c) < Modulus => q = r + PROBE!Minus(e, c)
      /\ r + PROBE!Minus(e, c) >= Modulus => q = r + PROBE!Minus(e, c) - Modulus
  BY <1>2, Sums
<1>4. q \in Nat /\ q < Modulus
  BY <1>1, <1>3 DEF Count
<1> HIDE DEF q
<1>5. /\ s >= c => PROBE!Minus(s, c) = s - c
      /\ s < c => PROBE!Minus(s, c) = s - c + Modulus
      /\ e >= c => PROBE!Minus(e, c) = e - c
      /\ e < c => PROBE!Minus(e, c) = e - c + Modulus
      /\ s >= e => PROBE!Minus(s, e) = s - e
      /\ s < e => PROBE!Minus(s, e) = s - e + Modulus
  BY Differences
<1>6. /\ r + PROBE!Minus(s, c) < Modulus => (r + PROBE!Minus(s, c)) % Modulus = r + PROBE!Minus(s, c)
      /\ r + PROBE!Minus(s, c) >= Modulus => (r + PROBE!Minus(s, c)) % Modulus = r + PROBE!Minus(s, c) - Modulus
      /\ q + PROBE!Minus(s, e) < Modulus => (q + PROBE!Minus(s, e)) % Modulus = q + PROBE!Minus(s, e)
      /\ q + PROBE!Minus(s, e) >= Modulus => (q + PROBE!Minus(s, e)) % Modulus = q + PROBE!Minus(s, e) - Modulus
  BY <1>2, <1>3, Sums
<1>7. (q + PROBE!Minus(s, e)) % Modulus = (r + PROBE!Minus(s, c)) % Modulus
  BY <1>1, <1>3, <1>4, <1>5, <1>6
<1> QED BY <1>7 DEF q

(* A thread that begins has told of nothing, and all that it will tell of  *)
(* is still to be consumed.                                                *)
LEMMA NothingYet ==
  ASSUME PROBE!ProbeAssumption, NEW s \in Count
  PROVE  (0 + PROBE!Minus(s, s)) % Modulus = PROBE!Minus(s, s)
<1>1. Modulus \in Nat \ {0} /\ 0 \in Count /\ s \in Nat /\ 0 \in Nat
  BY DEF PROBE!ProbeAssumption, Count
<1>2. PROBE!Minus(s, s) = 0
  BY <1>1, Differences
<1> QED BY <1>1, <1>2, OneTurn

LEMMA ProbeInit ==
  ASSUME PROBE!ProbeAssumption, PROBE!Init
  PROVE  ProbeInv
<1>1. /\ Interval \in Nat \ {0} /\ Modulus \in Nat \ {0} /\ 0 \in Count
  BY DEF PROBE!ProbeAssumption, Count
<1>2. (0 + PROBE!Minus(0, 0)) % Modulus = PROBE!Minus(0, 0)
  BY <1>1, NothingYet
<1>3. PROBE!TypeOK /\ PROBE!ReportsSpaced
  BY <1>1 DEF PROBE!Init, PROBE!TypeOK, PROBE!ReportsSpaced, PROBE!Idle
<1>4. PROBE!CountsAddUp
  BY <1>2 DEF PROBE!Init, PROBE!CountsAddUp
<1>5. Types /\ WaitsInInterval /\ WholeInterval
  BY <1>1 DEF PROBE!Init, Types, WaitsInInterval, WholeInterval
<1> QED BY <1>3, <1>4, <1>5 DEF ProbeInv, PROBE!ReportsRight

(* Steps that read or write neither the counts of the items nor the        *)
(* message leave the sums alone.                                           *)
LEMMA SumsKept ==
  ASSUME PROBE!CountsAddUp, PROBE!ReportsSpaced,
         UNCHANGED <<samples_consumed, count_start, reported, first, probe_rate>>,
         worker' # "starting" => worker # "starting"
  PROVE  PROBE!CountsAddUp' /\ PROBE!ReportsSpaced'
BY DEF PROBE!CountsAddUp, PROBE!ReportsSpaced, PROBE!Minus

(* ProbeInv is kept by every step.                                         *)
LEMMA ProbeNext ==
  ASSUME PROBE!ProbeAssumption, ProbeInv, [PROBE!Next]_(PROBE!vars)
  PROVE  ProbeInv'
<1>1. /\ Interval \in Nat \ {0} /\ Modulus \in Nat \ {0} /\ 0 \in Count
      /\ 0 \in 0 .. Interval
      /\ MaxBehind \in Nat /\ MaxBehind < Modulus
      /\ 0 .. MaxItems \subseteq Nat
  BY DEF PROBE!ProbeAssumption, Count
<1>2. /\ PROBE!TypeOK /\ PROBE!CountsAddUp /\ PROBE!ReportsSpaced
      /\ Types /\ WaitsInInterval /\ WholeInterval
  BY DEF ProbeInv, PROBE!ReportsRight
<1>3. /\ samples_consumed \in Count /\ count_start \in Count /\ count_end \in Count
      /\ reported \in Count /\ first \in Count
      /\ since_start \in Nat /\ since_start <= Interval
      /\ since_wait \in Nat /\ since_wait <= Interval
  <2>1. /\ samples_consumed \in Count
        /\ since_start \in 0 .. Interval /\ since_wait \in 0 .. Interval
    BY <1>2 DEF PROBE!TypeOK, Count
  <2>2. /\ count_start \in Count /\ count_end \in Count
        /\ reported \in Count /\ first \in Count
    BY <1>2 DEF Types
  <2> QED BY <1>1, <2>1, <2>2
<1> SUFFICES /\ PROBE!TypeOK' /\ PROBE!CountsAddUp' /\ PROBE!ReportsSpaced'
             /\ Types' /\ WaitsInInterval' /\ WholeInterval'
  BY DEF ProbeInv, PROBE!ReportsRight
<1>4. CASE PROBE!Lock
  <2>1. PROBE!CountsAddUp' /\ PROBE!ReportsSpaced'
    BY <1>2, <1>4, SumsKept DEF PROBE!Lock, PROBE!thread_vars, PROBE!block_vars, PROBE!count_vars,
       PROBE!ghost_vars
  <2>2. PROBE!TypeOK'
    BY <1>1, <1>2, <1>3, <1>4 DEF PROBE!Lock, PROBE!thread_vars, PROBE!block_vars, PROBE!count_vars,
       PROBE!ghost_vars, PROBE!TypeOK, Types, WholeInterval, PROBE!Idle
  <2>3. Types'
    BY <1>1, <1>2, <1>3, <1>4 DEF PROBE!Lock, PROBE!thread_vars, PROBE!block_vars, PROBE!count_vars,
       PROBE!ghost_vars, Types
  <2>4. WaitsInInterval'
    BY <1>1, <1>2, <1>3, <1>4 DEF PROBE!Lock, PROBE!thread_vars, PROBE!block_vars, PROBE!count_vars,
       PROBE!ghost_vars, WaitsInInterval
  <2>5. WholeInterval'
    BY <1>1, <1>2, <1>3, <1>4 DEF PROBE!Lock, PROBE!thread_vars, PROBE!block_vars, PROBE!count_vars,
       PROBE!ghost_vars, PROBE!TypeOK, WholeInterval, WaitsInInterval
  <2> QED BY <2>1, <2>2, <2>3, <2>4, <2>5
<1>5. CASE PROBE!Check
  <2>1. PROBE!CountsAddUp' /\ PROBE!ReportsSpaced'
    BY <1>2, <1>5, SumsKept DEF PROBE!Check, PROBE!thread_vars, PROBE!block_vars, PROBE!count_vars,
       PROBE!ghost_vars
  <2>2. PROBE!TypeOK'
    BY <1>1, <1>2, <1>3, <1>5 DEF PROBE!Check, PROBE!thread_vars, PROBE!block_vars, PROBE!count_vars,
       PROBE!ghost_vars, PROBE!TypeOK, Types, WholeInterval, PROBE!Idle
  <2>3. Types'
    BY <1>1, <1>2, <1>3, <1>5 DEF PROBE!Check, PROBE!thread_vars, PROBE!block_vars, PROBE!count_vars,
       PROBE!ghost_vars, Types
  <2>4. WaitsInInterval'
    BY <1>1, <1>2, <1>3, <1>5 DEF PROBE!Check, PROBE!thread_vars, PROBE!block_vars, PROBE!count_vars,
       PROBE!ghost_vars, WaitsInInterval
  <2>5. WholeInterval'
    BY <1>1, <1>2, <1>3, <1>5 DEF PROBE!Check, PROBE!thread_vars, PROBE!block_vars, PROBE!count_vars,
       PROBE!ghost_vars, PROBE!TypeOK, WholeInterval, WaitsInInterval
  <2> QED BY <2>1, <2>2, <2>3, <2>4, <2>5
<1>6. CASE PROBE!Block
  <2>1. PROBE!CountsAddUp' /\ PROBE!ReportsSpaced'
    BY <1>2, <1>6, SumsKept DEF PROBE!Block, PROBE!thread_vars, PROBE!block_vars, PROBE!count_vars,
       PROBE!ghost_vars
  <2>2. PROBE!TypeOK'
    BY <1>1, <1>2, <1>3, <1>6 DEF PROBE!Block, PROBE!thread_vars, PROBE!block_vars, PROBE!count_vars,
       PROBE!ghost_vars, PROBE!TypeOK, Types, WholeInterval, PROBE!Idle
  <2>3. Types'
    BY <1>1, <1>2, <1>3, <1>6 DEF PROBE!Block, PROBE!thread_vars, PROBE!block_vars, PROBE!count_vars,
       PROBE!ghost_vars, Types
  <2>4. WaitsInInterval'
    BY <1>1, <1>2, <1>3, <1>6 DEF PROBE!Block, PROBE!thread_vars, PROBE!block_vars, PROBE!count_vars,
       PROBE!ghost_vars, WaitsInInterval
  <2>5. WholeInterval'
    BY <1>1, <1>2, <1>3, <1>6 DEF PROBE!Block, PROBE!thread_vars, PROBE!block_vars, PROBE!count_vars,
       PROBE!ghost_vars, PROBE!TypeOK, WholeInterval, WaitsInInterval
  <2> QED BY <2>1, <2>2, <2>3, <2>4, <2>5
<1>7. CASE PROBE!Wake
  <2>1. PROBE!CountsAddUp' /\ PROBE!ReportsSpaced'
    BY <1>2, <1>7, SumsKept DEF PROBE!Wake, PROBE!thread_vars, PROBE!block_vars, PROBE!count_vars,
       PROBE!ghost_vars
  <2>2. PROBE!TypeOK'
    BY <1>1, <1>2, <1>3, <1>7 DEF PROBE!Wake, PROBE!thread_vars, PROBE!block_vars, PROBE!count_vars,
       PROBE!ghost_vars, PROBE!TypeOK, Types, WholeInterval, PROBE!Idle
  <2>3. Types'
    BY <1>1, <1>2, <1>3, <1>7 DEF PROBE!Wake, PROBE!thread_vars, PROBE!block_vars, PROBE!count_vars,
       PROBE!ghost_vars, Types
  <2>4. WaitsInInterval'
    BY <1>1, <1>2, <1>3, <1>7 DEF PROBE!Wake, PROBE!thread_vars, PROBE!block_vars, PROBE!count_vars,
       PROBE!ghost_vars, WaitsInInterval
  <2>5. WholeInterval'
    BY <1>1, <1>2, <1>3, <1>7 DEF PROBE!Wake, PROBE!thread_vars, PROBE!block_vars, PROBE!count_vars,
       PROBE!ghost_vars, PROBE!TypeOK, WholeInterval, WaitsInInterval
  <2> QED BY <2>1, <2>2, <2>3, <2>4, <2>5
<1>8. CASE PROBE!Timeout
  <2>1. PROBE!CountsAddUp' /\ PROBE!ReportsSpaced'
    BY <1>2, <1>8, SumsKept DEF PROBE!Timeout, PROBE!thread_vars, PROBE!block_vars, PROBE!count_vars,
       PROBE!ghost_vars
  <2>2. PROBE!TypeOK'
    BY <1>1, <1>2, <1>3, <1>8 DEF PROBE!Timeout, PROBE!thread_vars, PROBE!block_vars,
       PROBE!count_vars, PROBE!ghost_vars, PROBE!TypeOK, Types, WholeInterval, PROBE!Idle
  <2>3. Types'
    BY <1>1, <1>2, <1>3, <1>8 DEF PROBE!Timeout, PROBE!thread_vars, PROBE!block_vars,
       PROBE!count_vars, PROBE!ghost_vars, Types
  <2>4. WaitsInInterval'
    BY <1>1, <1>2, <1>3, <1>8 DEF PROBE!Timeout, PROBE!thread_vars, PROBE!block_vars,
       PROBE!count_vars, PROBE!ghost_vars, WaitsInInterval
  <2>5. WholeInterval'
    BY <1>1, <1>2, <1>3, <1>8 DEF PROBE!Timeout, PROBE!thread_vars, PROBE!block_vars,
       PROBE!count_vars, PROBE!ghost_vars, PROBE!TypeOK, WholeInterval, WaitsInInterval
  <2> QED BY <2>1, <2>2, <2>3, <2>4, <2>5
<1>9. CASE PROBE!Leave
  <2>1. PROBE!CountsAddUp' /\ PROBE!ReportsSpaced'
    BY <1>2, <1>9, SumsKept DEF PROBE!Leave, PROBE!thread_vars, PROBE!block_vars, PROBE!count_vars,
       PROBE!ghost_vars
  <2>2. PROBE!TypeOK'
    BY <1>1, <1>2, <1>3, <1>9 DEF PROBE!Leave, PROBE!thread_vars, PROBE!block_vars, PROBE!count_vars,
       PROBE!ghost_vars, PROBE!TypeOK, Types, WholeInterval, PROBE!Idle
  <2>3. Types'
    BY <1>1, <1>2, <1>3, <1>9 DEF PROBE!Leave, PROBE!thread_vars, PROBE!block_vars, PROBE!count_vars,
       PROBE!ghost_vars, Types
  <2>4. WaitsInInterval'
    BY <1>1, <1>2, <1>3, <1>9 DEF PROBE!Leave, PROBE!thread_vars, PROBE!block_vars, PROBE!count_vars,
       PROBE!ghost_vars, WaitsInInterval
  <2>5. WholeInterval'
    BY <1>1, <1>2, <1>3, <1>9 DEF PROBE!Leave, PROBE!thread_vars, PROBE!block_vars, PROBE!count_vars,
       PROBE!ghost_vars, PROBE!TypeOK, WholeInterval, WaitsInInterval
  <2> QED BY <2>1, <2>2, <2>3, <2>4, <2>5
<1>10. CASE PROBE!ReadClock
  <2>1. PROBE!CountsAddUp' /\ PROBE!ReportsSpaced'
    BY <1>2, <1>10, SumsKept DEF PROBE!ReadClock, PROBE!thread_vars, PROBE!block_vars,
       PROBE!count_vars, PROBE!ghost_vars
  <2>2. PROBE!TypeOK'
    BY <1>1, <1>2, <1>3, <1>10 DEF PROBE!ReadClock, PROBE!thread_vars, PROBE!block_vars,
       PROBE!count_vars, PROBE!ghost_vars, PROBE!TypeOK, Types, WholeInterval, PROBE!Idle
  <2>3. Types'
    BY <1>1, <1>2, <1>3, <1>10 DEF PROBE!ReadClock, PROBE!thread_vars, PROBE!block_vars,
       PROBE!count_vars, PROBE!ghost_vars, Types
  <2>4. WaitsInInterval'
    BY <1>1, <1>2, <1>3, <1>10 DEF PROBE!ReadClock, PROBE!thread_vars, PROBE!block_vars,
       PROBE!count_vars, PROBE!ghost_vars, WaitsInInterval
  <2>5. WholeInterval'
    BY <1>1, <1>2, <1>3, <1>10 DEF PROBE!ReadClock, PROBE!thread_vars, PROBE!block_vars,
       PROBE!count_vars, PROBE!ghost_vars, PROBE!TypeOK, WholeInterval, WaitsInInterval
  <2> QED BY <2>1, <2>2, <2>3, <2>4, <2>5
<1>11. CASE PROBE!ReadCount
  <2>1. PROBE!CountsAddUp' /\ PROBE!ReportsSpaced'
    BY <1>2, <1>11, SumsKept DEF PROBE!ReadCount, PROBE!thread_vars, PROBE!block_vars,
       PROBE!count_vars, PROBE!ghost_vars
  <2>2. PROBE!TypeOK'
    BY <1>1, <1>2, <1>3, <1>11 DEF PROBE!ReadCount, PROBE!thread_vars, PROBE!block_vars,
       PROBE!count_vars, PROBE!ghost_vars, PROBE!TypeOK, Types, WholeInterval, PROBE!Idle
  <2>3. Types'
    BY <1>1, <1>2, <1>3, <1>11 DEF PROBE!ReadCount, PROBE!thread_vars, PROBE!block_vars,
       PROBE!count_vars, PROBE!ghost_vars, Types
  <2>4. WaitsInInterval'
    BY <1>1, <1>2, <1>3, <1>11 DEF PROBE!ReadCount, PROBE!thread_vars, PROBE!block_vars,
       PROBE!count_vars, PROBE!ghost_vars, WaitsInInterval
  <2>5. WholeInterval'
    BY <1>1, <1>2, <1>3, <1>11 DEF PROBE!ReadCount, PROBE!thread_vars, PROBE!block_vars,
       PROBE!count_vars, PROBE!ghost_vars, PROBE!TypeOK, WholeInterval, WaitsInInterval
  <2> QED BY <2>1, <2>2, <2>3, <2>4, <2>5
<1>12. CASE PROBE!Tick
  <2>1. PROBE!CountsAddUp' /\ PROBE!ReportsSpaced'
    BY <1>2, <1>12, SumsKept DEF PROBE!Tick, PROBE!thread_vars, PROBE!block_vars, PROBE!count_vars,
       PROBE!ghost_vars
  <2>2. PROBE!TypeOK'
    <3>1. since_start' \in 0 .. Interval /\ since_wait' \in 0 .. Interval
      BY <1>1, <1>3, <1>12 DEF PROBE!Tick, PROBE!Later, PROBE!Least
    <3> QED BY <1>2, <1>12, <3>1 DEF PROBE!Tick, PROBE!thread_vars, PROBE!TypeOK
  <2>3. Types'
    BY <1>1, <1>2, <1>3, <1>12 DEF PROBE!Tick, PROBE!thread_vars, PROBE!block_vars, PROBE!count_vars,
       PROBE!ghost_vars, Types, PROBE!Later, PROBE!Least
  <2>4. WaitsInInterval'
    BY <1>1, <1>2, <1>3, <1>12 DEF PROBE!Tick, PROBE!thread_vars, PROBE!block_vars, PROBE!count_vars,
       PROBE!ghost_vars, WaitsInInterval, PROBE!Later, PROBE!Least
  <2>5. WholeInterval'
    BY <1>1, <1>2, <1>3, <1>12 DEF PROBE!Tick, PROBE!thread_vars, PROBE!block_vars, PROBE!count_vars,
       PROBE!ghost_vars, PROBE!TypeOK, WholeInterval, WaitsInInterval, PROBE!Later, PROBE!Least
  <2> QED BY <2>1, <2>2, <2>3, <2>4, <2>5
<1>13. CASE PROBE!CallStop
  <2>1. PROBE!CountsAddUp' /\ PROBE!ReportsSpaced'
    BY <1>2, <1>13, SumsKept DEF PROBE!CallStop, PROBE!thread_vars, PROBE!block_vars,
       PROBE!count_vars, PROBE!ghost_vars
  <2>2. PROBE!TypeOK'
    BY <1>1, <1>2, <1>3, <1>13 DEF PROBE!CallStop, PROBE!thread_vars, PROBE!block_vars,
       PROBE!count_vars, PROBE!ghost_vars, PROBE!TypeOK, Types, WholeInterval, PROBE!Idle
  <2>3. Types'
    BY <1>1, <1>2, <1>3, <1>13 DEF PROBE!CallStop, PROBE!thread_vars, PROBE!block_vars,
       PROBE!count_vars, PROBE!ghost_vars, Types
  <2>4. WaitsInInterval'
    BY <1>1, <1>2, <1>3, <1>13 DEF PROBE!CallStop, PROBE!thread_vars, PROBE!block_vars,
       PROBE!count_vars, PROBE!ghost_vars, WaitsInInterval
  <2>5. WholeInterval'
    BY <1>1, <1>2, <1>3, <1>13 DEF PROBE!CallStop, PROBE!thread_vars, PROBE!block_vars,
       PROBE!count_vars, PROBE!ghost_vars, PROBE!TypeOK, WholeInterval, WaitsInInterval
  <2> QED BY <2>1, <2>2, <2>3, <2>4, <2>5
<1>14. CASE PROBE!SetStop
  <2>1. PROBE!CountsAddUp' /\ PROBE!ReportsSpaced'
    BY <1>2, <1>14, SumsKept DEF PROBE!SetStop, PROBE!thread_vars, PROBE!block_vars, PROBE!count_vars,
       PROBE!ghost_vars
  <2>2. PROBE!TypeOK'
    BY <1>1, <1>2, <1>3, <1>14 DEF PROBE!SetStop, PROBE!thread_vars, PROBE!block_vars,
       PROBE!count_vars, PROBE!ghost_vars, PROBE!TypeOK, Types, WholeInterval, PROBE!Idle
  <2>3. Types'
    BY <1>1, <1>2, <1>3, <1>14 DEF PROBE!SetStop, PROBE!thread_vars, PROBE!block_vars,
       PROBE!count_vars, PROBE!ghost_vars, Types
  <2>4. WaitsInInterval'
    BY <1>1, <1>2, <1>3, <1>14 DEF PROBE!SetStop, PROBE!thread_vars, PROBE!block_vars,
       PROBE!count_vars, PROBE!ghost_vars, WaitsInInterval
  <2>5. WholeInterval'
    BY <1>1, <1>2, <1>3, <1>14 DEF PROBE!SetStop, PROBE!thread_vars, PROBE!block_vars,
       PROBE!count_vars, PROBE!ghost_vars, PROBE!TypeOK, WholeInterval, WaitsInInterval
  <2> QED BY <2>1, <2>2, <2>3, <2>4, <2>5
<1>15. CASE PROBE!Notify
  <2>1. PROBE!CountsAddUp' /\ PROBE!ReportsSpaced'
    BY <1>2, <1>15, SumsKept DEF PROBE!Notify, PROBE!thread_vars, PROBE!block_vars, PROBE!count_vars,
       PROBE!ghost_vars
  <2>2. PROBE!TypeOK'
    BY <1>1, <1>2, <1>3, <1>15 DEF PROBE!Notify, PROBE!thread_vars, PROBE!block_vars,
       PROBE!count_vars, PROBE!ghost_vars, PROBE!TypeOK, Types, WholeInterval, PROBE!Idle
  <2>3. Types'
    BY <1>1, <1>2, <1>3, <1>15 DEF PROBE!Notify, PROBE!thread_vars, PROBE!block_vars,
       PROBE!count_vars, PROBE!ghost_vars, Types
  <2>4. WaitsInInterval'
    BY <1>1, <1>2, <1>3, <1>15 DEF PROBE!Notify, PROBE!thread_vars, PROBE!block_vars,
       PROBE!count_vars, PROBE!ghost_vars, WaitsInInterval
  <2>5. WholeInterval'
    BY <1>1, <1>2, <1>3, <1>15 DEF PROBE!Notify, PROBE!thread_vars, PROBE!block_vars,
       PROBE!count_vars, PROBE!ghost_vars, PROBE!TypeOK, WholeInterval, WaitsInInterval
  <2> QED BY <2>1, <2>2, <2>3, <2>4, <2>5
<1>16. CASE PROBE!Join
  <2>1. PROBE!CountsAddUp' /\ PROBE!ReportsSpaced'
    BY <1>2, <1>16, SumsKept DEF PROBE!Join, PROBE!thread_vars, PROBE!block_vars, PROBE!count_vars,
       PROBE!ghost_vars
  <2>2. PROBE!TypeOK'
    BY <1>1, <1>2, <1>3, <1>16 DEF PROBE!Join, PROBE!thread_vars, PROBE!block_vars, PROBE!count_vars,
       PROBE!ghost_vars, PROBE!TypeOK, Types, WholeInterval, PROBE!Idle
  <2>3. Types'
    BY <1>1, <1>2, <1>3, <1>16 DEF PROBE!Join, PROBE!thread_vars, PROBE!block_vars, PROBE!count_vars,
       PROBE!ghost_vars, Types
  <2>4. WaitsInInterval'
    BY <1>1, <1>2, <1>3, <1>16 DEF PROBE!Join, PROBE!thread_vars, PROBE!block_vars, PROBE!count_vars,
       PROBE!ghost_vars, WaitsInInterval
  <2>5. WholeInterval'
    BY <1>1, <1>2, <1>3, <1>16 DEF PROBE!Join, PROBE!thread_vars, PROBE!block_vars, PROBE!count_vars,
       PROBE!ghost_vars, PROBE!TypeOK, WholeInterval, WaitsInInterval
  <2> QED BY <2>1, <2>2, <2>3, <2>4, <2>5
<1>17. CASE PROBE!Start \/ PROBE!Resume
  <2>1. PICK x \in Count : PROBE!StartWith(x)
    BY <1>1, <1>3, <1>17 DEF PROBE!Start, PROBE!Resume
  <2>2. PROBE!CountsAddUp' /\ PROBE!ReportsSpaced'
    BY <1>2, <2>1 DEF PROBE!StartWith, PROBE!CountsAddUp, PROBE!ReportsSpaced, PROBE!ghost_vars
  <2>3. PROBE!TypeOK'
    BY <1>1, <1>2, <1>3, <1>17, <2>1 DEF PROBE!Start, PROBE!Resume, PROBE!StartWith, PROBE!TypeOK, Types, Count,
       PROBE!Idle, PROBE!count_vars, PROBE!ghost_vars
  <2>4. Types' /\ WaitsInInterval' /\ WholeInterval'
    BY <1>2, <2>1 DEF PROBE!StartWith, Types, WaitsInInterval, WholeInterval,
       PROBE!count_vars, PROBE!ghost_vars
  <2> QED BY <2>2, <2>3, <2>4
<1>18. CASE PROBE!Begin
  <2>1. PROBE!CountsAddUp' /\ PROBE!ReportsSpaced'
    BY <1>2, <1>3, <1>18, NothingYet DEF PROBE!Begin, PROBE!CountsAddUp, PROBE!ReportsSpaced, PROBE!Minus
  <2>2. PROBE!TypeOK'
    BY <1>1, <1>2, <1>18 DEF PROBE!Begin, PROBE!TypeOK, Types, PROBE!Idle
  <2>3. Types' /\ WaitsInInterval' /\ WholeInterval'
    BY <1>1, <1>2, <1>3, <1>18 DEF PROBE!Begin, Types, WaitsInInterval, WholeInterval
  <2> QED BY <2>1, <2>2, <2>3
<1>19. CASE PROBE!Report
  <2>1. /\ reported' = (reported + PROBE!Minus(count_end, count_start)) % Modulus
        /\ count_start' = count_end
        /\ probe_rate'.time = elapsed
        /\ UNCHANGED <<samples_consumed, first>>
        /\ worker = "counted" /\ worker' = "working"
    BY <1>19 DEF PROBE!Report, PROBE!NextStart
  <2>2. PROBE!CountsAddUp'
    <3>1. (reported + PROBE!Minus(samples_consumed, count_start)) % Modulus
            = PROBE!Minus(samples_consumed, first)
      BY <1>2, <2>1 DEF PROBE!CountsAddUp
    <3>2. (reported' + PROBE!Minus(samples_consumed, count_end)) % Modulus
            = PROBE!Minus(samples_consumed, first)
      BY <1>3, <2>1, <3>1, ReportedMore
    <3> QED BY <2>1, <3>2 DEF PROBE!CountsAddUp, PROBE!Minus
  <2>3. PROBE!ReportsSpaced'
    BY <1>2, <2>1 DEF PROBE!ReportsSpaced, WholeInterval
  <2>4. PROBE!TypeOK'
    BY <1>1, <1>2, <1>19 DEF PROBE!Report, PROBE!TypeOK, Types, PROBE!Idle
  <2>5. reported' \in Count
    BY <1>3, <2>1, Differences, Sums
  <2>6. Types' /\ WaitsInInterval' /\ WholeInterval'
    BY <1>2, <1>3, <1>19, <2>1, <2>5 DEF PROBE!Report, Types, WaitsInInterval, WholeInterval
  <2> QED BY <2>2, <2>3, <2>4, <2>6
<1>20. CASE \E n \in 0 .. MaxItems : PROBE!ProcessBulk(n)
  <2>1. PICK n \in 0 .. MaxItems : PROBE!ProcessBulk(n)
    BY <1>20
  <2>2. /\ n \in Nat
        /\ samples_consumed' = (samples_consumed + n) % Modulus
        /\ UNCHANGED <<worker, owner, stop, mutex, count_start, count_end, since_start,
                       elapsed, since_wait, probe_rate, reported, first>>
    BY <1>1, <2>1 DEF PROBE!ProcessBulk, PROBE!thread_vars, PROBE!count_vars, PROBE!ghost_vars
  <2>3. samples_consumed' \in Count
    BY <1>1, <1>3, <2>2, OneTurn DEF Count
  <2>4. PROBE!CountsAddUp'
    <3>1. SUFFICES ASSUME worker # "starting"
                   PROVE  (reported + PROBE!Minus(samples_consumed', count_start)) % Modulus
                            = PROBE!Minus(samples_consumed', first)
      BY <2>2 DEF PROBE!CountsAddUp, PROBE!Minus
    <3>2. PROBE!Minus(samples_consumed, count_start) + n < Modulus
      <4>1. PROBE!Minus(samples_consumed, count_start) + n <= MaxBehind
        BY <2>1, <3>1 DEF PROBE!ProcessBulk
      <4>2. PROBE!Minus(samples_consumed, count_start) \in Nat
        BY <1>1, <1>3, Differences DEF Count
      <4> QED BY <1>1, <2>2, <4>1, <4>2
    <3> QED BY <1>2, <1>3, <2>2, <3>1, <3>2, ConsumedMore DEF PROBE!CountsAddUp
  <2>5. PROBE!TypeOK'
    BY <1>2, <2>2, <2>3 DEF PROBE!TypeOK, Count
  <2>6. PROBE!ReportsSpaced' /\ Types'
    BY <1>2, <2>2 DEF PROBE!ReportsSpaced, Types
  <2>7. WaitsInInterval' /\ WholeInterval'
    BY <1>2, <2>2 DEF WaitsInInterval, WholeInterval
  <2> QED BY <2>4, <2>5, <2>6, <2>7
<1>21. CASE UNCHANGED PROBE!vars
  BY <1>2, <1>21 DEF PROBE!vars, PROBE!thread_vars, PROBE!block_vars, PROBE!count_vars, PROBE!ghost_vars, PROBE!TypeOK, PROBE!CountsAddUp, PROBE!ReportsSpaced,
     Types, WaitsInInterval, WholeInterval, PROBE!Minus
<1> QED BY <1>4, <1>5, <1>6, <1>7, <1>8, <1>9, <1>10, <1>11, <1>12, <1>13,
   <1>14, <1>15, <1>16, <1>17, <1>18, <1>19, <1>20, <1>21 DEF PROBE!Next, PROBE!Worker,
   PROBE!OwnerStep

(* However the threads and the clock interleave, and whatever wakes the    *)
(* wait, the messages of a thread add up to what was consumed while it     *)
(* ran, but for what the next one will tell of, and no message is of less  *)
(* than the update time (probe_rate.hpp:25,53-80).                         *)
THEOREM ReportsRightHolds == BenchSpec => []ReportsRight
<1>1. BenchInit => ProbeInv
  BY PartsAssumption, ProbeInit DEF BenchInit
<1>2. ProbeInv /\ [BenchNext]_bench_vars => ProbeInv'
  <2>1. [BenchNext]_bench_vars => [PROBE!Next]_(PROBE!vars)
    BY DEF BenchNext, ShapeStep, CrcStep, ResampleStep, ProbeStep, Probe, StreamStep,
       ModulationStep, bench_vars, probe_vars, PROBE!vars, PROBE!thread_vars,
       PROBE!block_vars, PROBE!count_vars, PROBE!ghost_vars
  <2> QED BY <2>1, PartsAssumption, ProbeNext
<1>3. ProbeInv => ReportsRight
  BY DEF ProbeInv, ReportsRight
<1> QED BY <1>1, <1>2, <1>3, PTL DEF BenchSpec
=============================================================================
