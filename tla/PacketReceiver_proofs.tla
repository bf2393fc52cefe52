------------------------ MODULE PacketReceiver_proofs ------------------------
(***************************************************************************)
(* Proofs about PacketReceiver: for all sizes, chunks and interleavings, a *)
(* receiver that is started again applies every message to the packet it   *)
(* is about, its two trackers agree on where packets end, its splitter     *)
(* never throws and its buffers never overflow.                            *)
(*                                                                         *)
(* The invariant says where the packets are that the loop knows of.  There *)
(* are at most two: the filter's, sdf_id, and the insert block's, pmi_id.  *)
(***************************************************************************)
EXTENDS PacketReceiver, SequenceTheorems, TLAPS

Allowed == SyncwordSize + HeaderSize + AllowedMargin
HeaderEnd == SyncwordSize + HeaderSize
PacketEnd == HeaderEnd + pmi_payload_symbols

(* The filter waits for a message about its packet. *)
Waits == sdf_in_packet /\ sdf_block_until = 0

NoTag == \A i \in 1 .. Len(chain) : chain[i] = 0

(* The insert block is in the payload of its packet. *)
Sending == pmi_in_packet /\ pmi_position > HeaderEnd

(* The items that the insert block has published of a header whose payload *)
(* it has not begun.                                                       *)
HeaderItems ==
  IF pmi_in_packet /\ pmi_position <= HeaderEnd /\ pmi_position > SyncwordSize
    THEN pmi_position - SyncwordSize
    ELSE 0

-----------------------------------------------------------------------------
(* The inductive invariant.                                                *)

(* A detection in the chain is that of the filter's packet, of which       *)
(* nothing but the chain has any trace.                                    *)
TagOfFilter ==
  \A i \in 1 .. Len(chain) : chain[i] # 0 =>
    /\ chain[i] = sdf_id /\ Waits /\ sdf_position = Len(chain) - i + 1
    /\ pmi_id # sdf_id /\ parsed_sdf = <<>> /\ ignored = <<>>

(* The next identity is not in use. *)
IdsApart == NoTag => pmi_id # NextId

(* The insert block is distance symbols ahead of a detection, before the   *)
(* payload of a packet that the filter has left: there are enough symbols  *)
(* for it to leave the packet as late as the margin before its end ...     *)
MessageWaits(distance) ==
  /\ pmi_position = HeaderEnd /\ parsed_pmi # <<>> /\ pmi_id # NextId
  /\ HeaderEnd + distance >= Allowed
  /\ parsed_pmi[1].meta # 0 => HeaderEnd + distance >= SDF!BlockUntil(parsed_pmi[1].meta)

(* ... or in the payload. *)
PayloadEnds(distance) ==
  /\ pmi_position > HeaderEnd
  /\ pmi_position + distance >= PacketEnd - AllowedMargin
  /\ pmi_position + distance < PacketEnd => pmi_id # NextId

TagAfterPacket ==
  \A i \in 1 .. Len(chain) : chain[i] # 0 /\ pmi_in_packet =>
    MessageWaits(i - 1) \/ PayloadEnds(i - 1)

(* The insert block has ignored the detection of the filter's packet, and  *)
(* has had it in the margin at the end of its own.                         *)
IgnoredBehind ==
  NoTag /\ pmi_in_packet /\ pmi_id # sdf_id =>
    /\ pmi_position > HeaderEnd
    /\ pmi_position + Len(chain) >= PacketEnd - AllowedMargin + sdf_position

(* The filter has left a packet of which the insert block has not seen the *)
(* end: it has let through what a packet that it leaves needs.             *)
ClosedBehind ==
  pmi_in_packet /\ ~sdf_in_packet =>
    sdf_block_until # 0 /\ sdf_position >= Allowed /\ sdf_position >= sdf_block_until

(* In the same packet, the two blocks are the chain apart. *)
SamePlace ==
  pmi_in_packet /\ pmi_id = sdf_id =>
    /\ sdf_in_packet => pmi_position + Len(chain) = sdf_position
    /\ ~sdf_in_packet => pmi_position + Len(chain) >= sdf_position

(* A header without a message is that of the packet the filter waits for.  *)
Undecoded ==
  pmi_in_packet /\ pmi_position <= HeaderEnd /\ parsed_pmi = <<>> =>
    pmi_id = sdf_id /\ Waits /\ parsed_sdf = <<>> /\ ignored = <<>>

CodedOfPacket ==
  /\ Len(coded) <= 1
  /\ coded # <<>> =>
       /\ coded[1] = pmi_id /\ pmi_id = sdf_id
       /\ pmi_in_packet /\ pmi_position = HeaderEnd
       /\ Waits /\ parsed_pmi = <<>> /\ parsed_sdf = <<>> /\ ignored = <<>>

(* The message of the insert block; the filter has it too, or has used it. *)
MessageOfInsert ==
  /\ Len(parsed_pmi) <= 1
  /\ parsed_pmi # <<>> =>
       /\ parsed_pmi[1].id = pmi_id /\ coded = <<>>
       /\ pmi_in_packet /\ pmi_position = HeaderEnd
       /\ pmi_id = sdf_id =>
            \/ Waits /\ parsed_sdf = parsed_pmi
            \/ parsed_sdf = <<>> /\ sdf_block_until = SDF!BlockUntil(parsed_pmi[1].meta)

(* The messages of the filter; the insert block may have used its copy. *)
MessageOfFilter ==
  /\ Len(parsed_sdf) <= 1 /\ Len(ignored) <= 1
  /\ parsed_sdf # <<>> =>
       /\ Waits /\ parsed_sdf[1].id = sdf_id /\ pmi_id = sdf_id
       /\ ignored = <<>> /\ coded = <<>>
       /\ pmi_in_packet /\ parsed_pmi = <<>> =>
            /\ pmi_position > HeaderEnd
            /\ parsed_sdf[1].meta # 0
            /\ pmi_payload_symbols = PMI!PayloadSymbols(parsed_sdf[1].meta)
  /\ ignored # <<>> => Waits /\ ignored[1] = sdf_id /\ pmi_id # sdf_id /\ NoTag

EndAgreed ==
  Sending /\ pmi_id = sdf_id /\ sdf_block_until # 0 =>
    sdf_block_until = PacketEnd - AllowedMargin

PacketBounds ==
  /\ pmi_payload_symbols \in Payloads
  /\ pmi_in_packet => pmi_position < PacketEnd

(* The items from the insert block to the splitter: the rest of a payload  *)
(* that has begun, perhaps with the header of the next packet behind it ...*)
InPayload ==
  /\ hps_in_payload /\ hps_position < hps_payload_items
  /\ \A i \in 1 .. Len(symbols) : symbols[i].bits = 0
  /\ coded = <<>> /\ parsed_pmi = <<>>
  /\ Sending => /\ hps_payload_items = pmi_payload_symbols
                /\ hps_position + Len(symbols) = pmi_position - HeaderEnd
  /\ ~Sending => /\ hps_position + Len(symbols) = hps_payload_items + HeaderItems
                 /\ \A i \in 1 .. Len(symbols) :
                      hps_position + i > hps_payload_items => symbols[i].id = pmi_id

(* ... a payload that has not, in the same way ... *)
BeforePayload ==
  /\ ~hps_in_payload /\ hps_position = HeaderSize
  /\ Len(symbols) > 0
  /\ \A i \in 1 .. Len(symbols) : symbols[i].bits = 0 <=> i > 1
  /\ coded = <<>> /\ parsed_pmi = <<>>
  /\ Sending => /\ symbols[1].bits = pmi_payload_symbols
                /\ Len(symbols) = pmi_position - HeaderEnd
  /\ ~Sending => /\ Len(symbols) = symbols[1].bits + HeaderItems
                 /\ \A i \in 1 .. Len(symbols) :
                      i > symbols[1].bits => symbols[i].id = pmi_id

(* ... a part of a header ... *)
InHeader ==
  /\ ~hps_in_payload /\ ~Sending
  /\ \A i \in 1 .. Len(symbols) : symbols[i].bits = 0 /\ symbols[i].id = pmi_id
  /\ coded = <<>> /\ parsed_pmi = <<>>
  /\ hps_position <= HeaderSize
  /\ HPS!HeaderStart + Len(symbols) = HeaderItems

(* ... or nothing, while a header that is complete is decoded. *)
HeaderDone ==
  /\ ~hps_in_payload /\ hps_position = HeaderSize /\ symbols = <<>>
  /\ coded # <<>> \/ parsed_pmi # <<>>

ItemsInOrder == ~hps_failed /\ (InPayload \/ BeforePayload \/ InHeader \/ HeaderDone)

Inv ==
  /\ TypeOK
  /\ TagOfFilter /\ IdsApart /\ TagAfterPacket /\ IgnoredBehind /\ ClosedBehind
  /\ SamePlace /\ Undecoded /\ CodedOfPacket /\ MessageOfInsert /\ MessageOfFilter
  /\ EndAgreed /\ PacketBounds
  /\ ItemsInOrder

-----------------------------------------------------------------------------
(* Sizes, identities and sequences.                                        *)

(* The sizes are numbers, and the margin fits between delay and header. *)
LEMMA Sizes ==
  /\ SyncwordSize \in Nat /\ SyncwordSize > 0
  /\ HeaderSize \in Nat /\ HeaderSize > 0
  /\ AllowedMargin \in Nat /\ AllowedMargin > 0 /\ AllowedMargin < HeaderEnd
  /\ Allowed \in Nat /\ HeaderEnd \in Nat /\ Allowed = HeaderEnd + AllowedMargin
  /\ SDF!Allowed = Allowed /\ PMI!HeaderEnd = HeaderEnd
  /\ ChainDelay \in Nat /\ MaxChunk \in Nat
  /\ Log \in BOOLEAN /\ TimeThreshold \in Nat
  /\ ChainCapacity \in Nat /\ LinkCapacity \in Nat
  /\ QueueCapacity \in Nat /\ QueueCapacity > 0
  BY ReceiverAssumption DEF Allowed, HeaderEnd, SDF!Allowed, PMI!HeaderEnd

(* Every payload is longer than the margin at its end. *)
LEMMA PayloadSizes ==
  /\ \A len \in Lengths : PMI!PayloadSymbols(len) \in Payloads
  /\ \A p \in Payloads : p \in Nat /\ p > AllowedMargin
<1>1. ASSUME NEW len \in Lengths
      PROVE  /\ PMI!PayloadSymbols(len) \in Nat
             /\ PMI!PayloadSymbols(len) > AllowedMargin
  <2>1. PMI!PayloadSymbols(len) = SDF!PayloadSymbols(len)
    BY DEF PMI!PayloadSymbols, SDF!PayloadSymbols
  <2>2. SDF!PayloadSymbols(len) > AllowedMargin
    BY ReceiverAssumption
  <2>3. \A a, b \in Nat : a * b \in Nat
    OBVIOUS
  <2>4. len + CrcSize \in Nat /\ SymbolsPerByte \in Nat
    BY ReceiverAssumption
  <2>5. PMI!PayloadSymbols(len) \in Nat
    BY <2>3, <2>4 DEF PMI!PayloadSymbols
  <2> QED BY <2>1, <2>2, <2>5
<1> QED BY <1>1 DEF Payloads

(* A message ends the packet where its payload ends, up to the margin; an  *)
(* invalid header ends it at once.                                         *)
LEMMA MessageSizes ==
  /\ SDF!Metas = Lengths \cup {0}
  /\ SDF!BlockUntil(0) = 1
  /\ \A len \in Lengths :
       /\ len \in Nat /\ len # 0
       /\ SDF!BlockUntil(len) = HeaderEnd + PMI!PayloadSymbols(len) - AllowedMargin
       /\ SDF!BlockUntil(len) \in Nat /\ SDF!BlockUntil(len) > HeaderEnd
<1>1. SDF!Metas = Lengths \cup {0} /\ SDF!BlockUntil(0) = 1
  BY DEF SDF!Metas, SDF!BlockUntil, SDF!InvalidHeader
<1>2. ASSUME NEW len \in Lengths
      PROVE  /\ len \in Nat /\ len # 0
             /\ SDF!BlockUntil(len) = HeaderEnd + PMI!PayloadSymbols(len) - AllowedMargin
             /\ SDF!BlockUntil(len) \in Nat /\ SDF!BlockUntil(len) > HeaderEnd
  <2>1. len \in Nat /\ len # 0
    BY ReceiverAssumption
  <2>2. SDF!PayloadSymbols(len) = PMI!PayloadSymbols(len)
    BY DEF PMI!PayloadSymbols, SDF!PayloadSymbols
  <2>3. SDF!BlockUntil(len)
          = 1 * (HeaderSize + SyncwordSize - AllowedMargin + SDF!PayloadSymbols(len))
    BY <2>1 DEF SDF!BlockUntil, SDF!InvalidHeader
  <2>4. PMI!PayloadSymbols(len) \in Nat /\ PMI!PayloadSymbols(len) > AllowedMargin
    BY PayloadSizes
  <2> QED BY <2>1, <2>2, <2>3, <2>4, Sizes DEF HeaderEnd
<1> QED BY <1>1, <1>2

(* Identities go round in a circle of at least three. *)
LEMMA NextIds ==
  ASSUME NEW x \in Ids
  PROVE  /\ (x % NumIds) + 1 \in Ids
         /\ (x % NumIds) + 1 # x
         /\ (((x % NumIds) + 1) % NumIds) + 1 # x
<1>1. NumIds \in Nat /\ NumIds >= 3 /\ x \in Nat /\ x >= 1 /\ x <= NumIds
  BY ReceiverAssumption DEF Ids
<1>2. \A y \in Nat : y < NumIds => y % NumIds = y
  BY <1>1
<1>3. NumIds % NumIds = 0
  BY <1>1
<1>4. CASE x < NumIds - 1
  BY <1>1, <1>2, <1>4 DEF Ids
<1>5. CASE x = NumIds - 1
  BY <1>1, <1>2, <1>3, <1>5 DEF Ids
<1>6. CASE x = NumIds
  BY <1>1, <1>2, <1>3, <1>6 DEF Ids
<1> QED BY <1>1, <1>4, <1>5, <1>6

(* What is left of a link. *)
LEMMA FromProperties ==
  ASSUME NEW S, NEW seq \in Seq(S), NEW k \in 0 .. Len(seq)
  PROVE  /\ From(seq, k) \in Seq(S)
         /\ Len(From(seq, k)) = Len(seq) - k
         /\ \A i \in 1 .. Len(seq) - k : From(seq, k)[i] = seq[i + k]
<1>1. Len(seq) \in Nat /\ \A i \in 1 .. Len(seq) : seq[i] \in S
  BY LenProperties, ElementOfSeq
<1>2. \A i \in k + 1 .. Len(seq) : seq[i] \in S
  BY <1>1
<1>3. /\ From(seq, k) \in Seq(S)
      /\ Len(From(seq, k)) = IF k + 1 <= Len(seq) THEN Len(seq) - (k + 1) + 1 ELSE 0
      /\ \A i \in 1 .. Len(seq) - (k + 1) + 1 : From(seq, k)[i] = seq[k + 1 + i - 1]
  BY <1>1, <1>2, SubSeqProperties DEF From
<1> QED BY <1>1, <1>3

(* A queue of one message at most. *)
LEMMA ShortQueue ==
  ASSUME NEW S, NEW queue \in Seq(S), Len(queue) <= 1, queue # <<>>
  PROVE  /\ Len(queue) = 1 /\ Head(queue) = queue[1] /\ queue[1] \in S
         /\ Tail(queue) = <<>>
<1>0. Len(queue) \in Nat \ {0}
  BY EmptySeq
<1>1. Len(queue) = 1 /\ queue[1] \in S
  <2>1. \A k \in Nat \ {0} : k <= 1 => k = 1
    OBVIOUS
  <2>2. 1 \in 1 .. Len(queue)
    BY <1>0
  <2> QED BY <1>0, <2>1, <2>2, ElementOfSeq
<1>2. Tail(queue) \in Seq(S) /\ Len(Tail(queue)) = 0
  BY <1>1, HeadTailProperties
<1>3. Tail(queue) = <<>>
  BY <1>2, EmptySeq
<1>4. Head(queue) = queue[1]
  BY <1>1
<1> QED BY <1>1, <1>3, <1>4

(* A message that joins an empty queue is the only one in it. *)
LEMMA OneMessage ==
  ASSUME NEW S, NEW m \in S
  PROVE  /\ Append(<<>>, m) \in Seq(S) /\ Len(Append(<<>>, m)) = 1
         /\ Append(<<>>, m)[1] = m /\ Append(<<>>, m) # <<>>
<1>1. <<>> \in Seq(S) /\ Len(<<>>) = 0
  BY EmptySeq
<1>2. Append(<<>>, m) \in Seq(S) /\ Len(Append(<<>>, m)) = 1 /\ Append(<<>>, m)[1] = m
  BY <1>1, AppendProperties
<1> QED BY <1>1, <1>2


(* A function on the first numbers is a sequence. *)
LEMMA FunctionIsSeq ==
  ASSUME NEW S, NEW m \in Nat, NEW f \in [1 .. m -> S]
  PROVE  f \in Seq(S) /\ Len(f) = m
<1>1. f \in Seq(S)
  BY SeqDef
<1>2. Len(f) \in Nat /\ 1 .. Len(f) = 1 .. m
  BY <1>1, LenProperties
<1> QED BY <1>1, <1>2

(* What joins the end of a link. *)
LEMMA JoinProperties ==
  ASSUME NEW S, NEW seq \in Seq(S), NEW m \in Nat, NEW f \in [1 .. m -> S]
  PROVE  /\ seq \o f \in Seq(S) /\ Len(seq \o f) = Len(seq) + m
         /\ \A i \in 1 .. Len(seq) : (seq \o f)[i] = seq[i]
         /\ \A i \in 1 .. m : (seq \o f)[Len(seq) + i] = f[i]
<1>1. f \in Seq(S) /\ Len(f) = m /\ Len(seq) \in Nat
  BY FunctionIsSeq, LenProperties
<1>2. /\ seq \o f \in Seq(S) /\ Len(seq \o f) = Len(seq) + m
      /\ \A i \in 1 .. Len(seq) + m :
            (seq \o f)[i] = IF i <= Len(seq) THEN seq[i] ELSE f[i - Len(seq)]
  BY <1>1, ConcatProperties
<1>3. ASSUME NEW i \in 1 .. m
      PROVE  (seq \o f)[Len(seq) + i] = f[i]
  <2>1. Len(seq) + i \in 1 .. Len(seq) + m /\ ~(Len(seq) + i <= Len(seq))
    BY <1>1
  <2>2. Len(seq) + i - Len(seq) = i
    BY <1>1
  <2> QED BY <1>2, <2>1, <2>2
<1> QED BY <1>1, <1>2, <1>3

-----------------------------------------------------------------------------
(* What a call of the filter does.                                         *)

(* The chain has grown; the first new symbol may have an identity. *)
Grows(first) ==
  /\ Len(chain') \in Nat /\ Len(chain') >= Len(chain)
  /\ \A i \in 1 .. Len(chain') :
       chain'[i] = IF i <= Len(chain) THEN chain[i]
                   ELSE IF i = Len(chain) + 1 THEN first ELSE 0

FilterOutside ==
  /\ ~sdf_in_packet /\ Grows(0)
  /\ UNCHANGED <<sdf_vars, parsed_sdf, ignored>>

FilterOpens ==
  /\ ~sdf_in_packet /\ Grows(NextId)
  /\ sdf_in_packet' /\ sdf_block_until' = 0 /\ sdf_id' = NextId
  /\ sdf_position' = Len(chain') - Len(chain) /\ sdf_position' > 0
  /\ UNCHANGED <<parsed_sdf, ignored>>

(* The messages that the filter takes in its packet. *)
FilterTakes ==
  \/ UNCHANGED <<sdf_block_until, parsed_sdf, ignored>>
  \/ /\ Waits /\ parsed_sdf # <<>> /\ parsed_sdf' = <<>>
     /\ sdf_block_until' = SDF!BlockUntil(parsed_sdf[1].meta)
     /\ UNCHANGED ignored
  \/ /\ Waits /\ parsed_sdf = <<>> /\ ignored # <<>> /\ ignored' = <<>>
     /\ sdf_block_until' = 1
     /\ UNCHANGED parsed_sdf

FilterInside ==
  /\ sdf_in_packet /\ Grows(0) /\ sdf_id' = sdf_id
  /\ sdf_position' = sdf_position + (Len(chain') - Len(chain))
  /\ sdf_in_packet' \in BOOLEAN /\ sdf_block_until' \in Nat
  /\ FilterTakes
  /\ ~sdf_in_packet' =>
       /\ sdf_block_until' # 0
       /\ sdf_position' >= Allowed /\ sdf_position' >= sdf_block_until'

(* No message is the empty span, and none leaves the end unknown. *)
LEMMA MetaSizes ==
  \A meta \in SDF!Metas : meta \in Nat /\ SDF!BlockUntil(meta) \in Nat \ {0}
  BY MessageSizes, Sizes

(* The message that a block sees first in its queue, and takes. *)
LEMMA FrontOfQueue ==
  ASSUME NEW queue \in Seq(Message), Len(queue) <= 1
  PROVE  /\ queue = <<>> => Front(queue) = -1
         /\ queue # <<>> => /\ Front(queue) = queue[1].meta
                            /\ Front(queue) \in SDF!Metas /\ Front(queue) # -1
                            /\ PopIf(TRUE, queue) = <<>>
         /\ PopIf(FALSE, queue) = queue
<1>1. CASE queue = <<>>
  BY <1>1 DEF Front, PopIf, PMI!NoMessage
<1>2. CASE queue # <<>>
  <2>1. queue[1] \in Message /\ Head(queue) = queue[1] /\ Tail(queue) = <<>>
    BY <1>2, ShortQueue
  <2>2. queue[1].meta \in SDF!Metas
    BY <2>1 DEF Message
  <2>3. queue[1].meta # -1
    BY <2>2, MetaSizes
  <2> QED BY <1>2, <2>1, <2>2, <2>3 DEF Front, PopIf
<1> QED BY <1>1, <1>2

(* The three ways in which a call of the filter finds its end. *)
LEMMA UntilCases ==
  ASSUME NEW tag \in BOOLEAN, NEW header, NEW waiting \in BOOLEAN
  PROVE  /\ SDF!TakesHeader(tag, header) \in BOOLEAN
         /\ SDF!TakesIgnored(tag, header, waiting) \in BOOLEAN
         /\ SDF!TakesHeader(tag, header) =>
              SDF!BlockUntilAfter(tag, header, waiting) = SDF!BlockUntil(header)
         /\ SDF!TakesIgnored(tag, header, waiting) =>
              /\ SDF!BlockUntilAfter(tag, header, waiting) = 1
              /\ ~SDF!TakesHeader(tag, header)
         /\ ~SDF!TakesHeader(tag, header) /\ ~SDF!TakesIgnored(tag, header, waiting) =>
              SDF!BlockUntilAfter(tag, header, waiting)
                = IF SDF!Opens(tag) THEN 0 ELSE sdf_block_until
<1>1. ~(SDF!TakesIgnored(tag, header, waiting) /\ SDF!TakesHeader(tag, header))
  BY DEF SDF!TakesIgnored, SDF!TakesHeader
<1>2. SDF!TakesHeader(tag, header) \in BOOLEAN /\ SDF!TakesIgnored(tag, header, waiting) \in BOOLEAN
  BY DEF SDF!TakesIgnored, SDF!TakesHeader
<1> QED BY <1>1, <1>2 DEF SDF!BlockUntilAfter

(* What a call of the filter adds to the chain. *)
LEMMA ChainGrows ==
  ASSUME chain \in Seq({0} \cup Ids), NEW c \in Nat, NEW first \in {0} \cup Ids,
         chain' = chain \o [i \in 1 .. c |-> IF i = 1 THEN first ELSE 0]
  PROVE  /\ Grows(first) /\ Len(chain') = Len(chain) + c
         /\ chain' \in Seq({0} \cup Ids)
<1> DEFINE f == [i \in 1 .. c |-> IF i = 1 THEN first ELSE 0]
<1>1. f \in [1 .. c -> {0} \cup Ids]
  OBVIOUS
<1>2. \A i \in 1 .. c : f[i] = IF i = 1 THEN first ELSE 0
  OBVIOUS
<1>3. Len(chain) \in Nat
  BY LenProperties
<1> HIDE DEF f
<1>4. /\ chain' \in Seq({0} \cup Ids) /\ Len(chain') = Len(chain) + c
      /\ \A i \in 1 .. Len(chain) : chain'[i] = chain[i]
      /\ \A i \in 1 .. c : chain'[Len(chain) + i] = f[i]
  BY <1>1, JoinProperties DEF f
<1>5. ASSUME NEW i \in 1 .. Len(chain'), ~(i <= Len(chain))
      PROVE  chain'[i] = IF i = Len(chain) + 1 THEN first ELSE 0
  <2>1. i - Len(chain) \in 1 .. c /\ Len(chain) + (i - Len(chain)) = i
    BY <1>3, <1>4, <1>5
  <2>2. chain'[i] = f[i - Len(chain)]
    BY <1>4, <2>1
  <2>3. i - Len(chain) = 1 <=> i = Len(chain) + 1
    BY <1>3
  <2> QED BY <1>2, <2>1, <2>2, <2>3
<1> QED BY <1>3, <1>4, <1>5 DEF Grows

(* A call of the filter has one of the three effects and keeps the types. *)
LEMMA FilterEffect ==
  ASSUME TypeOK, MessageOfFilter,
         NEW tag \in BOOLEAN, NEW n \in 1 .. MaxChunk, Filter(tag, n)
  PROVE  /\ TypeOK'
         /\ FilterOutside \/ FilterOpens \/ FilterInside
<1> DEFINE header == Front(parsed_sdf)
           waiting == ignored # <<>>
           takes == SDF!TakesHeader(tag, header)
           drops == SDF!TakesIgnored(tag, header, waiting)
           until == SDF!BlockUntilAfter(tag, header, waiting)
<1>1. PICK c \in 0 .. n :
        /\ SDF!ProcessBulk(tag, n, header, waiting, c)
        /\ quiet' = SDF!Lesser(TimeThreshold + 1,
                               (IF tag /\ c > 0 THEN 0 ELSE quiet) + c)
        /\ sdf_id' = IF SDF!Opens(tag) THEN NextId ELSE sdf_id
        /\ chain' = chain \o [i \in 1 .. c |->
                                IF i = 1 /\ SDF!Opens(tag) THEN sdf_id' ELSE 0]
        /\ parsed_sdf' = PopIf(takes, parsed_sdf)
        /\ ignored' = PopIf(drops, ignored)
  BY DEF Filter
<1>2. c \in Nat /\ n \in Nat /\ n >= 1 /\ c <= n
  BY Sizes
<1>3. /\ sdf_in_packet \in BOOLEAN /\ sdf_position \in Nat /\ sdf_block_until \in Nat
      /\ sdf_id \in Ids /\ chain \in Seq({0} \cup Ids) /\ quiet \in 0 .. TimeThreshold + 1
      /\ parsed_sdf \in Seq(Message) /\ ignored \in Seq(Ids)
      /\ Len(parsed_sdf) <= 1 /\ Len(ignored) <= 1
      /\ NextId \in Ids
  BY NextIds DEF TypeOK, SDF!TypeOK, MessageOfFilter, NextId
<1>4. /\ SDF!Opens(tag) => Grows(NextId)
      /\ ~SDF!Opens(tag) => Grows(0)
      /\ Len(chain') = Len(chain) + c /\ chain' \in Seq({0} \cup Ids)
  <2>1. chain' = chain \o [i \in 1 .. c |->
                             IF i = 1 THEN (IF SDF!Opens(tag) THEN NextId ELSE 0) ELSE 0]
    BY <1>1
  <2>2. CASE SDF!Opens(tag)
    BY <1>2, <1>3, <2>1, <2>2, ChainGrows
  <2>3. CASE ~SDF!Opens(tag)
    BY <1>2, <1>3, <2>1, <2>3, ChainGrows
  <2> QED BY <2>2, <2>3
<1>5. /\ Len(chain) \in Nat /\ Len(parsed_sdf) \in Nat /\ Len(ignored) \in Nat
      /\ Len(parsed_sdf) <= QueueCapacity /\ Len(ignored) <= QueueCapacity
  BY <1>3, LenProperties DEF TypeOK
<1>6. takes => Waits /\ parsed_sdf # <<>>
  <2>1. header # -1 => parsed_sdf # <<>>
    BY <1>3, FrontOfQueue
  <2> QED BY <2>1 DEF SDF!TakesHeader, SDF!Unknown, SDF!Opens, SDF!NoMessage, Waits,
                      MessageOfFilter
<1>7. drops => Waits /\ parsed_sdf = <<>> /\ ignored # <<>>
  <2>1. header = -1 => parsed_sdf = <<>>
    BY <1>3, FrontOfQueue
  <2> QED BY <2>1 DEF SDF!TakesIgnored, SDF!Unknown, SDF!Opens, SDF!NoMessage, Waits,
                      MessageOfFilter
<1>8. /\ takes => parsed_sdf' = <<>> /\ until = SDF!BlockUntil(parsed_sdf[1].meta)
      /\ ~takes => parsed_sdf' = parsed_sdf
  <2>1. takes \in BOOLEAN /\ (takes => until = SDF!BlockUntil(header))
    BY UntilCases
  <2>2. parsed_sdf # <<>> => header = parsed_sdf[1].meta
    BY <1>3, FrontOfQueue
  <2>3. CASE takes
    <3>1. PopIf(takes, parsed_sdf) = PopIf(TRUE, parsed_sdf)
      BY <2>3 DEF PopIf
    <3> QED BY <1>1, <1>3, <1>6, <2>1, <2>2, <2>3, <3>1, FrontOfQueue
  <2>4. CASE ~takes
    BY <1>1, <2>4 DEF PopIf
  <2> QED BY <2>1, <2>3, <2>4
<1>9. /\ drops => ignored' = <<>> /\ until = 1 /\ ~takes
      /\ ~drops => ignored' = ignored
  <2>1. drops => until = 1 /\ ~takes
    BY UntilCases
  <2>2. drops => Tail(ignored) = <<>>
    BY <1>3, <1>7, ShortQueue
  <2> QED BY <1>1, <2>1, <2>2 DEF PopIf
<1>10. ~takes /\ ~drops => until = IF SDF!Opens(tag) THEN 0 ELSE sdf_block_until
  BY UntilCases
<1>11. until \in Nat
  <2>1. takes => until \in Nat
    <3>1. takes => header \in SDF!Metas
      BY <1>3, <1>6, FrontOfQueue
    <3>2. takes => until = SDF!BlockUntil(header)
      BY UntilCases
    <3> QED BY <3>1, <3>2, MetaSizes
  <2> QED BY <1>3, <1>9, <1>10, <2>1
<1> HIDE DEF until, takes, drops, waiting, header
<1>12. ASSUME SDF!Forward(tag, n, c)
       PROVE  FilterOutside
  <2>1. ~tag /\ ~sdf_in_packet
    BY <1>12 DEF SDF!Forward
  <2>2. ~takes /\ ~drops
    BY <1>6, <1>7, <2>1 DEF Waits
  <2> QED BY <1>1, <1>4, <1>8, <1>9, <1>12, <2>1, <2>2
          DEF FilterOutside, SDF!Forward, SDF!vars, sdf_vars, SDF!Opens
<1>13. ASSUME SDF!Gate(tag, n, header, waiting, c)
       PROVE  FilterOpens \/ FilterInside
  <2> DEFINE start == IF SDF!Opens(tag) THEN 0 ELSE sdf_position
             early == IF start < SDF!Allowed THEN SDF!Lesser(n, SDF!Allowed - start) ELSE 0
             released == start + early >= SDF!Allowed /\ until # 0
  <2>1. /\ tag \/ sdf_in_packet
        /\ c = IF released THEN n ELSE early
        /\ sdf_position' = start + c
        /\ sdf_block_until' = until
        /\ sdf_in_packet' = ~(released /\ start + c >= until)
    BY <1>13 DEF SDF!Gate, until
  <2>2. /\ sdf_in_packet' \in BOOLEAN
        /\ ~sdf_in_packet' => released /\ start + c >= until
        /\ sdf_in_packet' \/ released
    <3> HIDE DEF released, start
    <3> QED BY <2>1, Zenon
  <2>3. Allowed \in Nat /\ Allowed > 0 /\ SDF!Allowed = Allowed
    BY Sizes
  <2>4. CASE SDF!Opens(tag)
    <3>1. ~sdf_in_packet /\ ~takes /\ ~drops
      BY <1>6, <1>7, <2>4 DEF SDF!Opens, Waits
    <3>2. until = 0 /\ start = 0
      BY <1>10, <2>4, <3>1
    <3>3. early > 0 /\ early \in Nat
      BY <1>2, <2>3, <3>2 DEF SDF!Lesser
    <3> HIDE DEF early, start
    <3>4. sdf_in_packet' /\ sdf_block_until' = 0 /\ sdf_position' = c /\ c > 0
      BY <1>2, <2>1, <2>2, <3>2, <3>3
    <3>5. Len(chain') - Len(chain) = c
      BY <1>2, <1>4, <1>5
    <3> QED BY <1>1, <1>4, <1>8, <1>9, <2>4, <3>1, <3>4, <3>5 DEF FilterOpens
  <2>5. CASE ~SDF!Opens(tag)
    <3>1. sdf_in_packet /\ start = sdf_position
      BY <2>1, <2>5 DEF SDF!Opens
    <3>2. early \in Nat
      BY <1>2, <1>3, <2>3, <3>1 DEF SDF!Lesser
    <3>3. released => start + n >= start + early
      BY <1>2, <1>3, <2>3, <3>1 DEF SDF!Lesser
    <3> HIDE DEF early, start
    <3>4. /\ sdf_in_packet' \in BOOLEAN /\ sdf_block_until' \in Nat
          /\ ~sdf_in_packet' => /\ sdf_block_until' # 0
                                /\ sdf_position' >= Allowed
                                /\ sdf_position' >= sdf_block_until'
      BY <1>2, <1>3, <1>11, <2>1, <2>2, <2>3, <3>1, <3>2, <3>3
    <3>5. sdf_position' = sdf_position + (Len(chain') - Len(chain))
      BY <1>2, <1>3, <1>4, <1>5, <2>1, <3>1
    <3>6. FilterTakes
      BY <1>6, <1>7, <1>8, <1>9, <1>10, <2>1, <2>5 DEF FilterTakes
    <3> QED BY <1>1, <1>4, <2>5, <3>1, <3>4, <3>5, <3>6 DEF FilterInside
  <2> QED BY <2>4, <2>5
<1>14. FilterOutside \/ FilterOpens \/ FilterInside
  BY <1>1, <1>12, <1>13 DEF SDF!ProcessBulk, header, waiting
<1>15. TypeOK'
  <2>1. quiet' \in 0 .. TimeThreshold + 1
    BY <1>1, <1>2, <1>3, Sizes DEF SDF!Lesser
  <2>2. /\ sdf_in_packet' \in BOOLEAN /\ sdf_position' \in Nat
        /\ sdf_block_until' \in Nat /\ sdf_id' \in Ids
    <3>1. CASE FilterOutside
      BY <1>3, <3>1 DEF FilterOutside, sdf_vars
    <3>2. CASE FilterOpens
      BY <1>2, <1>3, <1>4, <1>5, <3>2 DEF FilterOpens
    <3>3. CASE FilterInside
      BY <1>2, <1>3, <1>4, <1>5, <3>3 DEF FilterInside
    <3> QED BY <1>14, <3>1, <3>2, <3>3
  <2>3. Len(chain') <= ChainCapacity
    <3>1. Len(chain) + n <= ChainCapacity
      BY DEF Filter, ChainSpace
    <3> QED BY <1>2, <1>4, <1>5, <3>1, Sizes
  <2>4. /\ parsed_sdf' \in Seq(Message) /\ Len(parsed_sdf') <= QueueCapacity
        /\ ignored' \in Seq(Ids) /\ Len(ignored') <= QueueCapacity
    <3>1. <<>> \in Seq(Message) /\ <<>> \in Seq(Ids) /\ Len(<<>>) = 0
      BY EmptySeq
    <3>2. takes => parsed_sdf' \in Seq(Message) /\ Len(parsed_sdf') <= QueueCapacity
      BY <1>8, <3>1, Sizes
    <3>3. drops => ignored' \in Seq(Ids) /\ Len(ignored') <= QueueCapacity
      BY <1>9, <3>1, Sizes
    <3> QED BY <1>3, <1>5, <1>8, <1>9, <3>2, <3>3
  <2>5. UNCHANGED <<pmi_vars, symbols, hps_vars, coded, parsed_pmi>>
    BY DEF Filter
  <2> QED BY <1>4, <2>1, <2>2, <2>3, <2>4, <2>5
          DEF TypeOK, SDF!TypeOK, pmi_vars, hps_vars
<1> QED BY <1>14, <1>15

-----------------------------------------------------------------------------
(* A call of the filter preserves the invariant.                           *)

(* The types, for the steps that need no more. *)
LEMMA Types ==
  ASSUME TypeOK
  PROVE  /\ sdf_in_packet \in BOOLEAN /\ sdf_position \in Nat /\ sdf_block_until \in Nat
         /\ sdf_id \in Ids /\ pmi_id \in Ids /\ NextId \in Ids
         /\ pmi_in_packet \in BOOLEAN /\ pmi_position \in Nat
         /\ hps_in_payload \in BOOLEAN /\ hps_position \in Nat
         /\ chain \in Seq({0} \cup Ids) /\ Len(chain) \in Nat
         /\ coded \in Seq(Ids) /\ ignored \in Seq(Ids)
         /\ parsed_sdf \in Seq(Message) /\ parsed_pmi \in Seq(Message)
         /\ Len(symbols) \in Nat
  BY LenProperties, NextIds DEF TypeOK, SDF!TypeOK, NextId

(* The end of a packet is past its header and margin. *)
LEMMA PayloadTypes ==
  ASSUME PacketBounds
  PROVE  /\ pmi_payload_symbols \in Nat /\ pmi_payload_symbols > AllowedMargin
         /\ PacketEnd \in Nat /\ PacketEnd > HeaderEnd + AllowedMargin
  BY PayloadSizes, Sizes DEF PacketBounds, PacketEnd

(* The items stay in order when neither end of their link moves. *)
LEMMA ItemsKept ==
  ASSUME ItemsInOrder, UNCHANGED <<pmi_vars, symbols, hps_vars, coded, parsed_pmi>>
  PROVE  ItemsInOrder'
<1>1. Sending' = Sending /\ HeaderItems' = HeaderItems /\ HPS!HeaderStart' = HPS!HeaderStart
  BY DEF Sending, HeaderItems, HPS!HeaderStart, pmi_vars, hps_vars
<1>2. InPayload => InPayload'
  BY <1>1 DEF InPayload, pmi_vars, hps_vars
<1>3. BeforePayload => BeforePayload'
  BY <1>1 DEF BeforePayload, pmi_vars, hps_vars
<1>4. InHeader => InHeader'
  BY <1>1 DEF InHeader, pmi_vars, hps_vars
<1>5. HeaderDone => HeaderDone'
  BY DEF HeaderDone, hps_vars
<1> QED BY <1>2, <1>3, <1>4, <1>5 DEF ItemsInOrder, hps_vars

(* Outside a packet the filter only fills the chain. *)
LEMMA FilterOutsideInv ==
  ASSUME Inv, TypeOK', FilterOutside,
         UNCHANGED <<pmi_vars, symbols, hps_vars, coded, parsed_pmi>>
  PROVE  Inv'
<1>1. /\ ~sdf_in_packet /\ Grows(0)
      /\ UNCHANGED <<sdf_in_packet, sdf_position, sdf_block_until, sdf_id,
                     parsed_sdf, ignored, pmi_in_packet, pmi_position, pmi_id,
                     pmi_payload_symbols, symbols, coded, parsed_pmi>>
  BY DEF FilterOutside, sdf_vars, pmi_vars
<1>2. /\ Len(chain) \in Nat /\ Len(chain') \in Nat /\ Len(chain') >= Len(chain)
      /\ sdf_position \in Nat /\ pmi_position \in Nat
      /\ AllowedMargin \in Nat /\ PacketEnd \in Nat
  <2>1. /\ Len(chain) \in Nat /\ sdf_position \in Nat /\ pmi_position \in Nat
        /\ AllowedMargin \in Nat /\ PacketEnd \in Nat
    BY Types, PayloadTypes, Sizes DEF Inv
  <2>2. Len(chain') \in Nat /\ Len(chain') >= Len(chain)
    BY <1>1 DEF Grows
  <2> QED BY <1>1, <2>1, <2>2
<1>3. NoTag
  BY <1>1 DEF Inv, TagOfFilter, Waits, NoTag
<1>4. NoTag'
  BY <1>1, <1>2, <1>3 DEF NoTag, Grows
<1>5. TagOfFilter' /\ TagAfterPacket'
  BY <1>4 DEF NoTag, TagOfFilter, TagAfterPacket
<1>6. IdsApart'
  BY <1>1, <1>3 DEF Inv, IdsApart, NextId
<1>7. IgnoredBehind'
  BY <1>1, <1>2, <1>3 DEF Inv, IgnoredBehind, PacketEnd
<1>8. SamePlace'
  BY <1>1, <1>2, Types DEF Inv, SamePlace
<1>9. ClosedBehind' /\ Undecoded' /\ CodedOfPacket' /\ MessageOfInsert'
  BY <1>1 DEF Inv, ClosedBehind, Undecoded, CodedOfPacket, MessageOfInsert, Waits
<1>10. MessageOfFilter'
  BY <1>1, <1>4 DEF Inv, MessageOfFilter, Waits
<1>11. EndAgreed' /\ PacketBounds'
  BY <1>1 DEF Inv, EndAgreed, PacketBounds, Sending, PacketEnd
<1>12. ItemsInOrder'
  BY ItemsKept DEF Inv
<1> QED BY <1>5, <1>6, <1>7, <1>8, <1>9, <1>10, <1>11, <1>12 DEF Inv

(* The filter lets a detection through when the insert block is about to   *)
(* leave the packet before.                                                *)
LEMMA FilterOpensInv ==
  ASSUME Inv, TypeOK', FilterOpens,
         UNCHANGED <<pmi_vars, symbols, hps_vars, coded, parsed_pmi>>
  PROVE  Inv'
<1>1. /\ ~sdf_in_packet /\ Grows(NextId)
      /\ sdf_in_packet' /\ sdf_block_until' = 0 /\ sdf_id' = NextId
      /\ sdf_position' = Len(chain') - Len(chain) /\ sdf_position' > 0
      /\ UNCHANGED <<parsed_sdf, ignored, pmi_in_packet, pmi_position, pmi_id,
                     pmi_payload_symbols, symbols, coded, parsed_pmi>>
  BY DEF FilterOpens, pmi_vars
<1>2. Len(chain) \in Nat /\ Len(chain') \in Nat /\ Len(chain') > Len(chain)
  BY <1>1, Types DEF Inv, Grows
<1>3. /\ ~Waits /\ NoTag /\ parsed_sdf = <<>> /\ ignored = <<>> /\ coded = <<>>
      /\ pmi_id # NextId
      /\ pmi_in_packet /\ pmi_position <= HeaderEnd => parsed_pmi # <<>>
  BY <1>1 DEF Inv, TagOfFilter, Waits, NoTag, MessageOfFilter, IdsApart, Undecoded,
              CodedOfPacket
<1>4. \A i \in 1 .. Len(chain') : chain'[i] # 0 => i = Len(chain) + 1 /\ chain'[i] = NextId
  BY <1>1, <1>2, <1>3 DEF NoTag, Grows
<1>5. ~NoTag'
  <2>1. Len(chain) + 1 \in 1 .. Len(chain') /\ chain'[Len(chain) + 1] = NextId
    BY <1>1, <1>2 DEF Grows
  <2>2. NextId # 0
    BY Types DEF Inv, Ids
  <2> QED BY <2>1, <2>2 DEF NoTag
<1>6. TagOfFilter'
  BY <1>1, <1>2, <1>3, <1>4 DEF TagOfFilter, Waits
<1>7. /\ sdf_id \in Ids /\ sdf_id # NextId'
      /\ pmi_position \in Nat /\ sdf_position \in Nat /\ sdf_block_until \in Nat
      /\ PacketEnd \in Nat /\ HeaderEnd \in Nat /\ AllowedMargin \in Nat
      /\ Allowed = HeaderEnd + AllowedMargin /\ AllowedMargin < HeaderEnd
  BY <1>1, Types, PayloadTypes, Sizes, NextIds DEF Inv, NextId
<1>8. TagAfterPacket'
  <2>1. ASSUME pmi_in_packet, NEW d \in Nat, d = Len(chain)
        PROVE  MessageWaits(d)' \/ PayloadEnds(d)'
    <3>1. /\ sdf_block_until # 0
          /\ sdf_position >= Allowed /\ sdf_position >= sdf_block_until
      BY <1>1, <2>1 DEF Inv, ClosedBehind
    <3>2. CASE pmi_id # sdf_id
      <4>1. /\ pmi_position > HeaderEnd
            /\ pmi_position + d >= PacketEnd - AllowedMargin + sdf_position
        BY <1>3, <2>1, <3>2 DEF Inv, IgnoredBehind
      <4>2. pmi_position + d >= PacketEnd
        BY <1>7, <3>1, <4>1
      <4> QED BY <1>1, <1>7, <4>1, <4>2 DEF PayloadEnds, PacketEnd
    <3>3. CASE pmi_id = sdf_id /\ pmi_position > HeaderEnd
      <4>1. pmi_position + d >= sdf_position
        BY <1>1, <2>1, <3>3 DEF Inv, SamePlace
      <4>2. sdf_block_until = PacketEnd - AllowedMargin
        BY <2>1, <3>1, <3>3 DEF Inv, EndAgreed, Sending
      <4> QED BY <1>1, <1>7, <3>1, <3>3, <4>1, <4>2 DEF PayloadEnds, PacketEnd
    <3>4. CASE pmi_id = sdf_id /\ ~(pmi_position > HeaderEnd)
      <4>1. parsed_pmi # <<>>
        BY <1>3, <1>7, <2>1, <3>4
      <4>2. /\ pmi_position = HeaderEnd
            /\ sdf_block_until = SDF!BlockUntil(parsed_pmi[1].meta)
        BY <1>3, <3>4, <4>1 DEF Inv, MessageOfInsert
      <4>3. HeaderEnd + d >= sdf_position
        BY <1>1, <2>1, <3>4, <4>2 DEF Inv, SamePlace
      <4>4. HeaderEnd + d >= Allowed /\ HeaderEnd + d >= sdf_block_until
        BY <1>7, <3>1, <4>3
      <4> QED BY <1>1, <1>7, <3>4, <4>1, <4>2, <4>4 DEF MessageWaits
    <3> QED BY <3>2, <3>3, <3>4
  <2>2. ASSUME NEW i \in 1 .. Len(chain'), chain'[i] # 0, pmi_in_packet
        PROVE  MessageWaits(i - 1)' \/ PayloadEnds(i - 1)'
    <3>1. i - 1 = Len(chain)
      BY <1>2, <1>4, <2>2
    <3> QED BY <1>2, <2>1, <2>2, <3>1
  <2> QED BY <1>1, <2>2 DEF TagAfterPacket
<1>9. IdsApart' /\ IgnoredBehind'
  BY <1>5 DEF IdsApart, IgnoredBehind
<1>10. ClosedBehind' /\ SamePlace' /\ Undecoded' /\ CodedOfPacket' /\ MessageOfInsert'
  BY <1>1, <1>3 DEF Inv, ClosedBehind, SamePlace, Undecoded, CodedOfPacket, MessageOfInsert
<1>11. MessageOfFilter'
  BY <1>1, <1>3 DEF Inv, MessageOfFilter
<1>12. EndAgreed' /\ PacketBounds'
  BY <1>1, <1>3 DEF Inv, EndAgreed, PacketBounds, Sending, PacketEnd
<1>13. ItemsInOrder'
  BY ItemsKept DEF Inv
<1> QED BY <1>6, <1>8, <1>9, <1>10, <1>11, <1>12, <1>13 DEF Inv

(* A packet that the filter leaves is settled. *)
LEMMA FilterInsideInv ==
  ASSUME Inv, TypeOK', FilterInside,
         UNCHANGED <<pmi_vars, symbols, hps_vars, coded, parsed_pmi>>
  PROVE  Inv'
<1>1. /\ sdf_in_packet /\ Grows(0) /\ FilterTakes
      /\ sdf_position' = sdf_position + (Len(chain') - Len(chain))
      /\ ~sdf_in_packet' =>
           /\ sdf_block_until' # 0
           /\ sdf_position' >= Allowed /\ sdf_position' >= sdf_block_until'
      /\ UNCHANGED <<sdf_id, pmi_in_packet, pmi_position, pmi_id,
                     pmi_payload_symbols, symbols, coded, parsed_pmi>>
  BY DEF FilterInside, pmi_vars
<1>2. /\ Len(chain) \in Nat /\ Len(chain') \in Nat /\ Len(chain') >= Len(chain)
      /\ sdf_position \in Nat /\ pmi_position \in Nat /\ sdf_position' \in Nat
      /\ AllowedMargin \in Nat /\ PacketEnd \in Nat
  <2>1. /\ Len(chain) \in Nat /\ sdf_position \in Nat /\ pmi_position \in Nat
        /\ AllowedMargin \in Nat /\ PacketEnd \in Nat
    BY Types, PayloadTypes, Sizes DEF Inv
  <2>2. Len(chain') \in Nat /\ Len(chain') >= Len(chain)
    BY <1>1 DEF Grows
  <2> QED BY <1>1, <2>1, <2>2
<1>3. /\ NoTag => NoTag'
      /\ NoTag' => NoTag
  BY <1>1, <1>2 DEF NoTag, Grows
<1>4. \/ UNCHANGED <<sdf_block_until, parsed_sdf, ignored>>
      \/ Waits /\ parsed_sdf # <<>>
      \/ Waits /\ parsed_sdf = <<>> /\ ignored # <<>>
  BY <1>1 DEF FilterTakes
<1>5. parsed_sdf = <<>> /\ ignored = <<>> =>
        UNCHANGED <<sdf_block_until, parsed_sdf, ignored>> /\ (Waits => Waits')
  BY <1>1 DEF FilterTakes, Waits
<1>6. TagOfFilter'
  <2>1. ASSUME NEW i \in 1 .. Len(chain'), chain'[i] # 0
        PROVE  /\ chain'[i] = sdf_id' /\ Waits' /\ sdf_position' = Len(chain') - i + 1
               /\ pmi_id' # sdf_id' /\ parsed_sdf' = <<>> /\ ignored' = <<>>
    <3>1. i \in 1 .. Len(chain) /\ chain[i] = chain'[i]
      BY <1>1, <1>2, <2>1 DEF Grows
    <3>2. /\ chain[i] = sdf_id /\ Waits /\ sdf_position = Len(chain) - i + 1
          /\ pmi_id # sdf_id /\ parsed_sdf = <<>> /\ ignored = <<>>
      BY <2>1, <3>1 DEF Inv, TagOfFilter
    <3> QED BY <1>1, <1>2, <1>5, <3>1, <3>2
  <2> QED BY <2>1 DEF TagOfFilter
<1>7. TagAfterPacket'
  <2>1. ASSUME NEW i \in 1 .. Len(chain'), chain'[i] # 0, pmi_in_packet
        PROVE  MessageWaits(i - 1)' \/ PayloadEnds(i - 1)'
    <3>1. i \in 1 .. Len(chain) /\ chain[i] = chain'[i]
      BY <1>1, <1>2, <2>1 DEF Grows
    <3>2. MessageWaits(i - 1) \/ PayloadEnds(i - 1)
      BY <2>1, <3>1 DEF Inv, TagAfterPacket
    <3> QED BY <1>1, <3>2 DEF MessageWaits, PayloadEnds, PacketEnd, NextId
  <2> QED BY <1>1, <2>1 DEF TagAfterPacket
<1>8. IdsApart'
  BY <1>1, <1>3 DEF Inv, IdsApart, NextId
<1>9. IgnoredBehind'
  BY <1>1, <1>2, <1>3 DEF Inv, IgnoredBehind, PacketEnd
<1>10. ClosedBehind'
  BY <1>1 DEF ClosedBehind
<1>11. SamePlace'
  BY <1>1, <1>2 DEF Inv, SamePlace
<1>12. Undecoded'
  BY <1>1, <1>5 DEF Inv, Undecoded
<1>13. CodedOfPacket'
  BY <1>1, <1>5 DEF Inv, CodedOfPacket
<1>14. MessageOfInsert'
  <2>1. ASSUME parsed_pmi # <<>>, pmi_id = sdf_id
        PROVE  \/ Waits' /\ parsed_sdf' = parsed_pmi'
               \/ parsed_sdf' = <<>> /\ sdf_block_until' = SDF!BlockUntil(parsed_pmi'[1].meta)
    <3>1. \/ Waits /\ parsed_sdf = parsed_pmi
          \/ parsed_sdf = <<>> /\ sdf_block_until = SDF!BlockUntil(parsed_pmi[1].meta)
      BY <2>1 DEF Inv, MessageOfInsert
    <3>2. parsed_pmi[1] \in Message
      BY <2>1, Types, ShortQueue DEF Inv, MessageOfInsert
    <3>3. SDF!BlockUntil(parsed_pmi[1].meta) # 0
      BY <3>2, MetaSizes DEF Message
    <3>4. ~sdf_in_packet' => sdf_block_until' # 0
      BY <1>1
    <3> QED BY <1>1, <2>1, <3>1, <3>3, <3>4 DEF FilterTakes, Waits
  <2> QED BY <1>1, <2>1 DEF Inv, MessageOfInsert
<1>15. MessageOfFilter'
  <2>1. Len(parsed_sdf') <= 1 /\ Len(ignored') <= 1
    <3>1. Len(<<>>) <= 1
      OBVIOUS
    <3> QED BY <1>1, <3>1 DEF Inv, MessageOfFilter, FilterTakes
  <2>2. parsed_sdf' # <<>> =>
          /\ Waits' /\ parsed_sdf' = parsed_sdf
    BY <1>1 DEF Inv, MessageOfFilter, FilterTakes, Waits
  <2>3. ignored' # <<>> => Waits' /\ ignored' = ignored
    BY <1>1 DEF Inv, MessageOfFilter, FilterTakes, Waits
  <2>4. parsed_sdf' # <<>> => ignored' = <<>>
    BY <1>1, <2>2, <2>3 DEF Inv, MessageOfFilter
  <2> QED BY <1>1, <1>3, <2>1, <2>2, <2>3, <2>4 DEF Inv, MessageOfFilter
<1>16. EndAgreed'
  <2>1. SUFFICES ASSUME Sending, pmi_id = sdf_id, sdf_block_until' # 0
                 PROVE  sdf_block_until' = PacketEnd - AllowedMargin
    BY <1>1 DEF EndAgreed, Sending, PacketEnd
  <2>2. parsed_pmi = <<>>
    BY <1>2, <2>1, Sizes DEF Inv, MessageOfInsert, Sending
  <2>3. CASE UNCHANGED <<sdf_block_until, parsed_sdf, ignored>>
    BY <2>1, <2>3 DEF Inv, EndAgreed
  <2>4. CASE parsed_sdf # <<>> /\ sdf_block_until' = SDF!BlockUntil(parsed_sdf[1].meta)
    <3>1. parsed_sdf[1] \in Message
      BY <2>4, Types, ShortQueue DEF Inv, MessageOfFilter
    <3>2. /\ parsed_sdf[1].meta # 0
          /\ pmi_payload_symbols = PMI!PayloadSymbols(parsed_sdf[1].meta)
      BY <2>1, <2>2, <2>4 DEF Inv, MessageOfFilter, Sending
    <3>3. parsed_sdf[1].meta \in Lengths
      BY <3>1, <3>2, MessageSizes DEF Message
    <3>4. SDF!BlockUntil(parsed_sdf[1].meta)
            = HeaderEnd + PMI!PayloadSymbols(parsed_sdf[1].meta) - AllowedMargin
      BY <3>3, MessageSizes
    <3>5. PacketEnd = HeaderEnd + PMI!PayloadSymbols(parsed_sdf[1].meta)
      BY <3>2 DEF PacketEnd
    <3>6. sdf_block_until' = SDF!BlockUntil(parsed_sdf[1].meta)
      BY <2>4
    <3>7. /\ PMI!PayloadSymbols(parsed_sdf[1].meta) \in Nat
          /\ HeaderEnd \in Nat /\ AllowedMargin \in Nat
      BY <3>3, PayloadSizes, Sizes
    <3> QED BY <3>4, <3>5, <3>6, <3>7
  <2>5. CASE ignored # <<>>
    BY <2>1, <2>5 DEF Inv, MessageOfFilter
  <2> QED BY <1>1, <2>3, <2>4, <2>5 DEF FilterTakes
<1>17. PacketBounds'
  BY <1>1 DEF Inv, PacketBounds, PacketEnd
<1>18. ItemsInOrder'
  BY ItemsKept DEF Inv
<1> QED BY <1>6, <1>7, <1>8, <1>9, <1>10, <1>11, <1>12, <1>13, <1>14, <1>15, <1>16,
           <1>17, <1>18 DEF Inv

(* Every call of the filter preserves the invariant. *)
LEMMA FilterInv ==
  ASSUME Inv, NEW tag \in BOOLEAN, NEW n \in 1 .. MaxChunk, Filter(tag, n)
  PROVE  Inv'
<1>1. TypeOK' /\ (FilterOutside \/ FilterOpens \/ FilterInside)
  BY FilterEffect DEF Inv
<1>2. UNCHANGED <<pmi_vars, symbols, hps_vars, coded, parsed_pmi>>
  BY DEF Filter
<1> QED BY <1>1, <1>2, FilterOutsideInv, FilterOpensInv, FilterInsideInv

-----------------------------------------------------------------------------
(* What a call of the insert block does, that consumes c symbols.          *)

Item == [bits : {0} \cup Payloads, id : Ids]

(* The chain is shorter; only the first symbol that went can have had a    *)
(* detection.                                                              *)
Shortens(c) ==
  /\ c \in Nat /\ c <= Len(chain) /\ Len(chain') = Len(chain) - c
  /\ \A i \in 1 .. Len(chain) - c : chain'[i] = chain[i + c]
  /\ \A i \in 2 .. c : chain[i] = 0

Untagged(c) == c > 0 => chain[1] = 0

(* m items have joined the symbols, the first of them with a tag. *)
AddsItems(m, bits) ==
  /\ m \in Nat /\ Len(symbols') = Len(symbols) + m
  /\ \A i \in 1 .. Len(symbols) : symbols'[i] = symbols[i]
  /\ \A i \in 1 .. m : /\ symbols'[Len(symbols) + i].bits = IF i = 1 THEN bits ELSE 0
                       /\ symbols'[Len(symbols) + i].id = pmi_id'

(* The items that Published has. *)
NewItems(start, count) ==
  IF start + count <= SyncwordSize THEN 0
  ELSE IF start < SyncwordSize THEN start + count - SyncwordSize
  ELSE count

InsertDiscards(c) ==
  /\ ~pmi_in_packet /\ Shortens(c) /\ Untagged(c)
  /\ UNCHANGED <<pmi_vars, symbols, parsed_pmi, ignored>>

InsertOpens(c) ==
  /\ ~pmi_in_packet /\ Shortens(c) /\ c > 0 /\ c <= HeaderEnd /\ chain[1] # 0
  /\ pmi_in_packet' /\ pmi_position' = c /\ pmi_id' = chain[1]
  /\ AddsItems(NewItems(0, c), 0)
  /\ UNCHANGED <<pmi_payload_symbols, parsed_pmi, ignored>>

InsertPreamble(c) ==
  /\ pmi_in_packet /\ Shortens(c) /\ Untagged(c) /\ pmi_position + c <= HeaderEnd
  /\ pmi_in_packet' /\ pmi_position' = pmi_position + c
  /\ AddsItems(NewItems(pmi_position, c), 0)
  /\ UNCHANGED <<pmi_id, pmi_payload_symbols, parsed_pmi, ignored>>

InsertDrops(c) ==
  /\ Shortens(c) /\ Untagged(c)
  /\ parsed_pmi # <<>> /\ parsed_pmi' = <<>>
  /\ ~pmi_in_packet'
  /\ UNCHANGED <<pmi_position, pmi_id, pmi_payload_symbols, symbols, ignored>>

InsertStarts(c) ==
  /\ Shortens(c) /\ Untagged(c)
  /\ parsed_pmi # <<>> /\ parsed_pmi' = <<>> /\ parsed_pmi[1].meta \in Lengths
  /\ pmi_payload_symbols' = PMI!PayloadSymbols(parsed_pmi[1].meta)
  /\ \E m \in Nat :
       /\ m > 0 /\ m <= pmi_payload_symbols' /\ pmi_position' = HeaderEnd + m
       /\ pmi_in_packet' => m = c /\ m < pmi_payload_symbols'
       /\ ~pmi_in_packet' => m = pmi_payload_symbols'
       /\ AddsItems(m, pmi_payload_symbols')
  /\ UNCHANGED <<pmi_id, ignored>>

InsertCopies(c) ==
  /\ Sending /\ Shortens(c) /\ c > 0
  /\ \E m \in Nat :
       /\ m > 0 /\ pmi_position' = pmi_position + m
       /\ pmi_in_packet' => m = c /\ pmi_position' < PacketEnd
       /\ ~pmi_in_packet' => pmi_position' = PacketEnd
       /\ AddsItems(m, 0)
  /\ \/ UNCHANGED ignored
     \/ chain[1] # 0 /\ ignored' = Append(ignored, chain[1])
  /\ UNCHANGED <<pmi_id, pmi_payload_symbols, parsed_pmi>>

InsertDoes(c) ==
  \/ InsertDiscards(c) \/ InsertOpens(c) \/ InsertPreamble(c)
  \/ InsertDrops(c) \/ InsertStarts(c) \/ InsertCopies(c)

(* What a call of the insert block adds to the items: those past the       *)
(* syncword, with a tag where the payload begins.                          *)
LEMMA PublishedItems ==
  ASSUME pmi_payload_symbols' \in Payloads, pmi_id' \in Ids,
         symbols \in Seq(Item), NEW start \in Nat, NEW count \in Nat,
         symbols' = symbols \o Published(start, count)
  PROVE  /\ symbols' \in Seq(Item)
         /\ start + count <= HeaderEnd => AddsItems(NewItems(start, count), 0)
         /\ start = HeaderEnd => AddsItems(count, pmi_payload_symbols')
         /\ start > HeaderEnd => AddsItems(count, 0)
<1> DEFINE first == SDF!Lesser(start + count, IF start < SyncwordSize THEN SyncwordSize ELSE start)
           m == start + count - first
           f == Published(start, count)
<1>1. f = [i \in 1 .. m |->
             [bits |-> IF first + i - 1 = HeaderEnd THEN pmi_payload_symbols' ELSE 0,
              id   |-> pmi_id']]
  BY Sizes DEF Published
<1>2. /\ m = NewItems(start, count) /\ m \in Nat /\ first \in Nat
      /\ start >= SyncwordSize => m = count
      /\ m > 0 /\ start >= SyncwordSize => first = start
      /\ first + m = start + count
      /\ SyncwordSize \in Nat /\ HeaderEnd \in Nat /\ HeaderEnd > SyncwordSize
  <2>1. SyncwordSize \in Nat /\ HeaderEnd \in Nat /\ HeaderEnd > SyncwordSize
    BY Sizes DEF HeaderEnd
  <2>2. CASE start + count <= SyncwordSize
    BY <2>1, <2>2 DEF NewItems, SDF!Lesser
  <2>3. CASE ~(start + count <= SyncwordSize) /\ start < SyncwordSize
    BY <2>1, <2>3 DEF NewItems, SDF!Lesser
  <2>4. CASE ~(start + count <= SyncwordSize) /\ ~(start < SyncwordSize)
    BY <2>1, <2>4 DEF NewItems, SDF!Lesser
  <2> QED BY <2>1, <2>2, <2>3, <2>4
<1> HIDE DEF first, m, f
<1>3. f \in [1 .. m -> Item]
  BY <1>1 DEF Item
<1>4. \A i \in 1 .. m : /\ f[i].bits = IF first + i - 1 = HeaderEnd
                                         THEN pmi_payload_symbols' ELSE 0
                        /\ f[i].id = pmi_id'
  BY <1>1
<1>5. /\ symbols' \in Seq(Item) /\ Len(symbols') = Len(symbols) + m
      /\ \A i \in 1 .. Len(symbols) : symbols'[i] = symbols[i]
      /\ \A i \in 1 .. m : symbols'[Len(symbols) + i] = f[i]
  <2>1. symbols' = symbols \o f
    BY DEF f
  <2>2. m \in Nat /\ symbols \in Seq(Item) /\ f \in [1 .. m -> Item]
    BY <1>2, <1>3
  <2>3. symbols \o f \in Seq(Item)
    BY <2>2, JoinProperties
  <2>4. Len(symbols \o f) = Len(symbols) + m
    BY <2>2, JoinProperties
  <2>5. \A i \in 1 .. Len(symbols) : (symbols \o f)[i] = symbols[i]
    BY <2>2, JoinProperties
  <2>6. \A i \in 1 .. m : (symbols \o f)[Len(symbols) + i] = f[i]
    BY <2>2, JoinProperties
  <2> QED BY <2>1, <2>3, <2>4, <2>5, <2>6
<1>6. ASSUME NEW bits, \A i \in 1 .. m : f[i].bits = IF i = 1 THEN bits ELSE 0
      PROVE  AddsItems(m, bits)
  <2>1. m \in Nat
    BY <1>2
  <2> QED BY <1>4, <1>5, <1>6, <2>1 DEF AddsItems
<1>7. ASSUME start + count <= HeaderEnd
      PROVE  AddsItems(m, 0)
  <2>1. ASSUME NEW i \in 1 .. m
        PROVE  f[i].bits = IF i = 1 THEN 0 ELSE 0
    <3>1. first + i - 1 # HeaderEnd
      BY <1>2, <1>7
    <3> QED BY <1>4, <3>1
  <2> QED BY <1>6, <2>1
<1>8. ASSUME start = HeaderEnd
      PROVE  AddsItems(m, pmi_payload_symbols')
  <2>1. ASSUME NEW i \in 1 .. m
        PROVE  f[i].bits = IF i = 1 THEN pmi_payload_symbols' ELSE 0
    <3>1. first + i - 1 = HeaderEnd <=> i = 1
      BY <1>2, <1>8
    <3> QED BY <1>4, <3>1
  <2> QED BY <1>6, <2>1
<1>9. ASSUME start > HeaderEnd
      PROVE  AddsItems(m, 0)
  <2>1. ASSUME NEW i \in 1 .. m
        PROVE  f[i].bits = IF i = 1 THEN 0 ELSE 0
    <3>1. first + i - 1 # HeaderEnd
      BY <1>2, <1>9
    <3> QED BY <1>4, <3>1
  <2> QED BY <1>6, <2>1
<1>10. start = HeaderEnd \/ start > HeaderEnd => m = count
  BY <1>2
<1> QED BY <1>2, <1>5, <1>7, <1>8, <1>9, <1>10

(* What a call of the insert block leaves in the chain. *)
LEMMA ChainShortens ==
  ASSUME chain \in Seq({0} \cup Ids), NEW c \in 0 .. Len(chain),
         chain' = From(chain, c), \A i \in 2 .. c : chain[i] = 0
  PROVE  Shortens(c) /\ chain' \in Seq({0} \cup Ids)
<1>1. c \in Nat /\ c <= Len(chain)
  BY LenProperties
<1>2. /\ From(chain, c) \in Seq({0} \cup Ids)
      /\ Len(From(chain, c)) = Len(chain) - c
      /\ \A i \in 1 .. Len(chain) - c : From(chain, c)[i] = chain[i + c]
  BY FromProperties
<1> QED BY <1>1, <1>2 DEF Shortens

(* A call that adds no items leaves the items as they are. *)
LEMMA NothingAdded ==
  ASSUME symbols \in Seq(Item), symbols' \in Seq(Item), NEW bits, AddsItems(0, bits)
  PROVE  symbols' = symbols
<1>1. Len(symbols') = Len(symbols) /\ \A i \in 1 .. Len(symbols') : symbols'[i] = symbols[i]
  BY LenProperties DEF AddsItems
<1> QED BY <1>1, SeqEqual

(* The part of a chunk that ends a packet, or does not. *)
LEMMA UpToEffect ==
  ASSUME NEW tag \in BOOLEAN, NEW n \in Nat, n > 0, NEW c \in Nat, NEW k \in Nat,
         NEW end \in Nat, PMI!Start(tag) \in Nat, PMI!Start(tag) < end,
         PMI!UpTo(end, tag, n, c, k)
  PROVE  /\ k > 0 /\ k <= n /\ pmi_position' = PMI!Start(tag) + k /\ pmi_position' <= end
         /\ pmi_in_packet' \in BOOLEAN /\ (pmi_in_packet' <=> pmi_position' < end)
         /\ pmi_in_packet' => c = k
         /\ ~pmi_in_packet' => c = n
         /\ PMI!Start(tag) + n < end => k = n
<1> DEFINE start == PMI!Start(tag)
           last == PMI!Lesser(start + n, end)
<1>1. /\ k = last - start /\ pmi_position' = last
      /\ pmi_in_packet' = (last < end)
      /\ c = IF last < end THEN k ELSE n
  BY DEF PMI!UpTo
<1>2. last \in Nat /\ last > start /\ last <= start + n /\ last <= end
      /\ (start + n < end => last = start + n)
  <2>1. last = IF start + n <= end THEN start + n ELSE end
    BY DEF PMI!Lesser
  <2> HIDE DEF last
  <2> QED BY <2>1
<1> HIDE DEF last, start
<1>3. pmi_in_packet' \in BOOLEAN /\ (pmi_in_packet' <=> last < end)
  <2>1. (last < end) \in BOOLEAN
    OBVIOUS
  <2> QED BY <1>1, <2>1, Zenon
<1>4. start \in Nat /\ start = PMI!Start(tag)
  BY DEF start
<1>5. /\ k > 0 /\ k <= n /\ start + k = last
      /\ start + n < end => k = n
  BY <1>1, <1>2, <1>4
<1> QED BY <1>1, <1>2, <1>3, <1>4, <1>5

(* A call of the insert block has one of the six effects and keeps the     *)
(* types.                                                                  *)
LEMMA InsertEffect ==
  ASSUME TypeOK, PacketBounds, MessageOfInsert, TagAfterPacket,
         NEW n \in 1 .. MaxChunk, Insert(n)
  PROVE  /\ TypeOK'
         /\ \E c \in Nat : InsertDoes(c)
<1> DEFINE tag == chain[1] # 0
           header == Front(parsed_pmi)
           start == PMI!Start(tag)
           takes == PMI!TakesHeader(tag, n, header)
<1>1. PICK c \in 0 .. n, k \in 0 .. n :
        /\ PMI!ProcessBulk(tag, n, header, c, k)
        /\ pmi_id' = IF PMI!Opens(tag) THEN chain[1] ELSE pmi_id
        /\ symbols' = symbols \o Published(start, k)
        /\ Len(symbols') <= LinkCapacity
        /\ chain' = From(chain, c)
        /\ parsed_pmi' = PopIf(takes, parsed_pmi)
        /\ PMI!Reports(tag) => Len(ignored) < QueueCapacity
        /\ ignored' = IF PMI!Reports(tag) THEN Append(ignored, chain[1]) ELSE ignored
  BY DEF Insert
<1>2. /\ n <= Len(chain) - ChainDelay /\ ChainChunk(n)
      /\ UNCHANGED <<quiet, sdf_vars, hps_vars, coded, parsed_sdf>>
  BY DEF Insert
<1>3. /\ n \in Nat /\ n > 0 /\ c \in Nat /\ k \in Nat /\ c <= n /\ k <= n
      /\ Len(chain) \in Nat /\ n <= Len(chain) /\ 1 \in 1 .. Len(chain)
      /\ c \in 0 .. Len(chain)
  BY <1>2, Types, Sizes
<1>4. /\ HeaderEnd \in Nat /\ HeaderEnd > 0 /\ PMI!HeaderEnd = HeaderEnd
      /\ pmi_payload_symbols \in Nat /\ PacketEnd \in Nat /\ PacketEnd > HeaderEnd
      /\ pmi_in_packet \in BOOLEAN /\ pmi_position \in Nat
      /\ PacketEnd = HeaderEnd + pmi_payload_symbols
      /\ pmi_payload_symbols \in Payloads /\ pmi_id \in Ids
      /\ AllowedMargin \in Nat /\ AllowedMargin > 0 /\ Allowed = HeaderEnd + AllowedMargin
      /\ symbols \in Seq(Item) /\ Len(symbols) \in Nat
  BY Types, PayloadTypes, Sizes DEF PacketBounds, PacketEnd, TypeOK, Item
<1>5. chain[1] \in {0} \cup Ids
  BY <1>3, Types, ElementOfSeq
<1>6. Shortens(c) /\ chain' \in Seq({0} \cup Ids)
  <2>1. \A i \in 2 .. c : chain[i] = 0
    BY <1>2, <1>3 DEF ChainChunk
  <2> QED BY <1>1, <1>3, <2>1, Types, ChainShortens
<1>7. /\ parsed_pmi = <<>> => header = -1
      /\ parsed_pmi # <<>> => /\ pmi_in_packet /\ pmi_position = HeaderEnd
                              /\ header = parsed_pmi[1].meta /\ header \in SDF!Metas
                              /\ header # -1
      /\ takes => parsed_pmi # <<>> /\ parsed_pmi' = <<>>
      /\ ~takes => parsed_pmi' = parsed_pmi
      /\ takes \in BOOLEAN
  <2>1. Len(parsed_pmi) <= 1
    BY DEF MessageOfInsert
  <2>2. /\ parsed_pmi = <<>> => header = -1
        /\ parsed_pmi # <<>> => /\ header = parsed_pmi[1].meta /\ header \in SDF!Metas
                                /\ header # -1
    BY <2>1, Types, FrontOfQueue
  <2>3. takes => parsed_pmi # <<>>
    BY <2>2 DEF PMI!TakesHeader, PMI!NoMessage
  <2>4. takes \in BOOLEAN
    BY DEF PMI!TakesHeader
  <2>5. takes => parsed_pmi' = <<>>
    <3>1. ASSUME takes PROVE parsed_pmi' = <<>>
      <4>1. PopIf(takes, parsed_pmi) = PopIf(TRUE, parsed_pmi)
        BY <3>1 DEF PopIf
      <4> QED BY <1>1, <2>1, <2>3, <3>1, <4>1, Types, FrontOfQueue
    <3> QED BY <3>1
  <2>6. ~takes => parsed_pmi' = parsed_pmi
    BY <1>1 DEF PopIf
  <2> QED BY <2>2, <2>3, <2>4, <2>5, <2>6 DEF MessageOfInsert
(* A detection that is inside a packet is in its payload. *)
<1>8. tag /\ pmi_in_packet => pmi_position > HeaderEnd
  <2>1. tag /\ pmi_in_packet => MessageWaits(1 - 1) \/ PayloadEnds(1 - 1)
    BY <1>3 DEF TagAfterPacket
  <2> QED BY <1>4, <2>1 DEF MessageWaits, PayloadEnds
<1>9. /\ PMI!Opens(tag) => tag /\ ~pmi_in_packet /\ start = 0
      /\ ~PMI!Opens(tag) => start = pmi_position
      /\ start \in Nat
      /\ PMI!InsidePacket(tag) => start < PacketEnd /\ (PMI!Opens(tag) \/ pmi_in_packet)
      /\ PMI!Reports(tag) => tag /\ pmi_in_packet
  BY <1>4 DEF PMI!Opens, PMI!Start, PMI!InsidePacket, PMI!Reports, PacketBounds
<1>10. tag /\ (~PMI!Opens(tag)) => pmi_in_packet
  BY DEF PMI!Opens
<1>11. /\ ~PMI!Reports(tag) => ignored' = ignored
       /\ PMI!Reports(tag) => ignored' = Append(ignored, chain[1])
       /\ ~PMI!Opens(tag) => pmi_id' = pmi_id
       /\ PMI!Opens(tag) => pmi_id' = chain[1]
       /\ pmi_id' \in Ids
  BY <1>1, <1>4, <1>5 DEF PMI!Opens
<1>12. tag \in BOOLEAN /\ start = PMI!Start(tag)
  OBVIOUS
<1> HIDE DEF tag, header, takes, start
<1>13. ASSUME pmi_payload_symbols' \in Payloads
      PROVE  /\ symbols' \in Seq(Item)
             /\ start + k <= HeaderEnd => AddsItems(NewItems(start, k), 0)
             /\ start = HeaderEnd => AddsItems(k, pmi_payload_symbols')
             /\ start > HeaderEnd => AddsItems(k, 0)
  <2>1. symbols' = symbols \o Published(start, k)
    BY <1>1 DEF tag, start
  <2> QED BY <1>3, <1>4, <1>9, <1>11, <1>13, <2>1, PublishedItems
<1>14. ASSUME pmi_payload_symbols' \in Payloads, k = 0
      PROVE  symbols' = symbols
  <2>1. \E bits : AddsItems(0, bits)
    <3>1. CASE start <= HeaderEnd
      <4>1. NewItems(start, k) = 0
        BY <1>9, <1>14, Sizes DEF NewItems
      <4>2. AddsItems(NewItems(start, k), 0)
        BY <1>4, <1>9, <1>14, <1>13, <3>1
      <4> QED BY <4>1, <4>2
    <3>2. CASE start > HeaderEnd
      BY <1>14, <1>13, <3>2
    <3> QED BY <1>4, <1>9, <3>1, <3>2
  <2> QED BY <1>4, <1>14, <1>13, <2>1, NothingAdded
(* Outside a packet. *)
<1>15. ASSUME PMI!Discard(tag, n, c, k)
       PROVE  InsertDiscards(c) /\ pmi_payload_symbols' \in Payloads
              /\ pmi_in_packet' \in BOOLEAN
  <2>1. /\ ~tag /\ ~pmi_in_packet /\ k = 0
        /\ UNCHANGED <<pmi_in_packet, pmi_position, pmi_payload_symbols>>
    BY <1>15 DEF PMI!Discard, PMI!InsidePacket, PMI!vars
  <2>2. ~PMI!Opens(tag) /\ ~PMI!Reports(tag) /\ ~takes
    BY <1>7, <1>9, <2>1
  <2>3. symbols' = symbols
    BY <1>4, <1>14, <2>1
  <2> QED BY <1>4, <1>6, <1>7, <1>11, <2>1, <2>2, <2>3
          DEF InsertDiscards, Untagged, pmi_vars, tag
<1>16. ASSUME PMI!InsidePacket(tag), k = c, start + k <= HeaderEnd, ~takes,
              PMI!Opens(tag) => k > 0,
              pmi_in_packet' \in BOOLEAN, pmi_in_packet', pmi_position' = start + k,
              UNCHANGED pmi_payload_symbols
       PROVE  /\ InsertOpens(c) \/ InsertPreamble(c)
              /\ pmi_payload_symbols' \in Payloads
              /\ pmi_in_packet' \in BOOLEAN
  <2>1. pmi_payload_symbols' \in Payloads /\ parsed_pmi' = parsed_pmi
    BY <1>4, <1>7, <1>16
  <2>2. AddsItems(NewItems(start, c), 0)
    BY <1>13, <1>16, <2>1
  <2>3. CASE PMI!Opens(tag)
    <3>1. c > 0 /\ c <= HeaderEnd /\ start = 0 /\ pmi_position' = c
      BY <1>3, <1>4, <1>9, <1>16, <2>3
    <3>2. ~PMI!Reports(tag) /\ tag /\ ~pmi_in_packet
      BY <1>9, <2>3
    <3>3. AddsItems(NewItems(0, c), 0)
      BY <2>2, <3>1
    <3>4. InsertOpens(c)
      BY <1>6, <1>11, <1>16, <2>1, <2>3, <3>1, <3>2, <3>3 DEF InsertOpens, tag
    <3> QED BY <1>16, <2>1, <3>4
  <2>4. CASE ~PMI!Opens(tag)
    <3>1. start = pmi_position /\ pmi_in_packet
      BY <1>9, <1>16, <2>4
    <3>2. ~tag
      <4>1. ~tag \/ pmi_position > HeaderEnd
        BY <1>8, <3>1 DEF tag
      <4> QED BY <1>3, <1>4, <1>16, <3>1, <4>1
    <3>3. ~PMI!Reports(tag)
      BY <1>9, <3>2
    <3>4. AddsItems(NewItems(pmi_position, c), 0)
      BY <2>2, <3>1
    <3>5. InsertPreamble(c)
      BY <1>6, <1>11, <1>16, <2>1, <2>4, <3>1, <3>2, <3>3, <3>4 DEF InsertPreamble, Untagged, tag
    <3> QED BY <1>16, <2>1, <3>5
  <2> QED BY <2>3, <2>4
(* In the syncword or the header. *)
<1>17. ASSUME PMI!CopyPreamble(tag, n, c, k)
       PROVE  /\ InsertOpens(c) \/ InsertPreamble(c)
              /\ pmi_payload_symbols' \in Payloads
              /\ pmi_in_packet' \in BOOLEAN
  <2>1. /\ PMI!InsidePacket(tag) /\ start + n <= HeaderEnd
        /\ PMI!UpTo(PacketEnd, tag, n, c, k)
        /\ UNCHANGED pmi_payload_symbols
    BY <1>4, <1>17 DEF PMI!CopyPreamble, start
  <2>2. start + n < PacketEnd
    BY <1>3, <1>4, <1>9, <2>1
  <2>3. /\ k > 0 /\ pmi_position' = start + k /\ k = n
        /\ pmi_in_packet' \in BOOLEAN /\ (pmi_in_packet' <=> pmi_position' < PacketEnd)
        /\ pmi_in_packet' => c = k
    BY <1>3, <1>4, <1>9, <2>1, <2>2, <1>12, UpToEffect
  <2>4. pmi_in_packet' /\ c = k
    BY <2>2, <2>3
  <2>5. ~takes
    BY <1>3, <1>4, <1>9, <2>1 DEF takes, PMI!TakesHeader, PMI!ReachesPayload, tag, start
  <2> QED BY <1>16, <2>1, <2>3, <2>4, <2>5
<1>18. ASSUME PMI!AwaitHeader(tag, n, header, c, k)
       PROVE  /\ InsertOpens(c) \/ InsertPreamble(c)
              /\ pmi_payload_symbols' \in Payloads
              /\ pmi_in_packet' \in BOOLEAN
  <2>1. /\ PMI!InsidePacket(tag) /\ start <= HeaderEnd
        /\ k = HeaderEnd - start /\ c = k /\ header = -1
        /\ pmi_in_packet' /\ pmi_position' = HeaderEnd
        /\ UNCHANGED pmi_payload_symbols
    BY <1>4, <1>18 DEF PMI!AwaitHeader, PMI!ReachesPayload, PMI!NoMessage, start
  <2>2. start + k = HeaderEnd
    BY <1>4, <1>9, <2>1
  <2>3. PMI!Opens(tag) => k > 0
    BY <1>3, <1>4, <1>9, <2>2
  <2>4. ~takes
    BY <2>1 DEF takes, PMI!TakesHeader, PMI!NoMessage, header
  <2> QED BY <1>16, <1>4, <2>1, <2>2, <2>3, <2>4
<1>19. ASSUME PMI!InsidePacket(tag), PMI!ReachesPayload(tag, n), header # -1
       PROVE  /\ takes /\ parsed_pmi # <<>> /\ parsed_pmi' = <<>>
              /\ pmi_in_packet /\ pmi_position = HeaderEnd /\ start = HeaderEnd
              /\ header = parsed_pmi[1].meta /\ header \in SDF!Metas
              /\ ~PMI!Opens(tag) /\ ~tag /\ Untagged(c)
              /\ UNCHANGED <<pmi_id, ignored>>
  <2>1. takes
    BY <1>19 DEF takes, PMI!TakesHeader, PMI!NoMessage, header, tag
  <2>2. ~tag /\ ~PMI!Opens(tag)
    BY <1>4, <1>7, <1>8, <1>9, <2>1 DEF tag
  <2> QED BY <1>7, <1>9, <1>11, <2>1, <2>2 DEF Untagged, tag
(* The header could not be decoded. *)
<1>20. ASSUME PMI!DropPacket(tag, n, header, c, k)
       PROVE  InsertDrops(c) /\ pmi_payload_symbols' \in Payloads
              /\ pmi_in_packet' \in BOOLEAN
  <2>1. /\ PMI!InsidePacket(tag) /\ PMI!ReachesPayload(tag, n) /\ header = 0
        /\ k = HeaderEnd - start /\ pmi_in_packet' = FALSE /\ pmi_position' = HeaderEnd
        /\ UNCHANGED pmi_payload_symbols
    BY <1>4, <1>20 DEF PMI!DropPacket, PMI!InvalidHeader, start
  <2>2. /\ takes /\ parsed_pmi # <<>> /\ parsed_pmi' = <<>>
        /\ pmi_in_packet /\ pmi_position = HeaderEnd /\ start = HeaderEnd
        /\ Untagged(c) /\ UNCHANGED <<pmi_id, ignored>>
    BY <1>19, <2>1
  <2>3. k = 0
    BY <1>4, <2>1, <2>2
  <2>4. symbols' = symbols
    BY <1>4, <1>14, <2>1, <2>3
  <2> QED BY <1>4, <1>6, <2>1, <2>2, <2>4 DEF InsertDrops
<1>21. ASSUME PMI!StartPayload(tag, n, header, c, k)
       PROVE  InsertStarts(c) /\ pmi_payload_symbols' \in Payloads
              /\ pmi_in_packet' \in BOOLEAN
  <2>1. /\ PMI!InsidePacket(tag) /\ PMI!ReachesPayload(tag, n)
        /\ header # -1 /\ header # 0
        /\ pmi_payload_symbols' = PMI!PayloadSymbols(header)
        /\ PMI!UpTo(HeaderEnd + pmi_payload_symbols', tag, n, c, k)
    BY <1>4, <1>21 DEF PMI!StartPayload, PMI!InvalidHeader, PMI!NoMessage
  <2>2. /\ parsed_pmi # <<>> /\ parsed_pmi' = <<>> /\ start = HeaderEnd
        /\ header = parsed_pmi[1].meta /\ header \in SDF!Metas
        /\ Untagged(c) /\ UNCHANGED <<pmi_id, ignored>>
    BY <1>19, <2>1
  <2>3. header \in Lengths
    BY <2>1, <2>2, MessageSizes
  <2>4. /\ pmi_payload_symbols' \in Payloads
        /\ pmi_payload_symbols' \in Nat /\ pmi_payload_symbols' > 0
    <3>1. PMI!PayloadSymbols(header) \in Payloads
      BY <2>3, PayloadSizes
    <3>2. pmi_payload_symbols' \in Payloads
      BY <2>1, <3>1
    <3>3. pmi_payload_symbols' \in Nat /\ pmi_payload_symbols' > AllowedMargin
      BY <3>2, PayloadSizes
    <3> QED BY <1>4, <3>2, <3>3
  <2> DEFINE end == HeaderEnd + pmi_payload_symbols'
  <2>5. end \in Nat /\ start < end /\ PMI!UpTo(end, tag, n, c, k)
    BY <1>4, <2>1, <2>2, <2>4
  <2>6. end = HeaderEnd + pmi_payload_symbols'
    OBVIOUS
  <2> HIDE DEF end
  <2>7. /\ k > 0 /\ pmi_position' = start + k /\ pmi_position' <= end
        /\ pmi_in_packet' \in BOOLEAN /\ (pmi_in_packet' <=> pmi_position' < end)
        /\ pmi_in_packet' => c = k
    BY <1>3, <1>9, <2>5, <1>12, UpToEffect
  <2>8. AddsItems(k, pmi_payload_symbols')
    BY <1>13, <2>2, <2>4
  <2>9. /\ k <= pmi_payload_symbols' /\ pmi_position' = HeaderEnd + k
        /\ pmi_in_packet' => k = c /\ k < pmi_payload_symbols'
        /\ ~pmi_in_packet' => k = pmi_payload_symbols'
    <3>1. /\ pmi_position' = HeaderEnd + k
          /\ HeaderEnd + k <= HeaderEnd + pmi_payload_symbols'
          /\ pmi_in_packet' <=> HeaderEnd + k < HeaderEnd + pmi_payload_symbols'
      BY <2>2, <2>6, <2>7
    <3>2. k \in Nat /\ HeaderEnd \in Nat /\ pmi_payload_symbols' \in Nat
      BY <1>3, <1>4, <2>4
    <3>3. /\ k <= pmi_payload_symbols'
          /\ pmi_in_packet' <=> k < pmi_payload_symbols'
      <4>1. \A h, a, b \in Nat : (h + a <= h + b <=> a <= b) /\ (h + a < h + b <=> a < b)
        OBVIOUS
      <4> QED BY <3>1, <3>2, <4>1
    <3> QED BY <2>7, <3>1, <3>2, <3>3
  <2> QED BY <1>3, <1>6, <2>1, <2>2, <2>3, <2>4, <2>7, <2>8, <2>9 DEF InsertStarts
<1>22. ASSUME PMI!CopyPayload(tag, n, c, k)
       PROVE  InsertCopies(c) /\ pmi_payload_symbols' \in Payloads
              /\ pmi_in_packet' \in BOOLEAN
  <2>1. /\ PMI!InsidePacket(tag) /\ start > HeaderEnd
        /\ PMI!UpTo(PacketEnd, tag, n, c, k)
        /\ UNCHANGED pmi_payload_symbols
    BY <1>4, <1>22 DEF PMI!CopyPayload, start
  <2>2. /\ k > 0 /\ pmi_position' = start + k /\ pmi_position' <= PacketEnd
        /\ pmi_in_packet' \in BOOLEAN /\ (pmi_in_packet' <=> pmi_position' < PacketEnd)
        /\ pmi_in_packet' => c = k
        /\ ~pmi_in_packet' => c = n
    BY <1>3, <1>4, <1>9, <2>1, <1>12, UpToEffect
  <2>3. ~PMI!Opens(tag) /\ pmi_in_packet /\ start = pmi_position
    BY <1>4, <1>9, <2>1
  <2>4. ~takes
    BY <1>4, <1>7, <1>9, <2>1, <2>3
  <2>5. AddsItems(k, 0)
    BY <1>4, <1>13, <2>1
  <2>6. c > 0 /\ (~pmi_in_packet' => pmi_position' = PacketEnd)
    <3>1. pmi_position' \in Nat
      BY <1>3, <1>9, <2>2
    <3>2. CASE pmi_in_packet'
      BY <1>3, <2>2, <3>2
    <3>3. CASE ~pmi_in_packet'
      BY <1>3, <1>4, <2>2, <3>1, <3>3
    <3> QED BY <3>2, <3>3
  <2>7. \/ UNCHANGED ignored
        \/ chain[1] # 0 /\ ignored' = Append(ignored, chain[1])
    <3>1. CASE PMI!Reports(tag)
      <4>1. tag /\ ignored' = Append(ignored, chain[1])
        BY <1>9, <1>11, <3>1
      <4> QED BY <4>1 DEF tag
    <3>2. CASE ~PMI!Reports(tag)
      BY <1>11, <3>2
    <3> QED BY <3>1, <3>2
  <2> QED BY <1>3, <1>4, <1>6, <1>7, <1>11, <2>1, <2>2, <2>3, <2>4, <2>5, <2>6, <2>7
          DEF InsertCopies, Sending
<1>23. /\ \E d \in Nat : InsertDoes(d)
       /\ pmi_payload_symbols' \in Payloads /\ pmi_in_packet' \in BOOLEAN
  <2>1. PMI!ProcessBulk(tag, n, header, c, k)
    BY <1>1 DEF tag, header
  <2> QED BY <1>3, <2>1, <1>15, <1>17, <1>18, <1>20, <1>21, <1>22
          DEF PMI!ProcessBulk, InsertDoes
<1>24. TypeOK'
  <2>1. pmi_position' \in Nat
    <3>1. PICK d \in Nat : InsertDoes(d)
      BY <1>23
    <3>2. CASE InsertStarts(d)
      BY <1>4, <3>2 DEF InsertStarts
    <3>3. CASE InsertCopies(d)
      BY <1>4, <3>3 DEF InsertCopies
    <3> QED BY <1>4, <3>1, <3>2, <3>3
            DEF InsertDoes, InsertDiscards, InsertOpens, InsertPreamble, InsertDrops, pmi_vars
  <2>2. symbols' \in Seq(Item) /\ Len(symbols') <= LinkCapacity
    BY <1>1, <1>13, <1>23
  <2>3. parsed_pmi' \in Seq(Message) /\ Len(parsed_pmi') <= QueueCapacity
    <3>1. <<>> \in Seq(Message) /\ Len(<<>>) <= QueueCapacity
      BY EmptySeq, Sizes
    <3> QED BY <1>7, <3>1 DEF TypeOK
  <2>4. ignored' \in Seq(Ids) /\ Len(ignored') <= QueueCapacity
    <3>1. CASE PMI!Reports(tag)
      <4>1. ignored \in Seq(Ids) /\ chain[1] \in Ids /\ Len(ignored) \in Nat
        BY <1>5, <1>9, <3>1, Types DEF tag
      <4>2. Len(ignored) < QueueCapacity
        BY <1>1, <3>1 DEF tag
      <4> QED BY <1>11, <3>1, <4>1, <4>2, AppendProperties, Sizes
    <3>2. CASE ~PMI!Reports(tag)
      BY <1>11, <3>2 DEF TypeOK
    <3> QED BY <3>1, <3>2
  <2>5. Len(chain') <= ChainCapacity
    BY <1>6, Types, Sizes DEF TypeOK, Shortens
  <2> QED BY <1>2, <1>6, <1>11, <1>23, <2>1, <2>2, <2>3, <2>4, <2>5
          DEF TypeOK, SDF!TypeOK, sdf_vars, hps_vars, Item
<1> QED BY <1>23, <1>24

-----------------------------------------------------------------------------
(* The items stay in order in a call of the insert block.                  *)

(* Where the items that were added are. *)
LEMMA AddedItems ==
  ASSUME Len(symbols) \in Nat, NEW m, NEW bits, AddsItems(m, bits)
  PROVE  /\ m \in Nat /\ Len(symbols') = Len(symbols) + m /\ Len(symbols') \in Nat
         /\ \A i \in 1 .. Len(symbols') :
              \/ i \in 1 .. Len(symbols) /\ symbols'[i] = symbols[i]
              \/ /\ i > Len(symbols) /\ symbols'[i].id = pmi_id'
                 /\ symbols'[i].bits = IF i = Len(symbols) + 1 THEN bits ELSE 0
<1>1. /\ m \in Nat /\ Len(symbols') = Len(symbols) + m
      /\ \A i \in 1 .. Len(symbols) : symbols'[i] = symbols[i]
      /\ \A i \in 1 .. m : /\ symbols'[Len(symbols) + i].bits = IF i = 1 THEN bits ELSE 0
                           /\ symbols'[Len(symbols) + i].id = pmi_id'
  BY DEF AddsItems
<1>2. ASSUME NEW i \in 1 .. Len(symbols'), ~(i <= Len(symbols))
      PROVE  /\ symbols'[i].id = pmi_id'
             /\ symbols'[i].bits = IF i = Len(symbols) + 1 THEN bits ELSE 0
  <2>1. i - Len(symbols) \in 1 .. m /\ Len(symbols) + (i - Len(symbols)) = i
    BY <1>1, <1>2
  <2>2. i - Len(symbols) = 1 <=> i = Len(symbols) + 1
    OBVIOUS
  <2> QED BY <1>1, <2>1, <2>2
<1> QED BY <1>1, <1>2

(* The header of a packet grows. *)
LEMMA HeaderGrows ==
  ASSUME TypeOK, TypeOK', ItemsInOrder, ~Sending, ~Sending',
         NEW m, AddsItems(m, 0), HeaderItems \in Nat,
         HeaderItems' = HeaderItems + m, HeaderItems > 0 => pmi_id' = pmi_id,
         HeaderDone => m = 0,
         UNCHANGED <<hps_vars, coded, parsed_pmi>>
  PROVE  ItemsInOrder'
<1>1. /\ m \in Nat /\ Len(symbols) \in Nat /\ Len(symbols') = Len(symbols) + m
      /\ Len(symbols') \in Nat /\ hps_position \in Nat
      /\ \A i \in 1 .. Len(symbols') :
           \/ i \in 1 .. Len(symbols) /\ symbols'[i] = symbols[i]
           \/ /\ i > Len(symbols) /\ symbols'[i].id = pmi_id' /\ symbols'[i].bits = 0
  BY AddedItems, Types
<1>2. /\ UNCHANGED <<hps_in_payload, hps_position, hps_payload_items, hps_failed>>
      /\ HPS!HeaderStart' = HPS!HeaderStart
  BY DEF hps_vars, HPS!HeaderStart
<1>3. CASE InPayload
  <2>1. hps_payload_items \in Nat
    <3>1. hps_payload_items \in {0} \cup Payloads
      BY DEF TypeOK
    <3> QED BY <3>1, PayloadSizes
  <2>2. hps_position + Len(symbols) = hps_payload_items + HeaderItems
    BY <1>3 DEF InPayload
  <2>3. hps_position + Len(symbols') = hps_payload_items + HeaderItems'
    BY <1>1, <2>1, <2>2
  <2>4. ASSUME NEW i \in 1 .. Len(symbols')
        PROVE  /\ symbols'[i].bits = 0
               /\ hps_position + i > hps_payload_items => symbols'[i].id = pmi_id'
    <3>1. CASE i \in 1 .. Len(symbols) /\ symbols'[i] = symbols[i]
      <4>1. hps_position + i > hps_payload_items => HeaderItems > 0
        BY <1>1, <2>1, <2>2, <3>1
      <4> QED BY <1>3, <3>1, <4>1 DEF InPayload
    <3>2. CASE symbols'[i].id = pmi_id' /\ symbols'[i].bits = 0
      BY <3>2
    <3> QED BY <1>1, <3>1, <3>2
  <2>5. InPayload'
    BY <1>2, <1>3, <2>3, <2>4 DEF InPayload
  <2> QED BY <1>2, <2>5 DEF ItemsInOrder
<1>4. CASE BeforePayload
  <2>1. symbols[1].bits \in Nat /\ symbols'[1] = symbols[1] /\ Len(symbols) > 0
    <3>1. 1 \in 1 .. Len(symbols) /\ 1 \in 1 .. Len(symbols') /\ Len(symbols) > 0
      BY <1>1, <1>4 DEF BeforePayload
    <3>2. symbols[1] \in [bits : {0} \cup Payloads, id : Ids]
      BY <3>1, ElementOfSeq DEF TypeOK
    <3> QED BY <1>1, <3>1, <3>2, PayloadSizes
  <2>2. Len(symbols) = symbols[1].bits + HeaderItems
    BY <1>4 DEF BeforePayload
  <2>3. Len(symbols') = symbols'[1].bits + HeaderItems' /\ Len(symbols') > 0
    <3>1. symbols'[1].bits = symbols[1].bits
      BY <2>1
    <3> QED BY <1>1, <2>1, <2>2, <3>1
  <2>4. ASSUME NEW i \in 1 .. Len(symbols')
        PROVE  /\ symbols'[i].bits = 0 <=> i > 1
               /\ i > symbols'[1].bits => symbols'[i].id = pmi_id'
    <3>1. CASE i \in 1 .. Len(symbols) /\ symbols'[i] = symbols[i]
      <4>1. i > symbols[1].bits => HeaderItems > 0
        BY <1>1, <2>1, <2>2, <3>1
      <4> QED BY <1>4, <2>1, <3>1, <4>1 DEF BeforePayload
    <3>2. CASE i > Len(symbols) /\ symbols'[i].id = pmi_id' /\ symbols'[i].bits = 0
      BY <1>1, <2>1, <3>2
    <3> QED BY <1>1, <3>1, <3>2
  <2>5. BeforePayload'
    BY <1>2, <1>4, <2>3, <2>4 DEF BeforePayload
  <2> QED BY <1>2, <2>5 DEF ItemsInOrder
<1>5. CASE InHeader
  <2>1. HPS!HeaderStart \in Nat
    BY <1>1 DEF HPS!HeaderStart
  <2>2. HPS!HeaderStart + Len(symbols) = HeaderItems
    BY <1>5 DEF InHeader
  <2>3. HPS!HeaderStart' + Len(symbols') = HeaderItems'
    BY <1>1, <1>2, <2>1, <2>2
  <2>4. ASSUME NEW i \in 1 .. Len(symbols')
        PROVE  symbols'[i].bits = 0 /\ symbols'[i].id = pmi_id'
    <3>1. CASE i \in 1 .. Len(symbols) /\ symbols'[i] = symbols[i]
      <4>1. HeaderItems > 0
        BY <1>1, <2>1, <2>2, <3>1
      <4> QED BY <1>5, <3>1, <4>1 DEF InHeader
    <3>2. CASE symbols'[i].id = pmi_id' /\ symbols'[i].bits = 0
      BY <3>2
    <3> QED BY <1>1, <3>1, <3>2
  <2>5. InHeader'
    BY <1>2, <1>5, <2>3, <2>4 DEF InHeader
  <2> QED BY <1>2, <2>5 DEF ItemsInOrder
<1>6. CASE HeaderDone
  <2>1. symbols = <<>> /\ m = 0
    BY <1>6 DEF HeaderDone
  <2>2. symbols' = symbols
    <3>1. symbols \in Seq(Item) /\ symbols' \in Seq(Item)
      BY DEF TypeOK, Item
    <3> QED BY <2>1, <3>1, NothingAdded
  <2> QED BY <1>2, <1>6, <2>2 DEF ItemsInOrder, HeaderDone
<1> QED BY <1>3, <1>4, <1>5, <1>6 DEF ItemsInOrder

(* A payload begins, with its tag. *)
LEMMA ItemsWhenStarts ==
  ASSUME TypeOK, TypeOK', MessageOfInsert, CodedOfPacket, ItemsInOrder,
         NEW c \in Nat, InsertStarts(c), UNCHANGED <<hps_vars, coded>>
  PROVE  ItemsInOrder'
<1>1. PICK m \in Nat :
        /\ m > 0 /\ m <= pmi_payload_symbols' /\ pmi_position' = HeaderEnd + m
        /\ pmi_in_packet' => m = c /\ m < pmi_payload_symbols'
        /\ ~pmi_in_packet' => m = pmi_payload_symbols'
        /\ AddsItems(m, pmi_payload_symbols')
  BY DEF InsertStarts
<1>2. /\ parsed_pmi # <<>> /\ parsed_pmi' = <<>>
      /\ pmi_payload_symbols' \in Nat /\ pmi_payload_symbols' > 0
      /\ HeaderEnd \in Nat
  <2>1. pmi_payload_symbols' \in Payloads
    BY PayloadSizes DEF InsertStarts
  <2>2. pmi_payload_symbols' \in Nat
    BY <2>1, PayloadSizes
  <2>3. pmi_payload_symbols' > 0
    <3>1. \A a, b \in Nat : a > 0 /\ a <= b => b > 0
      OBVIOUS
    <3> QED BY <1>1, <2>2, <3>1
  <2> QED BY <2>2, <2>3, Sizes DEF InsertStarts
<1>3. /\ HeaderDone /\ coded = <<>> /\ symbols = <<>> /\ Len(symbols) = 0
      /\ ~hps_failed /\ ~hps_in_payload /\ hps_position = HeaderSize
  BY <1>2 DEF ItemsInOrder, InPayload, BeforePayload, InHeader, HeaderDone, MessageOfInsert
<1>4. /\ Len(symbols') = m
      /\ \A i \in 1 .. Len(symbols') :
           symbols'[i].bits = IF i = 1 THEN pmi_payload_symbols' ELSE 0
  <2>1. Len(symbols) \in Nat
    BY Types
  <2>2. /\ Len(symbols') = Len(symbols) + m
        /\ \A i \in 1 .. Len(symbols') :
              \/ i \in 1 .. Len(symbols) /\ symbols'[i] = symbols[i]
              \/ symbols'[i].bits = IF i = Len(symbols) + 1 THEN pmi_payload_symbols' ELSE 0
    BY <1>1, <2>1, AddedItems
  <2> QED BY <1>3, <2>2
<1>5. HeaderItems' = 0 \/ Sending'
  BY <1>1, <1>2 DEF HeaderItems, Sending
<1>6. Sending' => /\ symbols'[1].bits = pmi_payload_symbols'
                  /\ Len(symbols') = pmi_position' - HeaderEnd
  BY <1>1, <1>2, <1>4
<1>7. ~Sending' => /\ Len(symbols') = symbols'[1].bits + HeaderItems'
                   /\ \A i \in 1 .. Len(symbols') : ~(i > symbols'[1].bits)
  <2>1. ASSUME ~Sending' PROVE ~pmi_in_packet'
    BY <1>1, <1>2, <2>1 DEF Sending
  <2>2. ASSUME ~Sending' PROVE m = pmi_payload_symbols' /\ HeaderItems' = 0
    BY <1>1, <1>5, <2>1, <2>2
  <2>3. 1 \in 1 .. Len(symbols') /\ symbols'[1].bits = pmi_payload_symbols'
    BY <1>1, <1>4
  <2>4. ASSUME ~Sending'
        PROVE  /\ Len(symbols') = symbols'[1].bits + HeaderItems'
               /\ \A i \in 1 .. Len(symbols') : ~(i > symbols'[1].bits)
    <3>1. symbols'[1].bits = m /\ HeaderItems' = 0 /\ Len(symbols') = m
      BY <1>4, <2>2, <2>3, <2>4
    <3> QED BY <3>1
  <2> QED BY <2>4
<1>8. BeforePayload'
  <2>1. Len(symbols') > 0
    BY <1>1, <1>4
  <2>2. \A i \in 1 .. Len(symbols') : symbols'[i].bits = 0 <=> i > 1
    BY <1>1, <1>2, <1>4
  <2> QED BY <1>2, <1>3, <1>6, <1>7, <2>1, <2>2 DEF BeforePayload, hps_vars
<1> QED BY <1>3, <1>8 DEF ItemsInOrder, hps_vars

(* A payload grows. *)
LEMMA ItemsWhenCopies ==
  ASSUME TypeOK, TypeOK', PacketBounds, MessageOfInsert, CodedOfPacket, ItemsInOrder,
         NEW c \in Nat, InsertCopies(c), UNCHANGED <<hps_vars, coded>>
  PROVE  ItemsInOrder'
<1>1. PICK m \in Nat :
        /\ m > 0 /\ pmi_position' = pmi_position + m
        /\ pmi_in_packet' => pmi_position' < PacketEnd
        /\ ~pmi_in_packet' => pmi_position' = PacketEnd
        /\ AddsItems(m, 0)
  BY DEF InsertCopies
<1>2. /\ Sending /\ pmi_in_packet /\ pmi_position > HeaderEnd
      /\ UNCHANGED <<pmi_payload_symbols, parsed_pmi, pmi_id>>
      /\ pmi_position \in Nat /\ HeaderEnd \in Nat /\ pmi_payload_symbols \in Nat
      /\ PacketEnd = HeaderEnd + pmi_payload_symbols /\ hps_position \in Nat
  BY Types, PayloadTypes, Sizes DEF InsertCopies, Sending, PacketEnd
<1>3. /\ ~InHeader /\ ~HeaderDone /\ ~hps_failed
      /\ InPayload \/ BeforePayload
  BY <1>2 DEF ItemsInOrder, InHeader, HeaderDone, MessageOfInsert, CodedOfPacket
<1>4. /\ Len(symbols) \in Nat /\ Len(symbols') = Len(symbols) + m
      /\ \A i \in 1 .. Len(symbols') :
            \/ i \in 1 .. Len(symbols) /\ symbols'[i] = symbols[i]
            \/ i > Len(symbols) /\ symbols'[i].bits = 0
  BY <1>1, AddedItems, Types
<1>5. Sending' <=> pmi_in_packet'
  BY <1>1, <1>2 DEF Sending
<1>6. ~Sending' => HeaderItems' = 0 /\ pmi_position' - HeaderEnd = pmi_payload_symbols
  BY <1>1, <1>2, <1>5 DEF HeaderItems
<1>7. pmi_position' - HeaderEnd = pmi_position - HeaderEnd + m
  BY <1>1, <1>2
<1>8. CASE InPayload
  <2>1. /\ hps_payload_items = pmi_payload_symbols
        /\ hps_position + Len(symbols) = pmi_position - HeaderEnd
    BY <1>2, <1>8 DEF InPayload
  <2>2. hps_position + Len(symbols') = pmi_position' - HeaderEnd
    BY <1>2, <1>4, <1>7, <2>1
  <2>3. \A i \in 1 .. Len(symbols') : symbols'[i].bits = 0
    BY <1>4, <1>8 DEF InPayload
  <2>4. ~Sending' =>
          /\ hps_position + Len(symbols') = hps_payload_items + HeaderItems'
          /\ \A i \in 1 .. Len(symbols') : ~(hps_position + i > hps_payload_items)
    <3>1. SUFFICES ASSUME ~Sending'
                   PROVE  /\ hps_position + Len(symbols') = hps_payload_items + HeaderItems'
                          /\ \A i \in 1 .. Len(symbols') :
                               ~(hps_position + i > hps_payload_items)
      OBVIOUS
    <3>2. hps_position + Len(symbols') = pmi_payload_symbols /\ HeaderItems' = 0
      BY <1>6, <2>2, <3>1
    <3> QED BY <1>2, <1>4, <2>1, <3>2
  <2>5. InPayload'
    BY <1>2, <1>8, <2>1, <2>2, <2>3, <2>4 DEF InPayload, hps_vars
  <2> QED BY <1>3, <2>5 DEF ItemsInOrder, hps_vars
<1>9. CASE BeforePayload
  <2>1. /\ symbols[1].bits = pmi_payload_symbols /\ Len(symbols) > 0
        /\ Len(symbols) = pmi_position - HeaderEnd
    BY <1>2, <1>9 DEF BeforePayload
  <2>2. Len(symbols') = pmi_position' - HeaderEnd /\ Len(symbols') > 0
    BY <1>2, <1>4, <1>7, <2>1
  <2>3. symbols'[1].bits = pmi_payload_symbols
    <3>1. 1 \in 1 .. Len(symbols') /\ ~(1 > Len(symbols))
      BY <1>4, <2>1
    <3> QED BY <1>4, <2>1, <3>1
  <2>4. \A i \in 1 .. Len(symbols') : symbols'[i].bits = 0 <=> i > 1
    BY <1>4, <1>9, <2>1 DEF BeforePayload
  <2>5. ~Sending' => /\ Len(symbols') = symbols'[1].bits + HeaderItems'
                     /\ \A i \in 1 .. Len(symbols') : ~(i > symbols'[1].bits)
    <3>1. SUFFICES ASSUME ~Sending'
                   PROVE  /\ Len(symbols') = symbols'[1].bits + HeaderItems'
                          /\ \A i \in 1 .. Len(symbols') : ~(i > symbols'[1].bits)
      OBVIOUS
    <3>2. Len(symbols') = pmi_payload_symbols /\ HeaderItems' = 0
      BY <1>6, <2>2, <3>1
    <3> QED BY <1>2, <2>3, <3>2
  <2>6. BeforePayload'
    BY <1>2, <1>9, <2>2, <2>3, <2>4, <2>5 DEF BeforePayload, hps_vars
  <2> QED BY <1>3, <2>6 DEF ItemsInOrder, hps_vars
<1> QED BY <1>3, <1>8, <1>9

(* A header without a payload is followed by another one. *)
LEMMA ItemsWhenDrops ==
  ASSUME TypeOK, MessageOfInsert, ItemsInOrder, NEW c \in Nat, InsertDrops(c),
         UNCHANGED <<hps_vars, coded>>
  PROVE  ItemsInOrder'
<1>1. /\ HeaderDone /\ coded = <<>> /\ ~hps_failed
      /\ symbols' = symbols /\ parsed_pmi' = <<>> /\ ~pmi_in_packet'
  BY DEF InsertDrops, ItemsInOrder, InPayload, BeforePayload, InHeader, MessageOfInsert
<1>2. /\ HeaderItems' = 0 /\ ~Sending' /\ HPS!HeaderStart' = 0
      /\ hps_position' = HeaderSize /\ HeaderSize \in Nat /\ Len(symbols') = 0
  BY <1>1, Sizes DEF HeaderItems, Sending, HPS!HeaderStart, HeaderDone, hps_vars
<1>3. InHeader'
  BY <1>1, <1>2 DEF InHeader, HeaderDone, hps_vars
<1> QED BY <1>1, <1>3 DEF ItemsInOrder, hps_vars

-----------------------------------------------------------------------------
(* A call of the insert block preserves the invariant.                     *)

(* A chain that is shortened without losing a detection has one exactly if *)
(* it had one.                                                             *)
LEMMA ChainMoves ==
  ASSUME TypeOK, TagOfFilter, NEW c \in Nat, Shortens(c)
  PROVE  /\ Len(chain') \in Nat /\ Len(chain') = Len(chain) - c
         /\ \A i \in 1 .. Len(chain') : i + c \in 1 .. Len(chain) /\ chain'[i] = chain[i + c]
         /\ NoTag => NoTag'
         /\ Untagged(c) /\ NoTag' => NoTag
         /\ c > 0 /\ chain[1] # 0 =>
              /\ NoTag' /\ chain[1] = sdf_id /\ Waits /\ sdf_position = Len(chain)
              /\ pmi_id # sdf_id /\ parsed_sdf = <<>> /\ ignored = <<>>
<1>1. /\ Len(chain) \in Nat /\ c <= Len(chain) /\ Len(chain') = Len(chain) - c
      /\ \A i \in 1 .. Len(chain) - c : chain'[i] = chain[i + c]
      /\ \A i \in 2 .. c : chain[i] = 0
      /\ sdf_position \in Nat
  BY Types DEF Shortens
<1>2. /\ Len(chain') \in Nat
      /\ \A i \in 1 .. Len(chain') : i + c \in 1 .. Len(chain) /\ chain'[i] = chain[i + c]
  BY <1>1
<1>3. NoTag => NoTag'
  BY <1>2 DEF NoTag
<1>4. ASSUME Untagged(c), NoTag', NEW i \in 1 .. Len(chain)
      PROVE  chain[i] = 0
  <2>1. CASE i > c
    <3>1. i - c \in 1 .. Len(chain') /\ (i - c) + c = i
      BY <1>1, <2>1
    <3> QED BY <1>2, <1>4, <3>1 DEF NoTag
  <2>2. CASE i <= c /\ i # 1
    BY <1>1, <2>2
  <2>3. CASE i <= c /\ i = 1
    BY <1>4, <2>3 DEF Untagged
  <2> QED BY <2>1, <2>2, <2>3
<1>5. ASSUME c > 0, chain[1] # 0
      PROVE  /\ NoTag' /\ chain[1] = sdf_id /\ Waits /\ sdf_position = Len(chain)
             /\ pmi_id # sdf_id /\ parsed_sdf = <<>> /\ ignored = <<>>
  <2>1. 1 \in 1 .. Len(chain)
    BY <1>1, <1>5
  <2>2. /\ chain[1] = sdf_id /\ Waits /\ sdf_position = Len(chain) - 1 + 1
        /\ pmi_id # sdf_id /\ parsed_sdf = <<>> /\ ignored = <<>>
    BY <1>5, <2>1 DEF TagOfFilter
  <2>3. sdf_position = Len(chain)
    BY <1>1, <2>2
  <2>4. ASSUME NEW i \in 1 .. Len(chain')
        PROVE  chain'[i] = 0
    <3>1. i + c \in 1 .. Len(chain) /\ chain'[i] = chain[i + c]
      BY <1>2
    <3>2. Len(chain) - (i + c) + 1 # Len(chain)
      BY <1>1, <1>5
    <3> QED BY <2>3, <3>1, <3>2 DEF TagOfFilter
  <2> QED BY <2>2, <2>3, <2>4 DEF NoTag
<1> QED BY <1>1, <1>2, <1>3, <1>4, <1>5 DEF NoTag

(* The detection that stays in the chain. *)
LEMMA TagKept ==
  ASSUME TypeOK, TagOfFilter, NEW c \in Nat, Shortens(c), ignored' = ignored,
         UNCHANGED <<sdf_vars, parsed_sdf, pmi_id>>
  PROVE  TagOfFilter'
<1>1. /\ Len(chain') \in Nat /\ Len(chain') = Len(chain) - c /\ Len(chain) \in Nat
      /\ \A i \in 1 .. Len(chain') : i + c \in 1 .. Len(chain) /\ chain'[i] = chain[i + c]
  BY ChainMoves, Types
<1>2. ASSUME NEW i \in 1 .. Len(chain'), chain'[i] # 0
      PROVE  /\ chain'[i] = sdf_id /\ Waits /\ sdf_position = Len(chain') - i + 1
             /\ pmi_id # sdf_id /\ parsed_sdf = <<>> /\ ignored = <<>>
  <2>1. Len(chain) - (i + c) + 1 = Len(chain') - i + 1
    BY <1>1
  <2> QED BY <1>1, <1>2, <2>1 DEF TagOfFilter
<1> QED BY <1>2 DEF TagOfFilter, Waits, sdf_vars

(* Outside a packet the insert block only drains the chain. *)
LEMMA InsertDiscardsInv ==
  ASSUME Inv, TypeOK', NEW c \in Nat, InsertDiscards(c),
         UNCHANGED <<sdf_vars, hps_vars, coded, parsed_sdf>>
  PROVE  Inv'
<1>1. /\ ~pmi_in_packet /\ Shortens(c) /\ Untagged(c)
      /\ UNCHANGED <<sdf_in_packet, sdf_position, sdf_block_until, sdf_id,
                     parsed_sdf, ignored, pmi_in_packet, pmi_position, pmi_id,
                     pmi_payload_symbols, symbols, coded, parsed_pmi>>
  BY DEF InsertDiscards, sdf_vars, pmi_vars
<1>2. NoTag <=> NoTag'
  BY <1>1, ChainMoves DEF Inv
<1>3. TagOfFilter'
  BY <1>1, TagKept DEF Inv
<1>4. IdsApart'
  BY <1>1, <1>2 DEF Inv, IdsApart, NextId
<1>5. /\ TagAfterPacket' /\ IgnoredBehind' /\ ClosedBehind' /\ SamePlace' /\ Undecoded'
  BY <1>1 DEF TagAfterPacket, IgnoredBehind, ClosedBehind, SamePlace, Undecoded
<1>6. CodedOfPacket' /\ MessageOfInsert' /\ MessageOfFilter'
  BY <1>1, <1>2 DEF Inv, CodedOfPacket, MessageOfInsert, MessageOfFilter, Waits
<1>7. EndAgreed' /\ PacketBounds'
  BY <1>1 DEF Inv, EndAgreed, PacketBounds, Sending, PacketEnd
<1>8. ItemsInOrder'
  BY <1>1, ItemsKept DEF Inv, InsertDiscards
<1> QED BY <1>3, <1>4, <1>5, <1>6, <1>7, <1>8 DEF Inv

(* The insert block opens the packet of the filter. *)
LEMMA InsertOpensInv ==
  ASSUME Inv, TypeOK', NEW c \in Nat, InsertOpens(c),
         UNCHANGED <<sdf_vars, hps_vars, coded, parsed_sdf>>
  PROVE  Inv'
<1>1. /\ ~pmi_in_packet /\ Shortens(c) /\ c > 0 /\ c <= HeaderEnd /\ chain[1] # 0
      /\ pmi_in_packet' /\ pmi_position' = c /\ pmi_id' = chain[1]
      /\ AddsItems(NewItems(0, c), 0)
      /\ UNCHANGED <<sdf_in_packet, sdf_position, sdf_block_until, sdf_id,
                     parsed_sdf, ignored, pmi_payload_symbols, coded, parsed_pmi>>
  BY DEF InsertOpens, sdf_vars
<1>2. /\ Len(chain') = Len(chain) - c
      /\ NoTag' /\ chain[1] = sdf_id /\ Waits /\ sdf_position = Len(chain)
      /\ pmi_id # sdf_id /\ parsed_sdf = <<>> /\ ignored = <<>>
  BY <1>1, ChainMoves DEF Inv
<1>3. coded = <<>> /\ parsed_pmi = <<>>
  BY <1>1 DEF Inv, CodedOfPacket, MessageOfInsert
<1>4. /\ sdf_id \in Ids /\ sdf_id # NextId /\ Len(chain) \in Nat
      /\ HeaderEnd \in Nat /\ PacketEnd \in Nat /\ PacketEnd > HeaderEnd /\ SyncwordSize \in Nat
  <2>1. TypeOK /\ PacketBounds
    BY DEF Inv
  <2>2. sdf_id \in Ids /\ Len(chain) \in Nat
    BY <2>1, Types
  <2>3. sdf_id # NextId
    BY <2>2, NextIds DEF NextId
  <2> QED BY <2>1, <2>2, <2>3, PayloadTypes, Sizes
<1>5. TagOfFilter' /\ TagAfterPacket'
  BY <1>2 DEF TagOfFilter, TagAfterPacket, NoTag
<1>6. IdsApart' /\ IgnoredBehind'
  BY <1>1, <1>2, <1>4 DEF IdsApart, IgnoredBehind, NextId
<1>7. ClosedBehind'
  BY <1>1, <1>2 DEF ClosedBehind, Waits
<1>8. SamePlace'
  <2>1. c + Len(chain') = sdf_position
    BY <1>2, <1>4
  <2> QED BY <1>1, <1>2, <2>1 DEF SamePlace, Waits
<1>9. Undecoded' /\ CodedOfPacket' /\ MessageOfInsert' /\ MessageOfFilter'
  BY <1>1, <1>2, <1>3 DEF Inv, Undecoded, CodedOfPacket, MessageOfInsert, MessageOfFilter, Waits
<1>10. EndAgreed' /\ PacketBounds'
  <2>1. ~(c > HeaderEnd) /\ c < PacketEnd
    BY <1>1, <1>4
  <2> QED BY <1>1, <2>1 DEF Inv, EndAgreed, PacketBounds, Sending, PacketEnd
<1>11. ItemsInOrder'
  <2>1. ~Sending /\ ~Sending' /\ HeaderItems = 0
    BY <1>1, <1>4 DEF Sending, HeaderItems
  <2>2. HeaderItems' = NewItems(0, c)
    BY <1>1, <1>4, Sizes DEF HeaderItems, NewItems
  <2>3. ~HeaderDone
    BY <1>3 DEF HeaderDone
  <2>4. NewItems(0, c) \in Nat /\ HeaderItems' = HeaderItems + NewItems(0, c)
    BY <1>1, <2>1, <2>2 DEF AddsItems
  <2> QED BY <1>1, <2>1, <2>3, <2>4, HeaderGrows DEF Inv
<1> QED BY <1>5, <1>6, <1>7, <1>8, <1>9, <1>10, <1>11 DEF Inv

(* The insert block copies syncword and header of its packet. *)
LEMMA InsertPreambleInv ==
  ASSUME Inv, TypeOK', NEW c \in Nat, InsertPreamble(c),
         UNCHANGED <<sdf_vars, hps_vars, coded, parsed_sdf>>
  PROVE  Inv'
<1>1. /\ pmi_in_packet /\ Shortens(c) /\ Untagged(c) /\ pmi_position + c <= HeaderEnd
      /\ pmi_in_packet' /\ pmi_position' = pmi_position + c
      /\ AddsItems(NewItems(pmi_position, c), 0)
      /\ UNCHANGED <<sdf_in_packet, sdf_position, sdf_block_until, sdf_id, parsed_sdf,
                     ignored, pmi_id, pmi_payload_symbols, coded, parsed_pmi>>
  BY DEF InsertPreamble, sdf_vars
<1>2. /\ Len(chain') = Len(chain) - c /\ Len(chain') \in Nat
      /\ NoTag <=> NoTag'
      /\ \A i \in 1 .. Len(chain') : i + c \in 1 .. Len(chain) /\ chain'[i] = chain[i + c]
  BY <1>1, ChainMoves DEF Inv
<1>3. /\ pmi_position \in Nat /\ Len(chain) \in Nat /\ sdf_position \in Nat
      /\ HeaderEnd \in Nat /\ PacketEnd \in Nat /\ PacketEnd > HeaderEnd /\ SyncwordSize \in Nat
      /\ pmi_position <= HeaderEnd /\ ~(pmi_position > HeaderEnd)
      /\ pmi_position = HeaderEnd => c = 0
      /\ pmi_position + c < PacketEnd /\ ~(pmi_position + c > HeaderEnd)
  <2>1. TypeOK /\ PacketBounds
    BY DEF Inv
  <2>2. /\ pmi_position \in Nat /\ Len(chain) \in Nat /\ sdf_position \in Nat
        /\ HeaderEnd \in Nat /\ PacketEnd \in Nat /\ PacketEnd > HeaderEnd
        /\ SyncwordSize \in Nat
    BY <2>1, Types, PayloadTypes, Sizes
  <2> QED BY <1>1, <2>2
<1>4. TagOfFilter'
  BY <1>1, TagKept DEF Inv
<1>5. IdsApart' /\ IgnoredBehind'
  BY <1>1, <1>2, <1>3 DEF Inv, IdsApart, IgnoredBehind, NextId
<1>6. TagAfterPacket'
  <2>1. ASSUME NEW i \in 1 .. Len(chain'), chain'[i] # 0
        PROVE  MessageWaits(i - 1)'
    <3>1. i + c \in 1 .. Len(chain) /\ chain[i + c] # 0
      BY <1>2, <2>1
    <3>2. MessageWaits((i + c) - 1) \/ PayloadEnds((i + c) - 1)
      BY <1>1, <3>1 DEF Inv, TagAfterPacket
    <3>3. MessageWaits((i + c) - 1) /\ c = 0
      BY <1>3, <3>2 DEF MessageWaits, PayloadEnds
    <3>4. MessageWaits(i - 1) /\ pmi_position' = pmi_position
      <4>1. (i + c) - 1 = i - 1 /\ pmi_position + c = pmi_position
        BY <1>3, <3>3
      <4> QED BY <1>1, <3>3, <4>1
    <3> QED BY <1>1, <3>4 DEF MessageWaits, NextId
  <2> QED BY <2>1 DEF TagAfterPacket
<1>7. ClosedBehind'
  BY <1>1 DEF Inv, ClosedBehind
<1>8. SamePlace'
  <2>1. pmi_position' + Len(chain') = pmi_position + Len(chain)
    BY <1>1, <1>2, <1>3
  <2> QED BY <1>1, <2>1 DEF Inv, SamePlace
<1>9. Undecoded'
  BY <1>1, <1>3 DEF Inv, Undecoded, Waits
<1>10. CodedOfPacket' /\ MessageOfInsert'
  <2>1. pmi_position = HeaderEnd => pmi_position' = HeaderEnd
    BY <1>1, <1>3
  <2> QED BY <1>1, <2>1 DEF Inv, CodedOfPacket, MessageOfInsert, Waits
<1>11. MessageOfFilter'
  BY <1>1, <1>2, <1>3 DEF Inv, MessageOfFilter, Waits
<1>12. EndAgreed' /\ PacketBounds'
  BY <1>1, <1>3 DEF Inv, EndAgreed, PacketBounds, Sending, PacketEnd
<1>13. ItemsInOrder'
  <2>1. ~Sending /\ ~Sending' /\ HeaderItems \in Nat
    BY <1>1, <1>3 DEF Sending, HeaderItems
  <2>2. HeaderItems' = HeaderItems + NewItems(pmi_position, c)
    BY <1>1, <1>3, Sizes DEF HeaderItems, NewItems
  <2>3. HeaderDone => NewItems(pmi_position, c) = 0
    <3>1. HeaderDone => pmi_position = HeaderEnd
      BY DEF HeaderDone, Inv, CodedOfPacket, MessageOfInsert
    <3>2. pmi_position = HeaderEnd => NewItems(pmi_position, c) = 0
      BY <1>3, Sizes DEF NewItems, HeaderEnd
    <3> QED BY <3>1, <3>2
  <2> QED BY <1>1, <2>1, <2>2, <2>3, HeaderGrows DEF Inv
<1> QED BY <1>4, <1>5, <1>6, <1>7, <1>8, <1>9, <1>10, <1>11, <1>12, <1>13 DEF Inv

(* The insert block drops a packet whose header was not decoded. *)
LEMMA InsertDropsInv ==
  ASSUME Inv, TypeOK', NEW c \in Nat, InsertDrops(c),
         UNCHANGED <<sdf_vars, hps_vars, coded, parsed_sdf>>
  PROVE  Inv'
<1>1. /\ Shortens(c) /\ Untagged(c) /\ ~pmi_in_packet'
      /\ parsed_pmi # <<>> /\ parsed_pmi' = <<>>
      /\ UNCHANGED <<sdf_in_packet, sdf_position, sdf_block_until, sdf_id, parsed_sdf,
                     ignored, pmi_position, pmi_id, pmi_payload_symbols, symbols, coded>>
  BY DEF InsertDrops, sdf_vars
<1>2. coded = <<>>
  BY <1>1 DEF Inv, MessageOfInsert
<1>3. NoTag <=> NoTag'
  BY <1>1, ChainMoves DEF Inv
<1>4. TagOfFilter'
  BY <1>1, TagKept DEF Inv
<1>5. IdsApart'
  BY <1>1, <1>3 DEF Inv, IdsApart, NextId
<1>6. TagAfterPacket' /\ IgnoredBehind' /\ ClosedBehind' /\ SamePlace' /\ Undecoded'
  BY <1>1 DEF TagAfterPacket, IgnoredBehind, ClosedBehind, SamePlace, Undecoded
<1>7. CodedOfPacket' /\ MessageOfInsert'
  <2>1. Len(coded') <= 1
    BY <1>1 DEF Inv, CodedOfPacket
  <2>2. Len(<<>>) <= 1
    OBVIOUS
  <2> QED BY <1>1, <1>2, <2>1, <2>2 DEF CodedOfPacket, MessageOfInsert
<1>8. MessageOfFilter'
  BY <1>1, <1>3 DEF Inv, MessageOfFilter, Waits
<1>9. EndAgreed' /\ PacketBounds'
  BY <1>1 DEF Inv, EndAgreed, PacketBounds, Sending
<1>10. ItemsInOrder'
  BY ItemsWhenDrops DEF Inv
<1> QED BY <1>4, <1>5, <1>6, <1>7, <1>8, <1>9, <1>10 DEF Inv

(* The insert block takes the message of its packet. *)
LEMMA InsertStartsInv ==
  ASSUME Inv, TypeOK', NEW c \in Nat, InsertStarts(c),
         UNCHANGED <<sdf_vars, hps_vars, coded, parsed_sdf>>
  PROVE  Inv'
<1> DEFINE meta == parsed_pmi[1].meta
<1>1. /\ Shortens(c) /\ Untagged(c)
      /\ parsed_pmi # <<>> /\ parsed_pmi' = <<>> /\ meta \in Lengths
      /\ pmi_payload_symbols' = PMI!PayloadSymbols(meta)
      /\ UNCHANGED <<sdf_in_packet, sdf_position, sdf_block_until, sdf_id, parsed_sdf,
                     ignored, pmi_id, coded>>
  BY DEF InsertStarts, sdf_vars
<1>2. PICK m \in Nat :
        /\ m > 0 /\ pmi_position' = HeaderEnd + m
        /\ pmi_in_packet' => m = c /\ m < pmi_payload_symbols'
  BY DEF InsertStarts
<1>3. /\ coded = <<>> /\ pmi_in_packet /\ pmi_position = HeaderEnd
      /\ pmi_id = sdf_id => \/ Waits /\ parsed_sdf = parsed_pmi
                            \/ /\ parsed_sdf = <<>>
                               /\ sdf_block_until = SDF!BlockUntil(meta)
  BY <1>1 DEF Inv, MessageOfInsert
<1>4. /\ Len(chain') = Len(chain) - c /\ Len(chain') \in Nat
      /\ NoTag <=> NoTag'
      /\ \A i \in 1 .. Len(chain') : i + c \in 1 .. Len(chain) /\ chain'[i] = chain[i + c]
  BY <1>1, ChainMoves DEF Inv
<1>5. /\ Len(chain) \in Nat /\ sdf_position \in Nat
      /\ HeaderEnd \in Nat /\ AllowedMargin \in Nat
      /\ SDF!BlockUntil(meta) = HeaderEnd + PMI!PayloadSymbols(meta) - AllowedMargin
      /\ PMI!PayloadSymbols(meta) \in Nat /\ PMI!PayloadSymbols(meta) \in Payloads
      /\ meta # 0
  <2>1. PMI!PayloadSymbols(meta) \in Payloads
    BY <1>1, PayloadSizes
  <2> QED BY <1>1, <2>1, Types, Sizes, MessageSizes, PayloadSizes DEF Inv
<1>6. /\ pmi_position' > HeaderEnd
      /\ PacketEnd' = HeaderEnd + PMI!PayloadSymbols(meta) /\ PacketEnd' \in Nat
      /\ pmi_in_packet' => pmi_position' < PacketEnd'
  <2>1. PacketEnd' = HeaderEnd + PMI!PayloadSymbols(meta)
    BY <1>1 DEF PacketEnd
  <2> HIDE DEF meta
  <2> QED BY <1>1, <1>2, <1>5, <2>1
<1> HIDE DEF meta
<1>7. TagOfFilter'
  BY <1>1, TagKept DEF Inv
<1>8. IdsApart' /\ IgnoredBehind'
  <2>1. ~(pmi_position > HeaderEnd)
    BY <1>3, <1>5
  <2> QED BY <1>1, <1>3, <1>4, <2>1 DEF Inv, IdsApart, IgnoredBehind, NextId
<1>9. TagAfterPacket'
  <2>1. ASSUME NEW i \in 1 .. Len(chain'), chain'[i] # 0, pmi_in_packet'
        PROVE  PayloadEnds(i - 1)'
    <3>1. i + c \in 1 .. Len(chain) /\ chain[i + c] # 0
      BY <1>4, <2>1
    <3>2. MessageWaits((i + c) - 1) \/ PayloadEnds((i + c) - 1)
      BY <1>3, <3>1 DEF Inv, TagAfterPacket
    <3>3. MessageWaits((i + c) - 1)
      BY <1>3, <1>5, <3>2 DEF PayloadEnds
    <3>4. /\ pmi_id # NextId /\ HeaderEnd + ((i + c) - 1) >= SDF!BlockUntil(meta)
      BY <1>5, <3>3 DEF MessageWaits, meta
    <3>5. pmi_position' + (i - 1) = HeaderEnd + ((i + c) - 1)
      BY <1>2, <1>5, <2>1
    <3>6. pmi_position' + (i - 1) >= PacketEnd' - AllowedMargin
      BY <1>5, <1>6, <3>4, <3>5
    <3> QED BY <1>1, <1>6, <3>4, <3>6 DEF PayloadEnds, NextId
  <2> QED BY <2>1 DEF TagAfterPacket
<1>10. ClosedBehind'
  BY <1>1, <1>3 DEF Inv, ClosedBehind
<1>11. SamePlace'
  <2>1. pmi_in_packet' => pmi_position' + Len(chain') = pmi_position + Len(chain)
    BY <1>2, <1>3, <1>4, <1>5
  <2> QED BY <1>1, <1>3, <2>1 DEF Inv, SamePlace
<1>12. Undecoded'
  <2>1. ~(pmi_position' <= HeaderEnd)
    BY <1>2, <1>5
  <2> QED BY <2>1 DEF Undecoded
<1>13. CodedOfPacket' /\ MessageOfInsert'
  <2>1. Len(coded') <= 1
    BY <1>1 DEF Inv, CodedOfPacket
  <2>2. Len(<<>>) <= 1
    OBVIOUS
  <2> QED BY <1>1, <1>3, <2>1, <2>2 DEF CodedOfPacket, MessageOfInsert
<1>14. MessageOfFilter'
  <2>1. parsed_sdf # <<>> => /\ parsed_sdf[1].meta = meta
    <3>1. parsed_sdf # <<>> => pmi_id = sdf_id
      BY DEF Inv, MessageOfFilter
    <3> QED BY <1>3, <3>1 DEF meta
  <2>2. parsed_sdf # <<>> => /\ parsed_sdf[1].meta # 0
                             /\ pmi_payload_symbols' = PMI!PayloadSymbols(parsed_sdf[1].meta)
    BY <1>1, <1>5, <2>1
  <2> QED BY <1>1, <1>3, <1>4, <1>6, <2>2 DEF Inv, MessageOfFilter, Waits
<1>15. EndAgreed'
  <2>1. ASSUME pmi_id = sdf_id, sdf_block_until # 0
        PROVE  sdf_block_until = PacketEnd' - AllowedMargin
    <3>1. sdf_block_until = SDF!BlockUntil(meta)
      BY <1>3, <2>1 DEF Waits
    <3> QED BY <1>5, <1>6, <3>1
  <2> QED BY <1>1, <2>1 DEF EndAgreed
<1>16. PacketBounds'
  BY <1>1, <1>5, <1>6 DEF PacketBounds
<1>17. ItemsInOrder'
  BY ItemsWhenStarts DEF Inv
<1> QED BY <1>7, <1>8, <1>9, <1>10, <1>11, <1>12, <1>13, <1>14, <1>15, <1>16, <1>17 DEF Inv

(* In its payload the insert block may take a detection, which it ignores. *)
LEMMA InsertCopiesInv ==
  ASSUME Inv, TypeOK', NEW c \in Nat, InsertCopies(c),
         UNCHANGED <<sdf_vars, hps_vars, coded, parsed_sdf>>
  PROVE  Inv'
<1>1. /\ Sending /\ Shortens(c) /\ c > 0
      /\ \/ UNCHANGED ignored
         \/ chain[1] # 0 /\ ignored' = Append(ignored, chain[1])
      /\ UNCHANGED <<sdf_in_packet, sdf_position, sdf_block_until, sdf_id, parsed_sdf,
                     pmi_id, pmi_payload_symbols, parsed_pmi, coded>>
  BY DEF InsertCopies, sdf_vars
<1>2. PICK m \in Nat :
        /\ m > 0 /\ pmi_position' = pmi_position + m
        /\ pmi_in_packet' => m = c /\ pmi_position' < PacketEnd
  BY DEF InsertCopies
<1>3. /\ pmi_in_packet /\ pmi_position > HeaderEnd /\ pmi_position < PacketEnd
      /\ pmi_position \in Nat /\ HeaderEnd \in Nat /\ PacketEnd \in Nat
      /\ Len(chain) \in Nat /\ sdf_position \in Nat /\ AllowedMargin \in Nat
      /\ PacketEnd' = PacketEnd /\ pmi_position' \in Nat
      /\ pmi_position' > HeaderEnd /\ ~(pmi_position' <= HeaderEnd)
  <2>1. PacketEnd' = PacketEnd
    BY <1>1 DEF PacketEnd
  <2>2. /\ pmi_in_packet /\ pmi_position > HeaderEnd /\ pmi_position < PacketEnd
        /\ pmi_position \in Nat /\ HeaderEnd \in Nat /\ PacketEnd \in Nat
        /\ Len(chain) \in Nat /\ sdf_position \in Nat /\ AllowedMargin \in Nat
    BY <1>1, Types, PayloadTypes, Sizes DEF Inv, Sending, PacketBounds
  <2>3. \A p, h, k \in Nat : p > h => p + k \in Nat /\ p + k > h /\ ~(p + k <= h)
    OBVIOUS
  <2> QED BY <1>2, <2>1, <2>2, <2>3
<1>4. parsed_pmi = <<>> /\ coded = <<>>
  BY <1>3 DEF Inv, MessageOfInsert, CodedOfPacket
<1>5. /\ Len(chain') = Len(chain) - c /\ Len(chain') \in Nat
      /\ NoTag => NoTag'
      /\ chain[1] = 0 /\ NoTag' => NoTag
      /\ \A i \in 1 .. Len(chain') : i + c \in 1 .. Len(chain) /\ chain'[i] = chain[i + c]
  BY <1>1, ChainMoves DEF Inv, Untagged
(* A detection that it takes is that of the filter's packet, and is in the *)
(* margin at the end of its own.                                           *)
<1>6. ASSUME chain[1] # 0
      PROVE  /\ NoTag' /\ chain[1] = sdf_id /\ Waits /\ sdf_position = Len(chain)
             /\ pmi_id # sdf_id /\ parsed_sdf = <<>> /\ ignored = <<>>
             /\ pmi_position >= PacketEnd - AllowedMargin /\ pmi_id # NextId
  <2>1. /\ NoTag' /\ chain[1] = sdf_id /\ Waits /\ sdf_position = Len(chain)
        /\ pmi_id # sdf_id /\ parsed_sdf = <<>> /\ ignored = <<>>
    BY <1>1, <1>6, ChainMoves DEF Inv
  <2>2. MessageWaits(1 - 1) \/ PayloadEnds(1 - 1)
    <3>1. 1 \in 1 .. Len(chain)
      BY <1>1, <1>3 DEF Shortens
    <3> QED BY <1>3, <1>6, <3>1 DEF Inv, TagAfterPacket
  <2>3. PayloadEnds(0)
    BY <1>3, <2>2 DEF MessageWaits
  <2>4. pmi_position >= PacketEnd - AllowedMargin /\ pmi_id # NextId
    BY <1>3, <2>3 DEF PayloadEnds
  <2> QED BY <2>1, <2>4
<1>7. TagOfFilter'
  <2>1. CASE chain[1] # 0
    BY <1>6, <2>1 DEF NoTag, TagOfFilter
  <2>2. CASE chain[1] = 0
    BY <1>1, <2>2, TagKept DEF Inv
  <2> QED BY <2>1, <2>2
<1>8. IdsApart'
  BY <1>1, <1>5, <1>6 DEF Inv, IdsApart, NextId
<1>9. TagAfterPacket'
  <2>1. ASSUME NEW i \in 1 .. Len(chain'), chain'[i] # 0, pmi_in_packet'
        PROVE  PayloadEnds(i - 1)'
    <3>1. i + c \in 1 .. Len(chain) /\ chain[i + c] # 0
      BY <1>5, <2>1
    <3>2. MessageWaits((i + c) - 1) \/ PayloadEnds((i + c) - 1)
      BY <1>3, <3>1 DEF Inv, TagAfterPacket
    <3>3. PayloadEnds((i + c) - 1)
      BY <1>3, <3>2 DEF MessageWaits
    <3>4. pmi_position' + (i - 1) = pmi_position + ((i + c) - 1)
      BY <1>2, <1>3, <2>1
    <3> QED BY <1>1, <1>3, <3>3, <3>4 DEF PayloadEnds, NextId
  <2> QED BY <2>1 DEF TagAfterPacket
<1>10. pmi_in_packet' => pmi_position' + Len(chain') = pmi_position + Len(chain)
  BY <1>2, <1>3, <1>5
<1>11. IgnoredBehind'
  <2>1. ASSUME NoTag', pmi_in_packet', pmi_id # sdf_id
        PROVE  pmi_position' + Len(chain') >= PacketEnd - AllowedMargin + sdf_position
    <3>1. CASE chain[1] # 0
      <4>1. pmi_position + Len(chain) >= PacketEnd - AllowedMargin + sdf_position
        BY <1>3, <1>6, <3>1
      <4> QED BY <1>10, <2>1, <4>1
    <3>2. CASE chain[1] = 0
      <4>1. pmi_position + Len(chain) >= PacketEnd - AllowedMargin + sdf_position
        BY <1>3, <1>5, <2>1, <3>2 DEF Inv, IgnoredBehind
      <4> QED BY <1>10, <2>1, <4>1
    <3> QED BY <3>1, <3>2
  <2> QED BY <1>1, <1>3, <2>1 DEF IgnoredBehind
<1>12. ClosedBehind' /\ SamePlace' /\ Undecoded'
  BY <1>1, <1>3, <1>10 DEF Inv, ClosedBehind, SamePlace, Undecoded
<1>13. CodedOfPacket' /\ MessageOfInsert'
  BY <1>1, <1>4 DEF Inv, CodedOfPacket, MessageOfInsert
<1>14. MessageOfFilter'
  <2>1. CASE chain[1] # 0 /\ ignored' = Append(ignored, chain[1])
    <3>1. ignored' # <<>> /\ Len(ignored') <= 1 /\ ignored'[1] = sdf_id
      <4>1. sdf_id \in Ids /\ ignored' = Append(<<>>, sdf_id)
        BY <1>6, <2>1, Types DEF Inv
      <4> QED BY <4>1, OneMessage
    <3> QED BY <1>1, <1>6, <2>1, <3>1 DEF Inv, MessageOfFilter, Waits
  <2>2. CASE UNCHANGED ignored
    BY <1>1, <1>3, <1>5, <2>2 DEF Inv, MessageOfFilter, Waits
  <2> QED BY <1>1, <2>1, <2>2
<1>15. EndAgreed' /\ PacketBounds'
  BY <1>1, <1>2, <1>3 DEF Inv, EndAgreed, PacketBounds, Sending
<1>16. ItemsInOrder'
  BY ItemsWhenCopies DEF Inv
<1> QED BY <1>7, <1>8, <1>9, <1>11, <1>12, <1>13, <1>14, <1>15, <1>16 DEF Inv

(* Every call of the insert block preserves the invariant. *)
LEMMA InsertInv ==
  ASSUME Inv, NEW n \in 1 .. MaxChunk, Insert(n)
  PROVE  Inv'
<1>1. PICK c \in Nat : TypeOK' /\ InsertDoes(c)
  BY InsertEffect DEF Inv
<1>2. UNCHANGED <<sdf_vars, hps_vars, coded, parsed_sdf>>
  BY DEF Insert
<1> QED BY <1>1, <1>2, InsertDiscardsInv, InsertOpensInv, InsertPreambleInv,
           InsertDropsInv, InsertStartsInv, InsertCopiesInv DEF InsertDoes

-----------------------------------------------------------------------------
(* A call of the splitter preserves the invariant: it never throws.        *)

(* The first c items are gone. *)
Splits(c) ==
  /\ c \in Nat /\ c > 0 /\ c <= Len(symbols) /\ Len(symbols') = Len(symbols) - c
  /\ \A i \in 1 .. Len(symbols') : i + c \in 1 .. Len(symbols) /\ symbols'[i] = symbols[i + c]

(* What a call of the splitter leaves in its link. *)
LEMMA SymbolsShorten ==
  ASSUME TypeOK, NEW c \in Nat, c > 0, c <= Len(symbols), symbols' = From(symbols, c)
  PROVE  Splits(c) /\ symbols' \in Seq(Item) /\ Len(symbols') <= LinkCapacity
<1>1. symbols \in Seq(Item) /\ Len(symbols) \in Nat /\ c \in 0 .. Len(symbols)
  BY Types DEF TypeOK, Item
<1>2. /\ symbols' \in Seq(Item) /\ Len(symbols') = Len(symbols) - c
      /\ \A i \in 1 .. Len(symbols) - c : symbols'[i] = symbols[i + c]
  BY <1>1, FromProperties
<1>3. \A i \in 1 .. Len(symbols') : i + c \in 1 .. Len(symbols)
  BY <1>1, <1>2
<1>4. Len(symbols') <= LinkCapacity
  BY <1>1, <1>2, Sizes DEF TypeOK
<1> QED BY <1>2, <1>3, <1>4 DEF Splits

(* The splitter takes a part of a header, and hands over the last one. *)
LEMMA SplitHeader ==
  ASSUME Inv, NEW n \in Nat, n > 0, n <= Len(symbols), NEW c \in Nat,
         HPS!Header(n, symbols[1].bits, c), symbols' = From(symbols, c),
         coded' = IF ~hps_in_payload' /\ symbols[1].bits = 0 /\ ~hps_in_payload
                       /\ hps_position' = HeaderSize
                    THEN Append(coded, symbols[1].id) ELSE coded,
         UNCHANGED <<pmi_vars, parsed_pmi>>
  PROVE  /\ c > 0 /\ c <= Len(symbols) /\ hps_position' \in Nat
         /\ UNCHANGED <<hps_in_payload, hps_payload_items, hps_failed>>
         /\ \/ coded' = coded
            \/ /\ coded = <<>> /\ coded' = Append(<<>>, pmi_id)
               /\ pmi_in_packet /\ pmi_position = HeaderEnd /\ parsed_pmi = <<>>
         /\ ItemsInOrder'
<1>1. /\ symbols[1].bits = 0 /\ ~hps_in_payload
      /\ c = HPS!Lesser(n, HeaderSize - HPS!HeaderStart)
      /\ hps_position' = HPS!HeaderStart + c
      /\ UNCHANGED <<hps_in_payload, hps_payload_items, hps_failed>>
  BY DEF HPS!Header
<1>2. Len(symbols) \in Nat /\ Len(symbols) > 0 /\ 1 \in 1 .. Len(symbols)
  BY Types DEF Inv
<1>3. InHeader /\ ~hps_failed
  BY <1>1, <1>2 DEF Inv, ItemsInOrder, InPayload, BeforePayload, HeaderDone
<1> DEFINE start == HPS!HeaderStart
<1>4. /\ start \in Nat /\ start < HeaderSize /\ HeaderSize \in Nat
      /\ pmi_position \in Nat /\ SyncwordSize \in Nat /\ HeaderEnd = SyncwordSize + HeaderSize
  BY <1>3, Types, Sizes DEF Inv, InHeader, HPS!HeaderStart, HeaderEnd
<1>5. /\ start + Len(symbols) = HeaderItems
      /\ ~Sending /\ coded = <<>> /\ parsed_pmi = <<>>
      /\ \A i \in 1 .. Len(symbols) : symbols[i].bits = 0 /\ symbols[i].id = pmi_id
  BY <1>3 DEF InHeader
<1>6. HeaderItems > 0 /\ pmi_in_packet /\ HeaderItems = pmi_position - SyncwordSize
      /\ pmi_position <= HeaderEnd
  BY <1>2, <1>4, <1>5 DEF HeaderItems
<1> HIDE DEF start
<1>7. /\ c > 0 /\ c <= n /\ c <= Len(symbols) /\ hps_position' = start + c
      /\ start + c <= HeaderSize
  <2>1. c = IF n <= HeaderSize - start THEN n ELSE HeaderSize - start
    BY <1>1 DEF HPS!Lesser, start
  <2> QED BY <1>1, <1>2, <1>4, <2>1 DEF start
<1>8. Splits(c)
  BY <1>7, SymbolsShorten DEF Inv
<1>9. /\ HeaderItems' = HeaderItems /\ ~Sending' /\ parsed_pmi' = <<>>
      /\ ~hps_in_payload' /\ ~hps_failed' /\ pmi_id' = pmi_id
  BY <1>1, <1>3, <1>5 DEF HeaderItems, Sending, pmi_vars
<1>10. CASE start + c = HeaderSize
  <2>1. coded' = Append(<<>>, pmi_id)
    BY <1>1, <1>2, <1>5, <1>7, <1>10
  <2>2. pmi_position = HeaderEnd /\ Len(symbols) = c
    BY <1>2, <1>4, <1>5, <1>6, <1>7, <1>10
  <2>3. symbols' = <<>>
    <3>1. symbols' \in Seq(Item) /\ Len(symbols') = Len(symbols) - c
      BY <1>7, <1>8, SymbolsShorten DEF Inv, Splits
    <3>2. ~(Len(symbols') \in Nat \ {0})
      BY <1>2, <2>2, <3>1
    <3> QED BY <3>1, <3>2, EmptySeq
  <2>4. coded' # <<>>
    <3>1. pmi_id \in Ids
      BY Types DEF Inv
    <3> QED BY <2>1, <3>1, OneMessage
  <2>5. HeaderDone'
    BY <1>7, <1>9, <1>10, <2>3, <2>4 DEF HeaderDone
  <2> QED BY <1>1, <1>5, <1>6, <1>7, <1>9, <2>1, <2>2, <2>5, <1>4 DEF ItemsInOrder
<1>11. CASE start + c # HeaderSize
  <2>1. coded' = coded
    BY <1>1, <1>7, <1>11
  <2>2. HPS!HeaderStart' = start + c
    BY <1>7, <1>11 DEF HPS!HeaderStart
  <2>3. HPS!HeaderStart' + Len(symbols') = HeaderItems'
    BY <1>2, <1>4, <1>5, <1>7, <1>8, <1>9, <2>2 DEF Splits
  <2>4. \A i \in 1 .. Len(symbols') : symbols'[i].bits = 0 /\ symbols'[i].id = pmi_id
    BY <1>5, <1>8 DEF Splits
  <2>5. hps_position' <= HeaderSize
    BY <1>7
  <2>6. InHeader'
    BY <1>5, <1>9, <2>1, <2>3, <2>4, <2>5 DEF InHeader
  <2> QED BY <1>1, <1>4, <1>7, <1>9, <2>1, <2>6 DEF ItemsInOrder
<1> QED BY <1>10, <1>11

(* The splitter takes a part of a payload. *)
LEMMA SplitPayload ==
  ASSUME Inv, NEW n \in Nat, n > 0, n <= Len(symbols), NEW c \in Nat,
         HPS!Payload(n, symbols[1].bits, c), symbols' = From(symbols, c),
         coded' = IF ~hps_in_payload' /\ symbols[1].bits = 0 /\ ~hps_in_payload
                       /\ hps_position' = HeaderSize
                    THEN Append(coded, symbols[1].id) ELSE coded,
         UNCHANGED <<pmi_vars, parsed_pmi>>
  PROVE  /\ c > 0 /\ c <= Len(symbols)
         /\ hps_position' \in Nat /\ hps_in_payload' \in BOOLEAN
         /\ hps_payload_items' \in Payloads /\ UNCHANGED <<hps_failed, coded>>
         /\ ItemsInOrder'
<1>1. /\ Len(symbols) \in Nat /\ Len(symbols) > 0 /\ 1 \in 1 .. Len(symbols)
      /\ pmi_position \in Nat /\ HeaderEnd \in Nat /\ pmi_payload_symbols \in Nat
      /\ PacketEnd = HeaderEnd + pmi_payload_symbols /\ hps_position \in Nat
      /\ HeaderSize \in Nat /\ HeaderSize > 0 /\ SyncwordSize \in Nat
      /\ symbols[1].bits \in {0} \cup Payloads
  <2>1. 1 \in 1 .. Len(symbols) /\ Len(symbols) \in Nat
    BY Types DEF Inv
  <2>2. symbols[1] \in [bits : {0} \cup Payloads, id : Ids]
    BY <2>1, ElementOfSeq DEF Inv, TypeOK
  <2>3. symbols[1].bits \in {0} \cup Payloads
    BY <2>2
  <2>4. /\ pmi_position \in Nat /\ HeaderEnd \in Nat /\ pmi_payload_symbols \in Nat
        /\ PacketEnd = HeaderEnd + pmi_payload_symbols /\ hps_position \in Nat
    BY Types, PayloadTypes, Sizes DEF Inv, PacketEnd, TypeOK, PacketBounds
  <2>5. HeaderSize \in Nat /\ HeaderSize > 0 /\ SyncwordSize \in Nat
    BY Sizes
  <2>6. Len(symbols) > 0
    BY <2>1
  <2> QED BY <2>1, <2>3, <2>4, <2>5, <2>6
<1>2. /\ coded' = coded /\ ~hps_failed /\ UNCHANGED hps_failed
      /\ UNCHANGED <<pmi_in_packet, pmi_position, pmi_payload_symbols, pmi_id, parsed_pmi>>
  BY DEF HPS!Payload, HPS!CopyItems, Inv, ItemsInOrder, pmi_vars
(* The payload, from its item start on, of which the chunk has at least    *)
(* one: from the tag on, or from where the last chunk ended.               *)
<1>3. PICK start \in Nat, items \in Nat :
        /\ HPS!CopyItems(start, items, n, c)
        /\ start < items /\ items \in Payloads
        /\ coded = <<>> /\ parsed_pmi = <<>>
        /\ \A i \in 2 .. Len(symbols) : symbols[i].bits = 0
        /\ Sending => items = pmi_payload_symbols /\ start + Len(symbols) = pmi_position - HeaderEnd
        /\ ~Sending => /\ start + Len(symbols) = items + HeaderItems
                       /\ \A i \in 1 .. Len(symbols) :
                            start + i > items => symbols[i].id = pmi_id
  <2>1. CASE symbols[1].bits # 0
    <3>1. HPS!CopyItems(0, symbols[1].bits, n, c)
      BY <2>1 DEF HPS!Payload
    <3>2. BeforePayload
      BY <1>1, <2>1 DEF Inv, ItemsInOrder, InPayload, InHeader, HeaderDone
    <3>3. symbols[1].bits \in Payloads /\ symbols[1].bits \in Nat /\ symbols[1].bits > 0
      BY <1>1, <2>1, PayloadSizes
    <3>4. /\ \A i \in 2 .. Len(symbols) : symbols[i].bits = 0
          /\ 0 + Len(symbols) = Len(symbols)
          /\ \A i \in 1 .. Len(symbols) : 0 + i = i
      BY <1>1, <3>2 DEF BeforePayload
    <3>5. /\ coded = <<>> /\ parsed_pmi = <<>>
          /\ Sending => /\ symbols[1].bits = pmi_payload_symbols
                        /\ 0 + Len(symbols) = pmi_position - HeaderEnd
          /\ ~Sending => /\ 0 + Len(symbols) = symbols[1].bits + HeaderItems
                         /\ \A i \in 1 .. Len(symbols) :
                              0 + i > symbols[1].bits => symbols[i].id = pmi_id
      BY <3>2, <3>4 DEF BeforePayload
    <3> QED BY <3>1, <3>3, <3>4, <3>5
  <2>2. CASE symbols[1].bits = 0
    <3>1. HPS!CopyItems(hps_position, hps_payload_items, n, c) /\ hps_in_payload
      BY <2>2 DEF HPS!Payload
    <3>2. InPayload
      BY <3>1 DEF Inv, ItemsInOrder, BeforePayload, InHeader, HeaderDone
    <3>3. hps_payload_items \in Nat /\ hps_payload_items \in Payloads
      <4>1. hps_payload_items \in {0} \cup Payloads /\ hps_position < hps_payload_items
        BY <3>2 DEF Inv, TypeOK, InPayload
      <4> QED BY <1>1, <4>1, PayloadSizes
    <3> QED BY <1>1, <3>1, <3>2, <3>3 DEF InPayload
  <2> QED BY <2>1, <2>2
<1>4. /\ c = HPS!Lesser(n, items - start)
      /\ hps_in_payload' = (start + c < items)
      /\ hps_position' = IF start + c < items THEN start + c ELSE 0
      /\ hps_payload_items' = items
  BY <1>3 DEF HPS!CopyItems
<1>5. /\ c > 0 /\ c <= n /\ c <= Len(symbols) /\ start + c <= items
  <2>1. items - start \in Nat /\ items - start > 0 /\ start + (items - start) = items
    BY <1>3
  <2>2. c > 0 /\ c <= n /\ c <= items - start
    BY <1>4, <2>1 DEF HPS!Lesser
  <2> QED BY <1>1, <2>1, <2>2
<1>6. hps_in_payload' \in BOOLEAN /\ (hps_in_payload' <=> start + c < items)
  <2>1. (start + c < items) \in BOOLEAN
    OBVIOUS
  <2> QED BY <1>4, <2>1, Zenon
<1>7. Splits(c)
  BY <1>5, SymbolsShorten DEF Inv
<1>8. HeaderItems' = HeaderItems /\ Sending' = Sending /\ parsed_pmi' = <<>> /\ coded' = <<>>
  BY <1>2, <1>3 DEF HeaderItems, Sending
<1>9. \A i \in 1 .. Len(symbols') : symbols'[i].bits = 0
  <2>1. SUFFICES ASSUME NEW i \in 1 .. Len(symbols') PROVE symbols'[i].bits = 0
    OBVIOUS
  <2>2. /\ Len(symbols') \in Nat /\ Len(symbols') = Len(symbols) - c
        /\ symbols'[i] = symbols[i + c]
    BY <1>7, <2>1 DEF Splits
  <2>3. i + c \in 2 .. Len(symbols)
    BY <1>1, <1>5, <2>1, <2>2
  <2> QED BY <1>3, <2>2, <2>3
<1>10. ~Sending => HeaderItems \in Nat
  BY <1>1 DEF HeaderItems
<1>11. CASE start + c < items
  <2>1. hps_in_payload' /\ hps_position' = start + c /\ hps_payload_items' = items
    BY <1>4, <1>6, <1>11
  <2>2. hps_position' + Len(symbols') = start + Len(symbols)
    BY <1>1, <1>7, <2>1 DEF Splits
  <2>3. ASSUME ~Sending, NEW i \in 1 .. Len(symbols'), hps_position' + i > items
        PROVE  symbols'[i].id = pmi_id
    <3>1. /\ i + c \in 1 .. Len(symbols) /\ symbols'[i] = symbols[i + c]
          /\ start + (i + c) > items
      BY <1>1, <1>7, <2>1, <2>3 DEF Splits
    <3> QED BY <1>3, <2>3, <3>1
  <2>4. InPayload'
    BY <1>2, <1>3, <1>8, <1>9, <1>11, <2>1, <2>2, <2>3 DEF InPayload
  <2> QED BY <1>2, <1>3, <1>4, <1>5, <1>6, <2>1, <2>4 DEF ItemsInOrder
<1>12. CASE start + c = items
  <2>1. ~hps_in_payload' /\ hps_position' = 0
    BY <1>3, <1>4, <1>6, <1>12
  <2>2. ~Sending
    <3>1. SUFFICES ASSUME Sending PROVE FALSE
      OBVIOUS
    <3>2. pmi_position < PacketEnd
      BY <3>1 DEF Inv, PacketBounds, Sending
    <3> QED BY <1>1, <1>3, <1>5, <1>12, <3>1, <3>2
  <2>3. HPS!HeaderStart' = 0
    BY <1>1, <2>1 DEF HPS!HeaderStart
  <2>4. Len(symbols') = HeaderItems
    BY <1>1, <1>3, <1>7, <1>10, <1>12, <2>2 DEF Splits
  <2>5. ASSUME NEW i \in 1 .. Len(symbols')
        PROVE  symbols'[i].id = pmi_id
    <3>1. i + c \in 1 .. Len(symbols) /\ symbols'[i] = symbols[i + c]
      BY <1>7, <2>5 DEF Splits
    <3>2. start + (i + c) > items
      BY <1>12, <3>1
    <3> QED BY <1>3, <2>2, <3>1, <3>2
  <2>6. 0 + Len(symbols') = HeaderItems /\ 0 <= HeaderSize
    BY <1>1, <1>10, <2>2, <2>4
  <2>7. InHeader'
    BY <1>2, <1>8, <1>9, <2>1, <2>2, <2>3, <2>5, <2>6 DEF InHeader
  <2> QED BY <1>2, <1>3, <1>4, <1>5, <1>6, <2>1, <2>7 DEF ItemsInOrder
<1> QED BY <1>3, <1>5, <1>11, <1>12

(* Every call of the splitter preserves the invariant, and none throws. *)
LEMMA SplitInv ==
  ASSUME Inv, NEW n \in 1 .. MaxChunk, Split(n)
  PROVE  Inv'
<1>1. /\ n \in Nat /\ n > 0 /\ n <= Len(symbols) /\ Len(coded) < QueueCapacity
      /\ UNCHANGED <<quiet, sdf_vars, chain, pmi_vars, parsed_sdf, parsed_pmi, ignored>>
  BY Sizes DEF Split
<1>2. PICK c \in 0 .. n :
        /\ HPS!ProcessBulk(n, symbols[1].bits, c)
        /\ coded' = IF ~hps_in_payload' /\ symbols[1].bits = 0 /\ ~hps_in_payload
                         /\ hps_position' = HeaderSize
                      THEN Append(coded, symbols[1].id) ELSE coded
        /\ symbols' = From(symbols, c)
  BY DEF Split
<1>3. c \in Nat
  BY <1>1, <1>2
<1>4. ~HPS!Throw(symbols[1].bits, c)
  <2>1. 1 \in 1 .. Len(symbols)
    BY <1>1, Types DEF Inv
  <2>2. symbols[1].bits # 0 => BeforePayload
    BY <2>1 DEF Inv, ItemsInOrder, InPayload, InHeader, HeaderDone
  <2> QED BY <2>2 DEF HPS!Throw, HPS!Unexpected, BeforePayload
<1>5. /\ c > 0 /\ c <= Len(symbols) /\ hps_position' \in Nat /\ hps_in_payload' \in BOOLEAN
      /\ hps_payload_items' \in {0} \cup Payloads /\ hps_failed' \in BOOLEAN
      /\ \/ coded' = coded
         \/ /\ coded = <<>> /\ coded' = Append(<<>>, pmi_id)
            /\ pmi_in_packet /\ pmi_position = HeaderEnd /\ parsed_pmi = <<>>
      /\ ItemsInOrder'
  <2>1. CASE HPS!Header(n, symbols[1].bits, c)
    <3>1. /\ c > 0 /\ c <= Len(symbols) /\ hps_position' \in Nat
          /\ UNCHANGED <<hps_in_payload, hps_payload_items, hps_failed>>
          /\ \/ coded' = coded
             \/ /\ coded = <<>> /\ coded' = Append(<<>>, pmi_id)
                /\ pmi_in_packet /\ pmi_position = HeaderEnd /\ parsed_pmi = <<>>
          /\ ItemsInOrder'
      BY <1>1, <1>2, <1>3, <2>1, SplitHeader
    <3>2. /\ hps_in_payload \in BOOLEAN /\ hps_failed \in BOOLEAN
          /\ hps_payload_items \in {0} \cup Payloads
      BY DEF Inv, TypeOK
    <3> QED BY <3>1, <3>2
  <2>2. CASE HPS!Payload(n, symbols[1].bits, c)
    <3>1. /\ c > 0 /\ c <= Len(symbols)
          /\ hps_position' \in Nat /\ hps_in_payload' \in BOOLEAN
          /\ hps_payload_items' \in Payloads /\ UNCHANGED <<hps_failed, coded>>
          /\ ItemsInOrder'
      BY <1>1, <1>2, <1>3, <2>2, SplitPayload
    <3>2. hps_failed \in BOOLEAN
      BY DEF Inv, TypeOK
    <3> QED BY <3>1, <3>2
  <2> QED BY <1>2, <1>4, <2>1, <2>2 DEF HPS!ProcessBulk
<1>6. symbols' \in Seq(Item) /\ Len(symbols') <= LinkCapacity
  BY <1>2, <1>3, <1>5, SymbolsShorten DEF Inv
<1>7. CASE coded' = coded
  <2>1. TypeOK'
    BY <1>1, <1>5, <1>6, <1>7 DEF Inv, TypeOK, SDF!TypeOK, sdf_vars, pmi_vars, Item
  <2>2. UNCHANGED <<sdf_in_packet, sdf_position, sdf_block_until, sdf_id, chain,
                    pmi_in_packet, pmi_position, pmi_payload_symbols, pmi_id,
                    coded, parsed_sdf, parsed_pmi, ignored>>
    BY <1>1, <1>7 DEF sdf_vars, pmi_vars
  <2>3. TagOfFilter' /\ IdsApart' /\ IgnoredBehind' /\ ClosedBehind' /\ SamePlace'
    BY <2>2 DEF Inv, TagOfFilter, IdsApart, IgnoredBehind, ClosedBehind, SamePlace,
                Waits, NoTag, NextId, PacketEnd
  <2>4. TagAfterPacket'
    BY <2>2 DEF Inv, TagAfterPacket, MessageWaits, PayloadEnds, NextId, PacketEnd
  <2>5. Undecoded' /\ CodedOfPacket' /\ MessageOfInsert' /\ MessageOfFilter'
    BY <2>2 DEF Inv, Undecoded, CodedOfPacket, MessageOfInsert, MessageOfFilter, Waits, NoTag
  <2>6. EndAgreed' /\ PacketBounds'
    BY <2>2 DEF Inv, EndAgreed, PacketBounds, Sending, PacketEnd
  <2> QED BY <1>5, <2>1, <2>3, <2>4, <2>5, <2>6 DEF Inv
<1>8. CASE /\ coded = <<>> /\ coded' = Append(<<>>, pmi_id)
           /\ pmi_in_packet /\ pmi_position = HeaderEnd /\ parsed_pmi = <<>>
  <2>1. /\ coded' \in Seq(Ids) /\ coded' # <<>> /\ coded'[1] = pmi_id
        /\ Len(coded') <= 1 /\ Len(coded') <= QueueCapacity
    <3>1. pmi_id \in Ids
      BY Types DEF Inv
    <3> QED BY <1>8, <3>1, OneMessage, Sizes
  <2>2. UNCHANGED <<sdf_in_packet, sdf_position, sdf_block_until, sdf_id, chain,
                    pmi_in_packet, pmi_position, pmi_payload_symbols, pmi_id,
                    parsed_sdf, parsed_pmi, ignored>>
    BY <1>1 DEF sdf_vars, pmi_vars
  <2>3. pmi_id = sdf_id /\ Waits /\ parsed_sdf = <<>> /\ ignored = <<>>
    BY <1>8, Sizes DEF Inv, Undecoded
  <2>4. TypeOK'
    BY <1>1, <1>5, <1>6, <2>1 DEF Inv, TypeOK, SDF!TypeOK, sdf_vars, pmi_vars, Item
  <2>5. TagOfFilter' /\ IdsApart' /\ IgnoredBehind' /\ ClosedBehind' /\ SamePlace'
    BY <2>2 DEF Inv, TagOfFilter, IdsApart, IgnoredBehind, ClosedBehind, SamePlace,
                Waits, NoTag, NextId, PacketEnd
  <2>6. TagAfterPacket'
    BY <2>2 DEF Inv, TagAfterPacket, MessageWaits, PayloadEnds, NextId, PacketEnd
  <2>7. Undecoded' /\ CodedOfPacket' /\ MessageOfInsert' /\ MessageOfFilter'
    BY <1>8, <2>1, <2>2, <2>3
       DEF Inv, Undecoded, CodedOfPacket, MessageOfInsert, MessageOfFilter, Waits
  <2>8. EndAgreed' /\ PacketBounds'
    BY <2>2 DEF Inv, EndAgreed, PacketBounds, Sending, PacketEnd
  <2> QED BY <1>5, <2>4, <2>5, <2>6, <2>7, <2>8 DEF Inv
<1> QED BY <1>5, <1>7, <1>8

(* A decoded header preserves the invariant.                               *)
LEMMA DecodeInv ==
  ASSUME Inv, NEW meta \in SDF!Metas, Decode(meta)
  PROVE  Inv'
<1> DEFINE message == [meta |-> meta, id |-> Head(coded)]
<1>1. /\ coded # <<>> /\ coded' = Tail(coded)
      /\ parsed_sdf' = Append(parsed_sdf, message)
      /\ parsed_pmi' = Append(parsed_pmi, message)
      /\ UNCHANGED <<quiet, sdf_vars, chain, pmi_vars, symbols, hps_vars, ignored>>
  BY DEF Decode
<1>2. UNCHANGED <<sdf_in_packet, sdf_position, sdf_block_until, sdf_id,
                  pmi_in_packet, pmi_position, pmi_payload_symbols, pmi_id>>
  BY <1>1 DEF sdf_vars, pmi_vars
<1>3. /\ coded[1] = pmi_id /\ pmi_id = sdf_id /\ pmi_in_packet /\ pmi_position = HeaderEnd
      /\ Waits /\ parsed_pmi = <<>> /\ parsed_sdf = <<>> /\ ignored = <<>>
  BY <1>1 DEF Inv, CodedOfPacket
<1>4. Head(coded) = coded[1] /\ coded' = <<>>
  BY <1>1, Types, ShortQueue DEF Inv, CodedOfPacket
<1>5. message \in Message /\ message.id = pmi_id
  BY <1>3, <1>4, Types DEF Inv, Message
<1> HIDE DEF message
<1>6. /\ parsed_sdf' = parsed_pmi' /\ parsed_pmi' # <<>> /\ parsed_pmi'[1] = message
      /\ parsed_pmi' \in Seq(Message) /\ Len(parsed_pmi') <= 1
      /\ Len(parsed_pmi') <= QueueCapacity
  <2>1. parsed_pmi' = Append(<<>>, message) /\ parsed_sdf' = Append(<<>>, message)
    BY <1>1, <1>3 DEF message
  <2> QED BY <1>5, <2>1, OneMessage, Sizes
<1>7. TypeOK'
  <2>1. <<>> \in Seq(Ids) /\ Len(<<>>) <= QueueCapacity
    BY EmptySeq, Sizes
  <2> QED BY <1>1, <1>4, <1>6, <2>1 DEF Inv, TypeOK, SDF!TypeOK, sdf_vars, pmi_vars, hps_vars
<1>8. NoTag /\ NoTag'
  BY <1>1, <1>3 DEF Inv, TagOfFilter, NoTag
<1>9. TagOfFilter' /\ TagAfterPacket'
  BY <1>8 DEF NoTag, TagOfFilter, TagAfterPacket
<1>10. IdsApart'
  BY <1>2, <1>8 DEF Inv, IdsApart, NextId
<1>11. IgnoredBehind' /\ ClosedBehind' /\ SamePlace'
  BY <1>1, <1>2, <1>3 DEF Inv, IgnoredBehind, ClosedBehind, SamePlace
<1>12. Undecoded' /\ CodedOfPacket'
  <2>1. Len(<<>>) <= 1
    OBVIOUS
  <2> QED BY <1>4, <1>6, <2>1 DEF Undecoded, CodedOfPacket
<1>13. MessageOfInsert'
  BY <1>2, <1>3, <1>4, <1>5, <1>6 DEF MessageOfInsert, Waits
<1>14. MessageOfFilter'
  BY <1>1, <1>2, <1>3, <1>4, <1>5, <1>6 DEF Inv, MessageOfFilter, Waits
<1>15. EndAgreed' /\ PacketBounds'
  BY <1>2 DEF Inv, EndAgreed, PacketBounds, Sending, PacketEnd
<1>16. ItemsInOrder'
  <2>1. HeaderDone
    BY <1>1 DEF Inv, ItemsInOrder, InPayload, BeforePayload, InHeader
  <2> QED BY <1>1, <1>6, <2>1 DEF Inv, ItemsInOrder, HeaderDone, hps_vars
<1> QED BY <1>7, <1>9, <1>10, <1>11, <1>12, <1>13, <1>14, <1>15, <1>16 DEF Inv

-----------------------------------------------------------------------------
(* The invariant of the receiver that is started again.                    *)

(* The invariant holds of a receiver that is started again. *)
LEMMA RestartInv == RestartInit => Inv
<1> SUFFICES ASSUME NEW len \in Lengths, InitWith(PMI!PayloadSymbols(len))
             PROVE  Inv
  BY DEF RestartInit
<1>1. /\ sdf_in_packet = FALSE /\ sdf_position = 0 /\ sdf_block_until = 0
      /\ pmi_in_packet = FALSE /\ pmi_position = 0
      /\ pmi_payload_symbols = PMI!PayloadSymbols(len)
      /\ hps_in_payload = FALSE /\ hps_position = 0 /\ hps_payload_items = 0
      /\ hps_failed = FALSE
      /\ quiet = TimeThreshold + 1 /\ sdf_id = NumIds /\ pmi_id = NumIds
      /\ chain = <<>> /\ symbols = <<>> /\ coded = <<>>
      /\ parsed_sdf = <<>> /\ parsed_pmi = <<>> /\ ignored = <<>>
  BY DEF InitWith, SDF!Init, PMI!StartWith, HPS!Init
<1>2. NumIds \in Ids
  BY ReceiverAssumption DEF Ids
<1>3. pmi_payload_symbols \in Payloads
  BY <1>1, PayloadSizes
<1>4. NextId # NumIds
  BY <1>1, <1>2, NextIds DEF NextId
<1>5. TypeOK
  <2>1. /\ <<>> \in Seq({0} \cup Ids) /\ <<>> \in Seq(Ids) /\ <<>> \in Seq(Message)
        /\ <<>> \in Seq([bits : {0} \cup Payloads, id : Ids])
        /\ Len(<<>>) = 0
    BY EmptySeq
  <2>2. quiet \in 0 .. TimeThreshold + 1
    BY <1>1, Sizes
  <2>3. 0 <= ChainCapacity /\ 0 <= LinkCapacity /\ 0 <= QueueCapacity
    BY Sizes
  <2>4. SDF!TypeOK
    BY <1>1 DEF SDF!TypeOK
  <2> QED BY <1>1, <1>2, <1>3, <2>1, <2>2, <2>3, <2>4 DEF TypeOK
<1>6. Len(chain) = 0 /\ Len(symbols) = 0 /\ 1 .. 0 = {}
  BY <1>1, EmptySeq
<1>7. TagOfFilter /\ TagAfterPacket
  BY <1>6 DEF TagOfFilter, TagAfterPacket
<1>8. /\ IdsApart /\ IgnoredBehind /\ ClosedBehind /\ SamePlace /\ Undecoded
      /\ EndAgreed /\ PacketBounds
  BY <1>1, <1>3, <1>4 DEF IdsApart, IgnoredBehind, ClosedBehind, SamePlace, Undecoded,
     EndAgreed, PacketBounds, Sending
<1>9. CodedOfPacket /\ MessageOfInsert /\ MessageOfFilter
  BY <1>1, EmptySeq DEF CodedOfPacket, MessageOfInsert, MessageOfFilter
<1>10. ItemsInOrder
  <2>1. HPS!HeaderStart = 0 /\ HeaderItems = 0 /\ ~Sending
    BY <1>1, Sizes DEF HPS!HeaderStart, HeaderItems, Sending
  <2>2. InHeader
    BY <1>1, <1>6, <2>1, Sizes DEF InHeader
  <2> QED BY <1>1, <2>2 DEF ItemsInOrder
<1> QED BY <1>5, <1>7, <1>8, <1>9, <1>10 DEF Inv

(* Every step preserves the invariant. *)
LEMMA NextInv == Inv /\ [Next]_vars => Inv'
<1> SUFFICES ASSUME Inv, [Next]_vars PROVE Inv'
  OBVIOUS
<1>1. CASE FilterStep
  BY <1>1, FilterInv DEF FilterStep
<1>2. CASE InsertStep
  BY <1>2, InsertInv DEF InsertStep
<1>3. CASE SplitStep
  BY <1>3, SplitInv DEF SplitStep
<1>4. CASE DecodeStep
  BY <1>4, DecodeInv DEF DecodeStep
<1>5. CASE UNCHANGED vars
  <2> USE <1>5 DEF vars, sdf_vars, pmi_vars, hps_vars
  <2>1. TypeOK'
    BY DEF Inv, TypeOK, SDF!TypeOK
  <2>2. /\ Waits' = Waits /\ NoTag' = NoTag /\ NextId' = NextId /\ PacketEnd' = PacketEnd
        /\ Sending' = Sending
    BY DEF Waits, NoTag, NextId, PacketEnd, Sending
  <2>3. TagOfFilter' /\ IdsApart' /\ IgnoredBehind' /\ ClosedBehind' /\ SamePlace'
    BY <2>2 DEF Inv, TagOfFilter, IdsApart, IgnoredBehind, ClosedBehind, SamePlace
  <2>4. TagAfterPacket'
    BY <2>2 DEF Inv, TagAfterPacket, MessageWaits, PayloadEnds
  <2>5. Undecoded' /\ CodedOfPacket'
    BY <2>2 DEF Inv, Undecoded, CodedOfPacket
  <2>6. MessageOfInsert' /\ MessageOfFilter'
    BY <2>2 DEF Inv, MessageOfInsert, MessageOfFilter
  <2>7. EndAgreed' /\ PacketBounds'
    BY <2>2 DEF Inv, EndAgreed, PacketBounds
  <2>8. ItemsInOrder'
    BY ItemsKept DEF Inv
  <2> QED BY <2>1, <2>3, <2>4, <2>5, <2>6, <2>7, <2>8 DEF Inv
<1> QED BY <1>1, <1>2, <1>3, <1>4, <1>5 DEF Next

(* In every state of a receiver that is started again, the packets, the    *)
(* messages and the items are where the invariant says they are.           *)
THEOREM ReceiverInv == RestartSpec => []Inv
  BY RestartInv, NextInv, PTL DEF RestartSpec

-----------------------------------------------------------------------------
(* The properties.                                                         *)

(* The insert block applies every header message to the packet that the    *)
(* header was decoded from (payload_metadata_insert.hpp).                  *)
THEOREM InsertUsesOwnHeaderHolds == RestartSpec => []InsertUsesOwnHeader
<1>1. Inv => InsertUsesOwnHeader
  <2> SUFFICES ASSUME Inv, NEW i \in 1 .. Len(parsed_pmi)
               PROVE  pmi_in_packet /\ parsed_pmi[i].id = pmi_id
    BY DEF InsertUsesOwnHeader
  <2>1. parsed_pmi # <<>> /\ i = 1
    BY Types, EmptySeq, LenProperties DEF Inv, MessageOfInsert
  <2> QED BY <2>1 DEF Inv, MessageOfInsert
<1> QED BY <1>1, ReceiverInv, PTL

(* The filter has at most one message, from whichever of the two feedback  *)
(* paths, and it is about the packet whose length it waits for             *)
(* (syncword_detection_filter.hpp).                                        *)
THEOREM FilterUsesOwnMessageHolds == RestartSpec => []FilterUsesOwnMessage
<1>1. Inv => FilterUsesOwnMessage
  <2> SUFFICES ASSUME Inv PROVE FilterUsesOwnMessage
    OBVIOUS
  <2>1. /\ Len(parsed_sdf) \in Nat /\ Len(parsed_sdf) <= 1
        /\ Len(ignored) \in Nat /\ Len(ignored) <= 1
        /\ parsed_sdf = <<>> => Len(parsed_sdf) = 0
        /\ ignored = <<>> => Len(ignored) = 0
    BY Types, EmptySeq, LenProperties DEF Inv, MessageOfFilter
  <2>2. ASSUME NEW i \in 1 .. Len(parsed_sdf)
        PROVE  sdf_in_packet /\ sdf_block_until = 0 /\ parsed_sdf[i].id = sdf_id
    <3>1. parsed_sdf # <<>> /\ i = 1
      BY <2>1
    <3> QED BY <3>1 DEF Inv, MessageOfFilter, Waits
  <2>3. ASSUME NEW i \in 1 .. Len(ignored)
        PROVE  sdf_in_packet /\ sdf_block_until = 0 /\ ignored[i] = sdf_id
    <3>1. ignored # <<>> /\ i = 1
      BY <2>1
    <3> QED BY <3>1 DEF Inv, MessageOfFilter, Waits
  <2>4. Len(parsed_sdf) + Len(ignored) <= 1
    <3>1. parsed_sdf # <<>> => ignored = <<>>
      BY DEF Inv, MessageOfFilter
    <3> QED BY <2>1, <3>1
  <2> QED BY <2>2, <2>3, <2>4 DEF FilterUsesOwnMessage
<1> QED BY <1>1, ReceiverInv, PTL

(* Filter and insert block compute the end of a packet on their own, from  *)
(* two copies of the message, and agree on it up to the margin.            *)
THEOREM BlocksAgreeOnEndHolds == RestartSpec => []BlocksAgreeOnEnd
<1>1. Inv => BlocksAgreeOnEnd
  <2>1. PMI!HeaderEnd = HeaderEnd /\ PacketEnd = HeaderEnd + pmi_payload_symbols
    BY Sizes DEF PacketEnd
  <2>2. Inv => EndAgreed /\ PacketBounds
    BY DEF Inv
  <2> SUFFICES ASSUME Inv, pmi_in_packet, sdf_in_packet, pmi_id = sdf_id,
                      pmi_position > PMI!HeaderEnd, sdf_block_until # 0
               PROVE  sdf_block_until = PMI!HeaderEnd + pmi_payload_symbols - AllowedMargin
    BY DEF BlocksAgreeOnEnd
  <2>3. Sending
    BY <2>1 DEF Sending
  <2>4. sdf_block_until = PacketEnd - AllowedMargin
    BY <2>2, <2>3 DEF EndAgreed
  <2> QED BY <2>1, <2>2, <2>4, PayloadTypes, Sizes
<1> QED BY <1>1, ReceiverInv, PTL

(* HeaderPayloadSplit, which finds the packets by counting items, never    *)
(* throws (header_payload_split.hpp:66-69); no buffer overflows.           *)
THEOREM SplitNeverThrowsHolds == RestartSpec => []SplitNeverThrows
<1>1. Inv => SplitNeverThrows
  BY DEF Inv, ItemsInOrder, SplitNeverThrows
<1> QED BY <1>1, ReceiverInv, PTL

(* At most one header is between the splitter and the insert block, so     *)
(* that an invalid one cannot spoil another (header_parser.hpp:62-69).     *)
THEOREM OneHeaderInFlightHolds == RestartSpec => []OneHeaderInFlight
<1>1. Inv => OneHeaderInFlight
  <2> SUFFICES ASSUME Inv PROVE OneHeaderInFlight
    OBVIOUS
  <2>1. /\ Len(coded) \in Nat /\ Len(coded) <= 1
        /\ Len(parsed_pmi) \in Nat /\ Len(parsed_pmi) <= 1
        /\ coded = <<>> => Len(coded) = 0
    BY Types, EmptySeq, LenProperties DEF Inv, CodedOfPacket, MessageOfInsert
  <2>2. parsed_pmi = <<>> => Len(parsed_pmi) = 0
    BY EmptySeq
  <2>3. parsed_pmi # <<>> => coded = <<>>
    BY DEF Inv, MessageOfInsert
  <2> QED BY <2>1, <2>2, <2>3 DEF OneHeaderInFlight
<1> QED BY <1>1, ReceiverInv, PTL

(* A detection that the insert block reports as ignored was in the last    *)
(* AllowedMargin symbols of its packet, since the filter lets none through *)
(* before them.                                                            *)
THEOREM IgnoresOnlyInMarginHolds == RestartSpec => IgnoresOnlyInMargin
<1>1. ASSUME Inv, [Next]_vars, Len(ignored') > Len(ignored)
      PROVE  /\ pmi_position > PMI!HeaderEnd
             /\ pmi_position >= PMI!HeaderEnd + pmi_payload_symbols - AllowedMargin
  <2>1. Len(ignored) \in Nat
    BY Types, LenProperties DEF Inv
  <2>2. ignored' # ignored
    BY <1>1, <2>1
  <2>3. CASE FilterStep
    <3>1. PICK tag \in BOOLEAN, n \in 1 .. MaxChunk : Filter(tag, n)
      BY <2>3 DEF FilterStep
    <3>2. FilterOutside \/ FilterOpens \/ FilterInside
      BY <1>1, <3>1, FilterEffect DEF Inv
    <3>3. ignored' = <<>> /\ Len(<<>>) = 0
      BY <2>2, <3>2, EmptySeq DEF FilterOutside, FilterOpens, FilterInside, FilterTakes
    <3> QED BY <1>1, <2>1, <3>3
  <2>4. CASE InsertStep
    <3>1. PICK n \in 1 .. MaxChunk : Insert(n)
      BY <2>4 DEF InsertStep
    <3>2. PICK c \in Nat : InsertDoes(c)
      BY <1>1, <3>1, InsertEffect DEF Inv
    <3>3. /\ Sending /\ chain[1] # 0 /\ 1 \in 1 .. Len(chain)
      <4>1. 1 \in 1 .. Len(chain)
        BY <1>1, <3>1, Types, Sizes DEF Inv, Insert
      <4> QED BY <2>2, <3>2, <4>1 DEF InsertDoes, InsertDiscards, InsertOpens, InsertPreamble,
                 InsertDrops, InsertStarts, InsertCopies
    <3>4. MessageWaits(1 - 1) \/ PayloadEnds(1 - 1)
      BY <1>1, <3>3 DEF Inv, TagAfterPacket, Sending
    <3>5. /\ pmi_position \in Nat /\ HeaderEnd \in Nat /\ PMI!HeaderEnd = HeaderEnd
          /\ pmi_payload_symbols \in Nat /\ PacketEnd = HeaderEnd + pmi_payload_symbols
          /\ AllowedMargin \in Nat
      BY <1>1, Types, PayloadTypes, Sizes DEF Inv, PacketEnd
    <3>6. pmi_position > HeaderEnd /\ pmi_position >= PacketEnd - AllowedMargin
      BY <3>3, <3>4, <3>5 DEF MessageWaits, PayloadEnds, Sending
    <3> QED BY <3>5, <3>6
  <2>5. CASE SplitStep \/ DecodeStep \/ UNCHANGED vars
    BY <2>2, <2>5 DEF SplitStep, Split, DecodeStep, Decode, vars
  <2> QED BY <1>1, <2>3, <2>4, <2>5 DEF Next
<1>2. Inv /\ [Next]_vars =>
        [Len(ignored') > Len(ignored) =>
           /\ pmi_position > PMI!HeaderEnd
           /\ pmi_position >= PMI!HeaderEnd + pmi_payload_symbols - AllowedMargin]_vars
  BY <1>1
<1> QED BY <1>2, ReceiverInv, PTL DEF RestartSpec, IgnoresOnlyInMargin

(* The insert block leaves a packet only in its payload, or with the       *)
(* message of a header that was not decoded: "the block waits to receive a *)
(* message" (payload_metadata_insert.hpp:23-25).                           *)
THEOREM EndsAfterHeaderHolds == RestartSpec => EndsAfterHeader
<1>1. ASSUME Inv, [Next]_vars, pmi_in_packet, ~pmi_in_packet'
      PROVE  pmi_position > PMI!HeaderEnd \/ parsed_pmi # parsed_pmi'
  <2>1. CASE InsertStep
    <3>1. PICK n \in 1 .. MaxChunk : Insert(n)
      BY <2>1 DEF InsertStep
    <3>2. PICK c \in Nat : InsertDoes(c)
      BY <1>1, <3>1, InsertEffect DEF Inv
    <3> QED BY <1>1, <3>2, Sizes DEF InsertDoes, InsertDiscards, InsertOpens, InsertPreamble,
               InsertDrops, InsertStarts, InsertCopies, Sending
  <2>2. CASE FilterStep \/ SplitStep \/ DecodeStep \/ UNCHANGED vars
    <3>1. pmi_in_packet' = pmi_in_packet
      BY <2>2 DEF FilterStep, Filter, SplitStep, Split, DecodeStep, Decode, vars, pmi_vars
    <3> QED BY <1>1, <3>1
  <2> QED BY <1>1, <2>1, <2>2 DEF Next
<1>2. Inv /\ [Next]_vars =>
        [pmi_in_packet /\ ~pmi_in_packet' =>
           pmi_position > PMI!HeaderEnd \/ parsed_pmi # parsed_pmi']_vars
  BY <1>1
<1> QED BY <1>2, ReceiverInv, PTL DEF RestartSpec, EndsAfterHeader
=============================================================================
