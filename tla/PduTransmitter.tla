---------------------------- MODULE PduTransmitter ----------------------------
(***************************************************************************)
(* The transmitter for PDUs (packet_transmitter_pdu.hpp) between TunSource *)
(* and the stream of samples, as packet_transceiver.cpp connects it.       *)
(*                                                                         *)
(*   Source -pdus-> Ingress -packets-> Crc -payloads---------+             *)
(*     ^               +-metadata-> Format -headers-> Encode -codewords-+  *)
(*     |                                                     FrameMux <-+  *)
(*     |   SyncSource -syncword-----------------+               |frames    *)
(*     |   RampSource -ramp_bits-> RampPack     |            Unpack        *)
(*     |               +-ramp_down--> SymbolMux <-symbols- Pack <-bits+    *)
(*     |   FlushSource -flush----------^                                   *)
(*     |                                                                   *)
(*     |   bursts:  SymbolMux -> Interpolate -> Shape -> ToStream -> out   *)
(*     |   stream:  SymbolMux -> Serialize -> Filter -> Count -> out       *)
(*     +---------------------- counts ------------------------+            *)
(*                                                                         *)
(* Every block of the PDU part takes one PDU in a call (max_in_samples).   *)
(* The values of the items are abstracted: the scrambler and the mappers,  *)
(* which change nothing else, are taken with the blocks before them.       *)
(***************************************************************************)
EXTENDS Integers, Sequences

CONSTANTS
  StreamMode,      (* stream_mode                                          *)
  MaxPackets,      (* max_packets                                          *)
  Modulus,         (* 2^64: the counters are uint64_t                      *)
  MaxLength,       (* 65535, the longest packet that a header can announce *)
  Lengths,         (* the lengths of the packets offered                   *)
  Types,           (* the types of the packets offered                     *)
  CodedSize, CrcSize,
  BitsPerByte,     (* outputs_per_input of the unpacker                    *)
  BitsPerSymbol,   (* inputs_per_output of the packers                     *)
  SyncwordSize, RampDownSize, FlushSize,
  Interpolation, NumTaps, Leading, Trailing,
  Capacity,        (* bound: PDUs in a link                                *)
  StreamCapacity,  (* bound: items in stream and in samples                *)
  Spaces,          (* bound: the items that the output has space for       *)
  NumIds           (* bound: identities of packets, reused in a circle     *)

ASSUME TransmitterAssumption ==
  /\ StreamMode \in BOOLEAN
  /\ MaxPackets \in Nat \ {0} /\ Modulus > MaxPackets /\ NumIds > MaxPackets
  /\ Lengths \subseteq Nat \ {0}
  /\ BitsPerSymbol > 0 /\ BitsPerByte % BitsPerSymbol = 0
  /\ (NumTaps + Interpolation - 1) \div Interpolation <= FlushSize + 1

VARIABLES
  entry_count, exit_count, counts, dropped, id,
  links,           (* the PDUs in every link                               *)
  zeros,           (* zeros that the filter has seen last, up to its depth *)
  pdu, remaining, packet_count, stopped,
  index, ignored_count,
  failed,          (* PackBits has thrown, or PduToTaggedStream stopped    *)
  stream, samples, (* the links of the stream mode                         *)
  queue,           (* ghost: packets accepted and not yet sent             *)
  sent,            (* ghost: samples sent of the first of them             *)
  out              (* the samples published last                           *)

source_vars == <<entry_count, exit_count, counts, dropped, id>>
out_vars == <<pdu, remaining, packet_count, stopped>>
stream_vars == <<index, ignored_count, failed, stream, samples>>
ghost_vars == <<queue, sent, out>>
vars == <<source_vars, links, zeros, out_vars, stream_vars, ghost_vars>>

P == INSTANCE PduBlocks
       WITH LengthTag <- TRUE, EnableCount <- FALSE, packet_count <- ignored_count

Links ==
  {"pdus", "metadata", "packets", "headers", "codewords", "payloads", "frames",
   "bits", "symbols", "syncword", "ramp_bits", "ramp_down", "flush",
   "joined", "interpolated", "bursts"}

Region == INSTANCE LatencyRegion
            WITH MaxOffered <- 1, Oversize <- TRUE,
                 ingress <- Len(links.pdus),
                 pipeline <- Len(queue) - (IF StreamMode /\ sent > 0 THEN 1 ELSE 0)
TOSTREAM == INSTANCE PacketToStream
              WITH SizeOf <- P!Size, failed <- stopped

Ids == 1 .. NumIds
Packets == [id : Ids, len : Lengths, type : Types]

From(seq, k) == SubSeq(seq, k + 1, Len(seq))

Room(link) == Len(links[link]) < Capacity
Offers(link) == links[link] # <<>>

Put(link, item) == [links EXCEPT ![link] = Append(@, item)]

(* A call of a block that makes one PDU of the first of its input. *)
Call(from, to, item) ==
  /\ Offers(from) /\ Room(to)
  /\ links' = [links EXCEPT ![from] = Tail(@), ![to] = Append(@, item)]

(* A call of a source that makes a PDU of nothing. *)
Emit(link, runs) ==
  /\ Room(link)
  /\ links' = Put(link, P!Pdu(runs, {}))

PduPart == UNCHANGED <<source_vars, zeros, out_vars, stream_vars, ghost_vars>>

-----------------------------------------------------------------------------
(* TunSource sees some of the count messages; below the limit it takes a   *)
(* packet from the interface, or makes an idle one, or finds nothing.      *)
Source(seen, len, type) ==
  /\ Room("pdus")
  /\ exit_count' = Region!LastSeen(seen)
  /\ counts' = From(counts, seen)
  /\ IF Region!Room(exit_count') > 0
       THEN /\ entry_count' = Region!Wrap(entry_count + 1)
            /\ id' = (id % NumIds) + 1
            /\ links' = Put("pdus", P!Source([id |-> id, len |-> len, type |-> type]))
       ELSE UNCHANGED <<entry_count, id, links>>
  /\ UNCHANGED <<dropped, zeros, out_vars, stream_vars, ghost_vars>>

Timeout(seen) ==
  /\ Room("pdus") /\ seen > 0
  /\ exit_count' = Region!LastSeen(seen)
  /\ counts' = From(counts, seen)
  /\ UNCHANGED <<entry_count, dropped, id, links, zeros, out_vars, stream_vars, ghost_vars>>

(* Mutation: the message is sent for a packet that is dropped, too. *)
IngressTellsAll ==
  /\ Offers("pdus") /\ Room("packets") /\ Room("metadata")
  /\ LET packet == links.pdus[1]
         fits   == P!Size(packet) <= MaxLength
     IN /\ links' = [links EXCEPT
                       !.pdus = Tail(@),
                       !.packets = IF fits THEN Append(@, packet) ELSE @,
                       !.metadata = Append(@, P!Metadata(packet))]
        /\ queue' = IF fits THEN Append(queue, packet.data[1].of) ELSE queue
        /\ dropped' = IF fits THEN dropped ELSE dropped + 1
  /\ UNCHANGED <<entry_count, exit_count, counts, id, zeros, out_vars, stream_vars,
                 sent, out>>

Ingress ==
  /\ Offers("pdus") /\ Room("packets") /\ Room("metadata")
  /\ LET packet == links.pdus[1]
     IN IF P!Size(packet) <= MaxLength
          THEN /\ links' = [links EXCEPT
                              !.pdus = Tail(@),
                              !.packets = Append(@, packet),
                              !.metadata = Append(@, P!Metadata(packet))]
               /\ queue' = Append(queue, packet.data[1].of)
               /\ UNCHANGED dropped
          ELSE /\ links' = [links EXCEPT !.pdus = Tail(@)]
               /\ dropped' = dropped + 1
               /\ UNCHANGED queue
  /\ UNCHANGED <<entry_count, exit_count, counts, id, zeros, out_vars, stream_vars,
                 sent, out>>

Format == Call("metadata", "headers", P!Header(links.metadata[1])) /\ PduPart
Encode == Call("headers", "codewords", P!Codeword(links.headers[1])) /\ PduPart
Crc == Call("packets", "payloads", P!WithCrc(links.packets[1])) /\ PduPart

FrameMux ==
  /\ Offers("codewords") /\ Offers("payloads") /\ Room("frames")
  /\ links' = [links EXCEPT
                 !.codewords = Tail(@), !.payloads = Tail(@),
                 !.frames = Append(@, P!Join(links.codewords[1], links.payloads[1]))]
  /\ PduPart

Unpack ==
  Call("frames", "bits", P!Enlarged(links.frames[1], BitsPerByte)) /\ PduPart

(* PackBits throws if the bits of a PDU do not make whole symbols. *)
ToSymbols(from, to) ==
  /\ Offers(from) /\ Room(to) /\ ~failed
  /\ IF P!Packs(links[from][1], BitsPerSymbol)
       THEN /\ Call(from, to, P!Packed(links[from][1], BitsPerSymbol))
            /\ UNCHANGED failed
       ELSE failed' = TRUE /\ UNCHANGED links
  /\ UNCHANGED <<source_vars, zeros, out_vars, index, ignored_count,
                 stream, samples, ghost_vars>>

Pack == ToSymbols("bits", "symbols")

SyncSource ==
  Emit("syncword", <<P!Run("syncword", P!Nobody, SyncwordSize)>>) /\ PduPart

(* The ramp-down sequence, cut in PDUs by StreamToPdu. *)
RampSource ==
  /\ ~StreamMode
  /\ Emit("ramp_bits", <<P!Run("ramp_down", P!Nobody, RampDownSize * BitsPerSymbol)>>)
  /\ PduPart
RampPack == ToSymbols("ramp_bits", "ramp_down")
FlushSource ==
  ~StreamMode /\ Emit("flush", <<P!Run("flush", P!Nobody, FlushSize)>>) /\ PduPart

Inputs ==
  IF StreamMode THEN <<"syncword", "symbols">>
  ELSE <<"syncword", "symbols", "ramp_down", "flush">>

Joined ==
  LET first(i) == links[Inputs[i]][1]
      packet   == P!Join(first(1), first(2))
  IN IF StreamMode THEN packet ELSE P!Join(P!Join(packet, first(3)), first(4))

SymbolMux ==
  /\ \A i \in DOMAIN Inputs : Offers(Inputs[i])
  /\ Room("joined")
  /\ links' = [link \in Links |->
                 CASE link = "joined" -> Append(links.joined, Joined)
                   [] link \in {Inputs[i] : i \in DOMAIN Inputs} -> Tail(links[link])
                   [] OTHER -> links[link]]
  /\ PduPart

-----------------------------------------------------------------------------
(* Bursts.  The filter keeps its last items from PDU to PDU.               *)
Depth == (NumTaps + Interpolation - 1) \div Interpolation

ZerosAfter(symbols) ==
  LET last == symbols.data[Len(symbols.data)]
  IN P!Lesser(Depth - 1, IF last.part = "flush" THEN last.len ELSE 0)

Interpolated(symbols) ==
  [P!Enlarged(symbols, Interpolation) EXCEPT
     !.signal.history = IF zeros >= Depth - 1 THEN "clean" ELSE "mixed"]

Interpolate ==
  /\ ~StreamMode
  /\ Call("joined", "interpolated", Interpolated(links.joined[1]))
  /\ zeros' = ZerosAfter(links.joined[1])
  /\ UNCHANGED <<source_vars, out_vars, stream_vars, ghost_vars>>

Shape == Call("interpolated", "bursts", P!Shaped(links.interpolated[1])) /\ PduPart

(* A call of PacketToStream that sees some of the bursts. *)
ToStream(seen, space) ==
  LET packets  == SubSeq(links.bursts, 1, seen)
      finished == TOSTREAM!Finished(packets, space, MaxPackets)
  IN /\ ~StreamMode
     /\ TOSTREAM!PduCall(packets, space, MaxPackets)
     /\ out' = TOSTREAM!Published(packets, space, MaxPackets)
     /\ counts' = counts \o [i \in 1 .. finished |-> TOSTREAM!Message(i)]
     /\ links' = [links EXCEPT
                    !.bursts = From(@, TOSTREAM!Consumed(packets, space, MaxPackets))]
     /\ queue' = From(queue, finished)
     /\ sent' = IF remaining' = 0 THEN 0 ELSE P!Size(pdu') - remaining'
     /\ UNCHANGED <<entry_count, exit_count, dropped, id, zeros, stream_vars>>

-----------------------------------------------------------------------------
(* The stream of symbols without gaps. *)
Serialize(seen, space) ==
  /\ StreamMode
  /\ Len(stream) + space <= StreamCapacity
  /\ \E consumed \in 0 .. seen :
       LET packets == SubSeq(links.joined, 1, seen)
           items   == P!Loop(packets, space, 0).items
       IN /\ P!ToTaggedStream(packets, space, 0, consumed, items, <<>>)
          /\ stream' = stream \o items
          /\ links' = [links EXCEPT !.joined = From(@, consumed)]
  /\ UNCHANGED <<source_vars, zeros, out_vars, samples, ghost_vars>>

(* A chunk of a synchronous input ends before the next tag. *)
Tagged(item) == item.bits > 0 \/ item.keys # {}
Chunk(link, n) == n <= Len(link) /\ \A i \in 2 .. n : ~Tagged(link[i])

(* The tags of a symbol go with the first of its samples. *)
Filter(n) ==
  /\ Chunk(stream, n)
  /\ Len(samples) + n * Interpolation <= StreamCapacity
  /\ samples' = samples \o
       [m \in 1 .. n * Interpolation |->
          LET symbol == stream[(m - 1) \div Interpolation + 1]
              phase  == (m - 1) % Interpolation
          IN [of |-> symbol.of,
              place |-> (symbol.place - 1) * Interpolation + phase + 1,
              bits |-> IF phase = 0 THEN symbol.bits ELSE 0,
              keys |-> IF phase = 0 THEN symbol.keys ELSE {}]]
  /\ stream' = From(stream, n)
  /\ UNCHANGED <<source_vars, links, zeros, out_vars, index, ignored_count, failed,
                 ghost_vars>>

(* Mutation: every tag counts. *)
CountsTagged(item) == Tagged(item)

(* PacketCounter counts the chunks that begin with a length tag. *)
Counts(item) == item.bits > 0

Count(n) ==
  /\ Chunk(samples, n)
  /\ IF Counts(samples[1])
       THEN /\ packet_count' = Region!Wrap(packet_count + 1)
            /\ counts' = Append(counts, packet_count')
       ELSE UNCHANGED <<packet_count, counts>>
  /\ LET sample(i) == <<P!Enlarged(samples[i].of, Interpolation), samples[i].place>>
         last      == sample(n)
         ends      == last[2] = P!Size(last[1])
     IN /\ out' = [i \in 1 .. n |-> sample(i)]
        /\ queue' = IF ends THEN Tail(queue) ELSE queue
        /\ sent' = IF ends THEN 0 ELSE last[2]
  /\ samples' = From(samples, n)
  /\ UNCHANGED <<entry_count, exit_count, dropped, id, links, zeros, pdu, remaining,
                 stopped, index, ignored_count, failed, stream>>

-----------------------------------------------------------------------------
SourceStep ==
  \E seen \in 0 .. Len(counts) :
    \/ \E len \in Lengths, type \in Types : Source(seen, len, type)
    \/ Timeout(seen)
ToStreamStep ==
  \E seen \in 0 .. Len(links.bursts), space \in Spaces : ToStream(seen, space)
SerializeStep ==
  \E seen \in 1 .. Len(links.joined), space \in 1 .. StreamCapacity :
    Serialize(seen, space)
FilterStep == \E n \in 1 .. Len(stream) : Filter(n)
CountStep == \E n \in 1 .. Len(samples) : Count(n)

HeaderSteps == Format \/ Encode
PacketSteps == Ingress \/ Crc \/ FrameMux \/ Unpack \/ Pack
SourceSteps == SyncSource \/ RampSource \/ RampPack \/ FlushSource

Next ==
  \/ SourceStep \/ HeaderSteps \/ PacketSteps \/ SourceSteps \/ SymbolMux
  \/ Interpolate \/ Shape \/ ToStreamStep
  \/ SerializeStep \/ FilterStep \/ CountStep

Init ==
  /\ entry_count = 0 /\ exit_count = 0 /\ counts = <<>> /\ dropped = 0 /\ id = 1
  /\ links = [link \in Links |-> <<>>]
  /\ zeros = Depth - 1
  /\ pdu = P!Pdu(<<>>, {}) /\ TOSTREAM!Init
  /\ P!Init
  /\ stream = <<>> /\ samples = <<>>
  /\ queue = <<>> /\ sent = 0 /\ out = <<>>

Spec == Init /\ [][Next]_vars

(* The scheduler goes on: if some block can do something, some block will. *)
FairSpec == Spec /\ WF_vars(Next)

-----------------------------------------------------------------------------
TypeOK ==
  /\ \A link \in Links : Len(links[link]) <= Capacity
  /\ id \in Ids /\ queue \in Seq(Packets)
  /\ zeros \in 0 .. Depth - 1
  /\ remaining \in Nat /\ packet_count \in 0 .. Modulus - 1
  /\ Len(stream) <= StreamCapacity /\ Len(samples) <= StreamCapacity

(* The packets of the payloads that are in the network, from its end back. *)
PayloadsInside ==
  LET way == (IF remaining > 0 THEN <<pdu>> ELSE <<>>)
               \o links.bursts \o links.interpolated \o links.joined \o links.symbols
               \o links.bits \o links.frames \o links.payloads \o links.packets
      payload(p) == CHOOSE k \in DOMAIN p.data : p.data[k].part = "payload"
  IN [i \in DOMAIN way |-> way[i].data[payload(way[i])].of]

(* And those of the headers that are not joined to a payload yet. *)
HeadersWaiting ==
  LET coded == links.codewords \o links.headers
  IN [i \in DOMAIN coded |-> coded[i].data[1].of.packet]
       \o [i \in DOMAIN links.metadata |-> links.metadata[i].packet]

(* Headers and payloads, which know nothing of each other, wait in the     *)
(* same order on two ways of different length, also when packets between   *)
(* them are dropped (packet_ingress.hpp:164-200); every packet accepted is *)
(* in the network once until it has left.                                  *)
PacketsInStep ==
  /\ TypeOK
  /\ PayloadsInside = queue
  /\ HeadersWaiting =
       LET all == Len(PayloadsInside)
       IN SubSeq(PayloadsInside, all - Len(links.payloads \o links.packets) + 1, all)

(* A tag of a packet is on the first item of its payload in every link,    *)
(* whatever the blocks before have put in front of it or made of its items.*)
TagsMarkPayloads ==
  \A link \in Links \ {"metadata"} : \A i \in DOMAIN links[link] :
    \A tag \in links[link][i].tags :
      \E k \in DOMAIN links[link][i].data :
        /\ links[link][i].data[k].part = "payload"
        /\ P!Items(SubSeq(links[link][i].data, 1, k - 1)) = tag.index

(* The burst of a packet as it should be. *)
SymbolsPerByte == BitsPerByte \div BitsPerSymbol

BurstSymbols(p) ==
  << <<"syncword", "nobody", SyncwordSize>>,
     <<"header", [packet |-> p, len |-> p.len, type |-> p.type],
       CodedSize * SymbolsPerByte>>,
     <<"payload", p, p.len * SymbolsPerByte>>,
     <<"crc", p, CrcSize * SymbolsPerByte>> >>
  \o (IF ~StreamMode THEN << <<"ramp_down", "nobody", RampDownSize>>,
                        <<"flush", "nobody", FlushSize>> >> ELSE <<>>)

BurstSamples(p) ==
  [i \in DOMAIN BurstSymbols(p) |->
     [part |-> BurstSymbols(p)[i][1], of |-> BurstSymbols(p)[i][2],
      len  |-> BurstSymbols(p)[i][3] * Interpolation]]

(* A type tag stands at the first sample of an idle payload. *)
BurstTags(p) ==
  IF p.type = "IDLE"
    THEN {[index |-> (SyncwordSize + CodedSize * SymbolsPerByte) * Interpolation,
           key |-> "packet_type"]}
    ELSE {}

(* A burst is filtered as if nothing was sent before, and shaped at both   *)
(* ends.                                                                   *)
Burst(p) ==
  [data   |-> BurstSamples(p),
   tags   |-> BurstTags(p),
   signal |-> IF ~StreamMode
                THEN [history |-> "clean", leading |-> Leading, trailing |-> Trailing]
                ELSE [history |-> "none", leading |-> 0, trailing |-> 0]]

BurstSize(p) ==
  (SyncwordSize + (CodedSize + p.len + CrcSize) * SymbolsPerByte
     + (IF ~StreamMode THEN RampDownSize + FlushSize ELSE 0)) * Interpolation

BurstStream == INSTANCE BurstStream
                 WITH Length <- BurstSize, Gaps <- ~StreamMode,
                      count <- packet_count

(* What leaves is the bursts of the accepted packets, whole, in order and  *)
(* without gaps, and the count messages say how many they are.             *)
BurstsInOrder == BurstStream!Spec

(* The transmitter is a latency region as TunSource takes it to be.        *)
IsRegion == Region!Spec

(* Every packet that is accepted is sent. *)
EveryPacketSent ==
  \A i \in Ids : (queue # <<>> /\ Head(queue).id = i)
                   ~> ~(queue # <<>> /\ Head(queue).id = i)
=============================================================================
