--------------------------- MODULE PacketReceiver ----------------------------
(***************************************************************************)
(* The packet-tracking loop of the receiver (packet_receiver.hpp): the     *)
(* blocks that decide where packets begin and end, with the links between  *)
(* them and the two feedback paths.                                        *)
(*                                                                         *)
(*   samples -> SyncwordDetectionFilter -chain-> PayloadMetadataInsert     *)
(*                   ^        ^                     |            ^         *)
(*                   |        +---- ignored --------+            |         *)
(*                   |                              |         parsed_pmi   *)
(*               parsed_sdf                      symbols         |         *)
(*                   |                              v            |         *)
(*                   +--- Decode <-coded- HeaderPayloadSplit     |         *)
(*                          |                                    |         *)
(*                          +------------------------------------+         *)
(*                                                                         *)
(* Every block is a process that the scheduler calls at any time with any  *)
(* chunk of what its input link holds; links are bounded FIFO buffers.     *)
(* chain is the path through CoarseFrequencyCorrection, SymbolFilter and   *)
(* SyncwordWipeoff, at one sample per symbol; the filter holds back the    *)
(* last ChainDelay symbols.  symbols is the path through CostasLoop,       *)
(* SyncwordRemove, ConstellationLLRDecoder and the descrambler.  Decode is *)
(* HeaderFecDecoder followed by HeaderParser.                              *)
(*                                                                         *)
(* Ghost data: each detection that the filter lets through gets an         *)
(* identity from Ids, which travels with the tag and with the header.      *)
(***************************************************************************)
EXTENDS Integers, Sequences

CONSTANTS
  SyncwordSize, HeaderSize, AllowedMargin, CrcSize, SymbolsPerByte, Lengths,
  MaxChunk, Log,
  TimeThreshold,   (* SyncwordDetection: detections are further apart      *)
  ChainDelay,      (* symbols held back by the filters of the chain        *)
  ChainCapacity,   (* bound: symbols in chain                              *)
  LinkCapacity,    (* bound: symbols in symbols                            *)
  QueueCapacity,   (* bound: messages in a queue                           *)
  NumIds           (* bound: identities, reused in a circle                *)

Ids == 1 .. NumIds

VARIABLES
  quiet,           (* samples since the last detection, up to the minimum  *)
  sdf_in_packet, sdf_position, sdf_block_until,
  sdf_id,          (* ghost: the packet the filter is or was in            *)
  chain,           (* symbols: the identity of a detection, 0 without      *)
  pmi_in_packet, pmi_position, pmi_payload_symbols,
  pmi_id,          (* ghost: the packet the insert block is or was in      *)
  symbols,         (* items: tag payload_symbols (0: none) and identity    *)
  hps_in_payload, hps_position, hps_payload_items, hps_failed,
  coded,           (* identities of the headers that wait for decoding     *)
  parsed_sdf,      (* header messages for the filter                       *)
  parsed_pmi,      (* header messages for the insert block                 *)
  ignored          (* identities of the detections reported as ignored     *)

sdf_vars == <<sdf_in_packet, sdf_position, sdf_block_until, sdf_id>>
pmi_vars == <<pmi_in_packet, pmi_position, pmi_payload_symbols, pmi_id>>
hps_vars == <<hps_in_payload, hps_position, hps_payload_items, hps_failed>>
vars == <<quiet, sdf_vars, chain, pmi_vars, symbols, hps_vars, coded,
          parsed_sdf, parsed_pmi, ignored>>

SDF == INSTANCE SyncwordDetectionFilter
         WITH SamplesPerSymbol <- 1, in_packet <- sdf_in_packet,
              position <- sdf_position, block_until <- sdf_block_until

PMI == INSTANCE PayloadMetadataInsert
         WITH in_packet <- pmi_in_packet, position <- pmi_position,
              payload_symbols <- pmi_payload_symbols

HPS == INSTANCE HeaderPayloadSplit
         WITH in_payload <- hps_in_payload, position <- hps_position,
              payload_items <- hps_payload_items, failed <- hps_failed

(* The assumptions on the sizes under which the receiver works: the chain  *)
(* delivers the header from what the filter lets through, the margin is    *)
(* shorter than syncword and header, and the smallest payload is longer    *)
(* than the margin in which the filter accepts detections.  64, 128, 16,   *)
(* 4 bytes, 4 symbols per byte and 11 symbols of delay satisfy them.       *)
ASSUME ReceiverAssumption ==
  /\ SyncwordSize \in Nat \ {0} /\ HeaderSize \in Nat \ {0}
  /\ AllowedMargin \in Nat /\ AllowedMargin < SyncwordSize + HeaderSize
  /\ CrcSize \in Nat /\ SymbolsPerByte \in Nat \ {0}
  /\ Lengths \subseteq Nat \ {0}
  /\ ChainDelay \in Nat /\ ChainDelay < AllowedMargin
  /\ \A len \in Lengths : SDF!PayloadSymbols(len) > AllowedMargin
  /\ MaxChunk \in Nat \ {0} /\ Log \in BOOLEAN /\ TimeThreshold \in Nat
  /\ ChainCapacity \in Nat /\ LinkCapacity \in Nat /\ QueueCapacity \in Nat \ {0}
  /\ NumIds \in Nat /\ NumIds >= 3

-----------------------------------------------------------------------------
NextId == (sdf_id % NumIds) + 1

Front(queue) == IF queue = <<>> THEN PMI!NoMessage ELSE Head(queue).meta

PopIf(taken, queue) == IF taken THEN Tail(queue) ELSE queue

From(seq, k) == SubSeq(seq, k + 1, Len(seq))

(* Mutation: the output span is one sample too long. *)
ChainSpaceBeyond(n) == Len(chain) + n <= ChainCapacity + 1

ChainSpace(n) == Len(chain) + n <= ChainCapacity

(* Only the first item of a chunk can have a tag. *)
ChainChunk(n) == \A i \in 2 .. n : chain[i] = 0
SymbolsChunk(n) == \A i \in 2 .. n : symbols[i].bits = 0

(* SyncwordDetection finds at most one syncword in TimeThreshold samples. *)
Detectable == quiet > TimeThreshold

(* One call of SyncwordDetectionFilter. *)
Filter(tag, n) ==
  /\ tag => Detectable
  /\ ChainSpace(n)
  /\ LET header  == Front(parsed_sdf)
         dropped == SDF!TakesIgnored(tag, header, ignored # <<>>)
     IN \E consumed \in 0 .. n :
          /\ SDF!ProcessBulk(tag, n, header, ignored # <<>>, consumed)
          /\ quiet' = SDF!Lesser(TimeThreshold + 1,
                                 (IF tag /\ consumed > 0 THEN 0 ELSE quiet) + consumed)
          /\ sdf_id' = IF SDF!Opens(tag) THEN NextId ELSE sdf_id
          /\ chain' = chain \o [i \in 1 .. consumed |->
                                  IF i = 1 /\ SDF!Opens(tag) THEN sdf_id' ELSE 0]
          /\ parsed_sdf' = PopIf(SDF!TakesHeader(tag, header), parsed_sdf)
          /\ ignored' = PopIf(dropped, ignored)
  /\ UNCHANGED <<pmi_vars, symbols, hps_vars, coded, parsed_pmi>>

(* The items that SyncwordRemove lets through of the published ones: those *)
(* past the syncword; the payload_symbols tag is on the first of them that *)
(* is past the header.                                                     *)
Published(start, count) ==
  LET first == SDF!Lesser(start + count, IF start < SyncwordSize THEN SyncwordSize ELSE start)
  IN [i \in 1 .. start + count - first |->
        [bits |-> IF first + i - 1 = PMI!HeaderEnd THEN pmi_payload_symbols' ELSE 0,
         id   |-> pmi_id']]

(* One call of PayloadMetadataInsert. *)
Insert(n) ==
  /\ n <= Len(chain) - ChainDelay
  /\ ChainChunk(n)
  /\ LET tag    == chain[1] # 0
         header == Front(parsed_pmi)
     IN \E consumed \in 0 .. n, published \in 0 .. n :
          /\ PMI!ProcessBulk(tag, n, header, consumed, published)
          /\ pmi_id' = IF PMI!Opens(tag) THEN chain[1] ELSE pmi_id
          /\ symbols' = symbols \o Published(PMI!Start(tag), published)
          /\ Len(symbols') <= LinkCapacity
          /\ chain' = From(chain, consumed)
          /\ parsed_pmi' = PopIf(PMI!TakesHeader(tag, n, header), parsed_pmi)
          /\ PMI!Reports(tag) => Len(ignored) < QueueCapacity
          /\ ignored' = IF PMI!Reports(tag) THEN Append(ignored, chain[1]) ELSE ignored
  /\ UNCHANGED <<quiet, sdf_vars, hps_vars, coded, parsed_sdf>>

(* One call of HeaderPayloadSplit; the FEC decoder can take a header once  *)
(* its last item is there.                                                 *)
Split(n) ==
  /\ n <= Len(symbols)
  /\ SymbolsChunk(n)
  /\ Len(coded) < QueueCapacity
  /\ \E consumed \in 0 .. n :
       /\ HPS!ProcessBulk(n, symbols[1].bits, consumed)
       /\ coded' = IF ~hps_in_payload' /\ symbols[1].bits = 0 /\ ~hps_in_payload
                        /\ hps_position' = HeaderSize
                     THEN Append(coded, symbols[1].id) ELSE coded
       /\ symbols' = From(symbols, consumed)
  /\ UNCHANGED <<quiet, sdf_vars, chain, pmi_vars, parsed_sdf, parsed_pmi, ignored>>

(* HeaderFecDecoder and HeaderParser turn a header into one message, which *)
(* both blocks receive.  What is decoded depends on the noise.             *)
Decode(meta) ==
  /\ coded # <<>>
  /\ Len(parsed_sdf) < QueueCapacity /\ Len(parsed_pmi) < QueueCapacity
  /\ LET message == [meta |-> meta, id |-> Head(coded)]
     IN /\ parsed_sdf' = Append(parsed_sdf, message)
        /\ parsed_pmi' = Append(parsed_pmi, message)
  /\ coded' = Tail(coded)
  /\ UNCHANGED <<quiet, sdf_vars, chain, pmi_vars, symbols, hps_vars, ignored>>

FilterStep == \E tag \in BOOLEAN, n \in 1 .. MaxChunk : Filter(tag, n)
InsertStep == \E n \in 1 .. MaxChunk : Insert(n)
SplitStep  == \E n \in 1 .. MaxChunk : Split(n)
DecodeStep == \E meta \in SDF!Metas : Decode(meta)

Next == FilterStep \/ InsertStep \/ SplitStep \/ DecodeStep

InitWith(last_payload_symbols) ==
  /\ SDF!Init
  /\ PMI!StartWith(last_payload_symbols)
  /\ HPS!Init
  /\ quiet = TimeThreshold + 1
  /\ sdf_id = NumIds /\ pmi_id = NumIds
  /\ chain = <<>> /\ symbols = <<>> /\ coded = <<>>
  /\ parsed_sdf = <<>> /\ parsed_pmi = <<>> /\ ignored = <<>>

(* A receiver that was just built, and one that is started again after it  *)
(* has received a packet.                                                  *)
FirstInit == InitWith(0)
RestartInit == \E len \in Lengths : InitWith(PMI!PayloadSymbols(len))

(* The scheduler calls every block again and again, and samples keep       *)
(* coming.                                                                 *)
Fairness ==
  WF_vars(FilterStep) /\ WF_vars(InsertStep) /\ WF_vars(SplitStep) /\ WF_vars(DecodeStep)

FirstSpec == FirstInit /\ [][Next]_vars /\ Fairness
RestartSpec == RestartInit /\ [][Next]_vars /\ Fairness

-----------------------------------------------------------------------------
Message == [meta : SDF!Metas, id : Ids]
Payloads == {PMI!PayloadSymbols(len) : len \in Lengths}

TypeOK ==
  /\ quiet \in 0 .. TimeThreshold + 1
  /\ SDF!TypeOK /\ sdf_id \in Ids
  /\ chain \in Seq({0} \cup Ids) /\ Len(chain) <= ChainCapacity
  /\ pmi_in_packet \in BOOLEAN /\ pmi_position \in Nat
  /\ pmi_payload_symbols \in {0} \cup Payloads /\ pmi_id \in Ids
  /\ symbols \in Seq([bits : {0} \cup Payloads, id : Ids])
  /\ Len(symbols) <= LinkCapacity
  /\ hps_in_payload \in BOOLEAN /\ hps_position \in Nat
  /\ hps_payload_items \in {0} \cup Payloads /\ hps_failed \in BOOLEAN
  /\ coded \in Seq(Ids) /\ Len(coded) <= QueueCapacity
  /\ parsed_sdf \in Seq(Message) /\ Len(parsed_sdf) <= QueueCapacity
  /\ parsed_pmi \in Seq(Message) /\ Len(parsed_pmi) <= QueueCapacity
  /\ ignored \in Seq(Ids) /\ Len(ignored) <= QueueCapacity

(* Header messages carry nothing that tells their packet: a block applies  *)
(* the first one in its queue to the packet it is in.  It is always the    *)
(* message of that packet, and none is left over between packets, in the   *)
(* insert block ...                                                        *)
InsertUsesOwnHeader ==
  \A i \in 1 .. Len(parsed_pmi) : pmi_in_packet /\ parsed_pmi[i].id = pmi_id

(* ... and in the filter, which takes no message outside a packet and at   *)
(* most one inside, from whichever of the two feedback paths.              *)
FilterUsesOwnMessage ==
  /\ \A i \in 1 .. Len(parsed_sdf) :
       sdf_in_packet /\ sdf_block_until = 0 /\ parsed_sdf[i].id = sdf_id
  /\ \A i \in 1 .. Len(ignored) :
       sdf_in_packet /\ sdf_block_until = 0 /\ ignored[i] = sdf_id
  /\ Len(parsed_sdf) + Len(ignored) <= 1

(* When both blocks know the length of the same packet they agree on where *)
(* it ends, up to the margin, although each computes it on its own.        *)
BlocksAgreeOnEnd ==
  pmi_in_packet /\ sdf_in_packet /\ pmi_id = sdf_id
    /\ pmi_position > PMI!HeaderEnd
    /\ sdf_block_until # 0
    => sdf_block_until = PMI!HeaderEnd + pmi_payload_symbols - AllowedMargin

(* HeaderPayloadSplit, which finds the packets in the stream only by       *)
(* counting, never sees a payload tag out of place, for which it throws    *)
(* (header_payload_split.hpp:66-69); and the types hold.                   *)
SplitNeverThrows == TypeOK /\ ~hps_failed

(* At most one header is on its way from the splitter to the insert block. *)
(* HeaderParser applies the "invalid_header" tag of a chunk to all the     *)
(* headers of the chunk (header_parser.hpp:62-69): with a second header in *)
(* flight a good packet would be lost with a bad one.                      *)
OneHeaderInFlight == Len(coded) + Len(parsed_pmi) <= 1

(* A detection that the insert block ignores lies in the last              *)
(* AllowedMargin symbols of its packet: the filter keeps the others away.  *)
IgnoresOnlyInMargin ==
  [][Len(ignored') > Len(ignored) =>
       /\ pmi_position > PMI!HeaderEnd
       /\ pmi_position >= PMI!HeaderEnd + pmi_payload_symbols - AllowedMargin]_vars

(* The insert block ends a packet only after its header: "Before passing   *)
(* the payload symbols to the output, the block waits to receive a message *)
(* containing the metadata from the decoded header"                        *)
(* (payload_metadata_insert.hpp:23-25).                                    *)
EndsAfterHeader ==
  [][pmi_in_packet /\ ~pmi_in_packet' =>
       pmi_position > PMI!HeaderEnd \/ parsed_pmi # parsed_pmi']_vars

(* The filter leaves every packet it opens, real or false: the receiver    *)
(* never stops looking for syncwords.                                      *)
FilterPacketsEnd == sdf_in_packet ~> ~sdf_in_packet

(* So does the insert block as well: the filter lets through what is       *)
(* needed to decode a header and to notice the result.                     *)
PacketsEnd == FilterPacketsEnd /\ (pmi_in_packet ~> ~pmi_in_packet)
=============================================================================
