# Verification of gr4-packet-modem

TLA+ models of the packet modem: its blocks, the feedback loops between them,
and what TLC checks and TLAPS proves about them. Paths below are relative to
`src/blocks/include/gnuradio-4.0/packet-modem/` unless they start with `src/`.

## 1. The system

gr4-packet-modem is a set of GNU Radio 4 blocks and two large compositions, a
transmitter (`packet_transmitter.hpp`, `packet_transmitter_pdu.hpp`) and a
receiver (`packet_receiver.hpp`), run by applications under `src/apps`.

A block is an object with `start()`, `stop()` and `processBulk()`. A scheduler
with several threads calls `processBulk()` again and again, each time with a
chunk of what the input buffers hold and of the free space of the output
buffers. Blocks share nothing but those bounded FIFO buffers: of samples, of
PDUs (whole packets) or of messages. Samples carry tags; a tag is aligned with
the first item of a chunk. Ports that are `Async` may be empty when the block is
called. So the system is a network of sequential processes with bounded queues,
and what is hard in it is

* the chunking: every block must give the same result however its stream is cut;
* the interleaving of blocks, and the lag of the messages in the feedback loops;
* state that two blocks compute separately and must agree on (where a packet ends);
* loss: false syncword detections, headers that cannot be decoded, dropped packets;
* restarts: what `start()` resets and what it forgets.

| component | state | operations | interacts with | what makes it correct |
|---|---|---|---|---|
| SyncwordDetection | best correlation, history | processBulk | tags to the filter | detections further apart than `time_threshold`, tag on the right sample |
| SyncwordDetectionFilter | `_in_packet`, `_position`, `_block_until` | start, processBulk | header and ignored messages back from downstream | bounded lookahead; leaves a packet late enough, and always; one answer per packet |
| CoarseFrequencyCorrection, SymbolFilter | pending frequency; clock phase, delayed tags | processBulk | stream with tags | no symbol lost or repeated, tags stay on their symbol |
| SyncwordWipeoff, SyncwordRemove | `_in_syncword`, `_position` | processBulk | stream with tags | exactly the syncword is touched |
| PayloadMetadataInsert | `_in_packet`, `_position`, `_payload_symbols` | start, processBulk | takes header messages, reports ignored detections | every header message used for its own packet; packets are whole |
| CostasLoop, ConstellationLLRDecoder, AdditiveScrambler | loop state, modulation, register | processBulk | tags | change at the tagged item; the register is reset at the first bit of a header |
| HeaderPayloadSplit | `_in_payload`, `_position`, `_payload_items` | start, processBulk | counts items, throws on a tag out of place | never throws; header and payload separated |
| HeaderFecDecoder, HeaderParser | none | processBulk | header bits to one message for two blocks | one message per header, `invalid_header` on the right one |
| CrcCheck, PackBits, PacketTypeFilter, TaggedStreamToPdu | length and position in a packet | start, processBulk | length tags | packets in, packets out, tags adjusted |
| PacketIngress, CrcAppend, PacketMux, HeaderFormatter, HeaderFecEncoder | length and position in a packet | start, processBulk | length tags, header messages | packets in, packets out; header and payload of the same packet meet |
| TunSource / PacketLimiter | `_entry_count`, `_exit_count` | start, processBulk | packets into the latency region | at most `max_packets` inside |
| PacketToStream / PacketCounter | `_packet_count` / `_count`, `_remaining` | start, processBulk | count messages back to the limiter | one message per packet; zeros between packets only |
| StreamToTaggedStream, MultiplyPacketLenTag, UnpackBits, InterpolatingFirFilter, Mapper | counter of the packet; filter history | processBulk | stream with length tags | tags stay on their item, lengths follow the rate |
| BurstShaper | `_remaining`, `_packet_len` | processBulk | tagged stream or PDUs | the ramps are on the first and last items, however the stream is cut |
| Crc | table, `d_rem` | initialize, update, finalize, compute | called by CrcAppend, CrcCheck, header blocks | the remainder of the division, for every setting |
| PfbArbResampler | arm, fraction, history | processBulk, settingsChanged | stream | each output at its exact time |
| ProbeRate, and MessageStrobe without the counters | thread, mutex, condition variable, counters | start, stop, pause, resume, processBulk | a thread of their own | every item told of once; stop() returns |
| Head, Throttle, PacketStrobe, VectorSource, VectorSink, FileSource, FileSink | counters, positions | start, processBulk | outside world | order and number of items, pace |
| TunSink, ZMQ, Rotator, firdes, printing, random sources | little | processOne | outside world | numerical or I/O |

`PROJECT.json` lists every component with its status, and every place where this
code can go wrong in a way that tests hardly reach, with the property that
covers it.

## 2. What is modelled

### SyncwordDetectionFilter

The block of `syncword_detection_filter.hpp`, one action per branch of the
handler: `Forward` (outside a packet) and `Gate` (inside, or opening one). A call
has four inputs: whether the chunk begins with a detection, its size, the header
message at the front of the queue, and whether an ignored report is queued.
`TakesHeader` and `TakesIgnored` say which message the call consumes, so that a
composition can remove it from its queue. `InvalidHeader` is 0, which no header
announces.

Run `receiver_blocks` offers every input at any time, more than the receiver
does, and checks `BoundedLookahead` and `ClosesLate`; both are proved.

### PayloadMetadataInsert, HeaderPayloadSplit

The handlers of `payload_metadata_insert.hpp` and `header_payload_split.hpp`, one
action per way a call can go. The handler's `while` loop is one step: each iteration
ends with a span exhausted, a break or the end of the packet, which consumes the
rest of the chunk. The input and output chunk have the same size, as the scheduler
gives to blocks with the same rate on both sides (other blocks of the repository
assert it, `packet_ingress.hpp:63`). These two modules have no runs of their own:
which symbols and messages they see depends on the loop.

### PacketReceiver

The tracking loop of `packet_receiver.hpp`: the three modules above (by INSTANCE,
with one sample per symbol) as processes, connected by

* `chain`: the path through CoarseFrequencyCorrection, SymbolFilter and
  SyncwordWipeoff. The filters hold back the last `ChainDelay` symbols;
* `symbols`: the path through the Costas loop, SyncwordRemove,
  the soft decoder and the descrambler; `Published` does what
  SyncwordRemove does;
* `coded`, then `Decode`: HeaderFecDecoder and HeaderParser. Which message comes
  out depends on noise, so it is any of a length or `invalid_header`; one
  message goes into the queues of both readers;
* `parsed_sdf`, `parsed_pmi`, `ignored`: the message queues of the feedback.

Detections come at any sample, true or false, but further apart than
`TimeThreshold`, as SyncwordDetection guarantees (`syncword_detection.hpp:269`).
`sdf_id`, `pmi_id` and the identities in the queues are ghosts: the code has no
packet identity, and the properties say that it needs none. `NumIds` identities
are reused in a circle; three or more are assumed, because the packet of the
filter, that of the insert block and the next one must differ.

`ReceiverAssumption` states the relations between the sizes that the loop needs; the
defaults satisfy them. The filters hold back 44 samples, 11 symbols, less
than the margin of 16; the margin is shorter than syncword and header; and the
smallest payload, (1+4)*4 = 20 symbols, is longer than the margin. TLC checks it
for the sizes of each run, and the proofs use nothing else.

`RestartInit` is a receiver that is started again; `FirstInit` one that was just
built. They differ because `PayloadMetadataInsert::start()` leaves
`_payload_symbols` alone.

### LatencyRegion

The latency management of the transmitter: a limiter at the entry (TunSource or
`PacketLimiter<Pdu>`), `PacketIngress<Pdu>` as the first block inside, which drops
packets that are too long, a counter at the exit (PacketToStream or PacketCounter),
and the count messages. Counters are unsigned and wrap at `Modulus`. Packets have no
identity: only their number matters. The pipeline between ingress and counter may
hold any number of packets: its only bound is the limit itself. TunSource admits one
packet per call and PacketLimiter several; `Limit(seen, offered)` covers both. The
counter of a PDU stream may count several in a call.

### PacketIngress, CrcAppend, PacketMux

The stream forms of three blocks of the transmitter, one action per way a call
of the handler can go. Packets in these streams are delimited by a length tag on
their first item, and every block counts down from it. A call is given the
length in the tag and the size of the chunk and of the output space; it yields
what it consumes and publishes. CrcAppend and PacketMux have asynchronous ports,
so the space is anything; PacketMux's loop over its inputs is one step, in which
`Takes` says what is copied from each.

The unsigned subtraction in CrcAppend is modelled by its result below zero,
which no chunk can satisfy (`Fail`).

### PacketAssembly and PacketFraming

`PacketAssembly` is the front of `packet_transmitter.hpp`: the three modules
above, `Format` (HeaderFormatter) and `Encode` (HeaderFecEncoder), connected by
the links `metadata`, `plain`, `headers` on the way of the header and `data`,
`payload` on the way of the payload. An item carries as ghost data the packet
and the place it comes from; the tag is its field `bits`. Nothing in the code
says which header belongs to which payload.

`PacketFraming` is the abstract specification: a queue of accepted packets, each
of which leaves as one frame with the right length. `FramesInOrder` is the
refinement: the queue is the ghost `accepted`, the number of items sent is
computed from the state of PacketMux (`Sent`), and the items sent must be those
of the frame.

`AssemblyAssumption` has two kinds of conditions. A codeword fits in `headers`,
and a CRC and an item in `payload`: without them nothing can move. And
`metadata` holds more messages than there can be packets in `data` and
`payload`: PacketIngress asserts room for a message in every call
(`packet_ingress.hpp:64`), and as no header overtakes its payload for good, the
back-pressure of the payloads is what keeps the messages from filling their
buffer. The code does not set the sizes of its buffers; with packets of more
than a few items any sizes satisfy the condition. `PacketAssembly_proofs` shows that
the conditions are enough.

The runtime is not in the repository. The model takes it that a call of
CrcAppend has output space, and within a packet items too, unless `EmptySpans`
is set.

### The chain before the loop: SyncwordDetection and SymbolSync

`SyncwordDetection` is the search of `syncword_detection.hpp`. A call (`Search`)
goes through as many blocks of `fft_size - syncword + 1` correlations as input
and output allow; for each sample it keeps the best power in `best`, and when
`time_threshold` samples have not bettered it compares it with the median of its
surroundings and puts the tag into the history, by unsigned differences of
indices that wrap at `Modulus`. The correlations are the input, any member of
`Powers`; the properties follow them in a ghost window.

`SymbolSync` composes `CoarseFrequencyCorrection` and `SymbolFilter`, each with
its handler as an operator over a chunk that is folded sample by sample. The
first delays the frequency of a detection by the length of the next filter; the
second resets its clock so that the delayed first symbol is sampled at phase 0,
with two special cases when that moves an output instant across the detection,
and keeps a list of tags whose indices count down to their symbol. Samples are
known by their detection and their age, so that `SampledOnTime` (phase),
`TagOnSymbol`, `NoSymbolLostOrRepeated` and `FrequencyOfPacket` can be said of
the output alone.

### The chain of symbols: SymbolDecoding

SyncwordWipeoff, CostasLoop, SyncwordRemove, ConstellationLLRDecoder and
AdditiveScrambler, joined by bounded links and called on chunks of any size.
The first and the third, which count through a syncword alike, are the two
instances of `SyncwordBlocks`, and the last has a module of its own; of the Costas loop
(`Track`) and the soft decoder (`Decode`) only the settings that tags change are
control, and they are actions of `SymbolDecoding`. PayloadMetadataInsert, modelled
elsewhere, appears as what it does to this stream: it drops noise and adds tags
at header and payload. The scrambler has the real shift register (as the set of
its bits that are one), of any length up to the 64 bits of the code; its state is compared with the form for PDUs, which
begins each packet with the seed. The settings of a tag reach a block before
the call that has the tag, and a second detection inside the end margin of
a packet is left to `PacketReceiver`.

### The branch of the payload: PayloadBranch and PacketDelivery

PackBits, CrcCheck, PacketTypeFilter and TaggedStreamToPdu up to the TUN device.
`PacketDelivery` is what they promise: a queue of packets that arrive, each of
which is dropped or written whole; only a damaged or unwanted one is dropped, and
only the first is written. `WritesWantedPackets` is the refinement. CrcCheck waits
until a whole packet is in its input; the capacities are at least that, and
`hazards` names what becomes of a longer packet.

### The middle of the transmitter: PacketModulation

From the frames of the first PacketMux to the symbols for the second: UnpackBits,
AdditiveScrambler (its module, with the real register), PackBits and Mapper, with the
values of the items. The blocks run at three rates, cut their streams anywhere, and
only the length tag, which each adjusts, tells the scrambler where a frame begins.
`ModulatesInStep` compares the symbols with those of the frame taken as one number,
scrambled as a PDU and written in the digits of the constellation. PackBits has a
module of its own (for `PayloadBranch`) in which bits are known by their place; here
they have values.

### The back of the transmitter: BurstTransmitter and BurstTransmission

The stream form in burst mode after the modulator: VectorSource with the
syncword, two StreamToTaggedStream for the ramp-down and the flush, the second
PacketMux, InterpolatingFirFilter, MultiplyPacketLenTag and BurstShaper. The four
sources run freely; nothing but counting keeps their parts of a burst together.
The filter's memory is kept as the symbols themselves, and a sample is the set
of symbols under the taps, so that a burst that still holds energy of the
burst before is seen. `BurstTransmission` says: the accepted packets leave in order,
each as one burst with syncword, payload, ramp-down and flush, with its length, its
ramps, and without anything of another burst. `BurstTransmitter_proofs` shows it for all sizes.

### The transmitter for PDUs: PduTransmitter, BurstStream and LatencyRegion

`packet_transmitter_pdu.hpp` with TunSource before it. `PduBlocks` has, for each
block, the operator that maps one PDU (data and tags with their places), and
PduToTaggedStream;
`PduTransmitter` has an action per block, with every link of the graph in
the function `links`, and both modes. The end is `PacketToStream` (its PDU and its
stream form are both in that module) in burst mode, and in stream mode
PduToTaggedStream, the filter and PacketCounter.

It implements two specifications. `BurstStream`: bursts leave in the order of
acceptance, whole, zeros only between bursts (`BurstsInOrder`). And `LatencyRegion`
with the number of packets in its links for `inside` (`IsRegion`), so that what is
proved of the region holds here. `ContinuousStream` is the other user of
PacketToStream: a stream of tagged bursts between a transmitter of samples and a
sink with its own rate, again as a `BurstStream`.

### BurstShaper

Both forms of the handler: `Chunk` for the stream, `Shaped` for PDUs. What an item
is multiplied by is a pair of shape and index. `FormsAgree` says that each item
published by the first is what the second gives at its place.

### Crc

The constructor with its table, `initialize()`, the two ways of `update`, and
`finalize()`; words are sets of bits, exclusive or is the symmetric difference.
The reference (`IsTheRemainder`) is long division of the message polynomial.
The initial value is that of the register: with reflected input it is taken as
it is and not reflected, which the comparison needs. The module keeps its functions
recursive, and so is checked only.

### PfbArbResampler

The handler and `settingsChanged()`: the arm and the fraction of an arm of the next
output, the inputs that have to be consumed first, the history across calls with
short spans, and new rates and taps at any time between calls. The rate is a
fraction and nothing is rounded, so `OutputsOnTime` compares each output with its
exact time.

### ProbeRate

The block with a thread of its own that waits on a condition variable: the
owner's start(), stop(), pause() and resume() step by step (set the flag under
the lock, notify, join), the worker's wait with spurious wake-ups, the mutex,
the counter that processBulk() increments without a lock, its unsigned
differences and the report. Time is a clock that ticks at any moment. That each
report is right (`ReportsRight`) is proved in `MCBlocks_proofs`.

### MCReceiverBlocks and MCBlocks

Two modules for TLC put parts that do not meet each other in one instance: a
variable says which of them a behaviour is about, and the others rest. Their
next-state relations are those of the parts, and their properties are theirs,
joined where they are about one question. `MCReceiverBlocks` has the stretches of
the receiver (the search for syncwords, the filter, the symbol clock, the chain of
symbols), `MCBlocks` the rest (BurstShaper, Crc, PfbArbResampler, ProbeRate,
ContinuousStream and PacketModulation). `MCReceiverBlocks` has the constants of all its
parts, so that `MCReceiverBlocks_proofs` and `SymbolDecoding_proofs` speak of every
value; `MCBlocks` has those of BurstShaper and ProbeRate, for `MCBlocks_proofs`, and
gives the constants of its other parts itself.

## 3. Runs

| run | what it checks | instance | states |
|---|---|---|---|
| `receiver` | every message is applied to its own packet (`InsertUsesOwnHeader`, `FilterUsesOwnMessage`); both blocks compute the same end (`BlocksAgreeOnEnd`); the splitter never throws; at most one header in flight; a detection is ignored only in the end margin; packets end after their header; both blocks leave every packet (`PacketsEnd`) | sizes 2/3/3, three lengths, delay 2, chunks up to 4 | 36 891 |
| `receiver_quiet` | finding 1, below | sizes 1/2/2, two lengths, delay 1, chunks up to 3, `Log = FALSE` | violation |
| `receiver_first` | finding 2 | sizes of `receiver`, from `FirstInit` | violation |
| `receiver_blocks` | the filter's lookahead and its closing (`BoundedLookahead`, `ClosesLate`); detections (`DetectionsRight`); the symbol clock and its tags (`SymbolsOnTime`), the frequency (`FrequencyOfPacket`); the chain of symbols (`SymbolsOfOwnPacket`) and the descrambler (`DescramblesInStep`) | below | 89 615 |
| `latency` | `RegionBounded`, `WindowExact`, `ClosedOnlyByDrops` | counters modulo 8, limit 3, up to 4 packets offered, drops | 315 |
| `latency_unset` | finding 3 | the same without drops, any first count | violation |
| `assembly` | frames leave in order, whole, with their own header (`FramesInOrder`); no block stops and the ingress always has room for its message (`NoBlockFails`); every packet leaves | headers of 2, CRC of 2, packets of 1 and 3 items and too long ones, links of 1 to 5, output spaces of 1 to 3 | 11 572 |
| `payload` | only good packets of the wanted type are written, whole and in order (`WritesWantedPackets`), each is decided, no block stops | packets of 2 and 3 with a CRC of 1, two bits in a byte, good, damaged and idle ones | 79 325 |
| `burst_tx` | bursts leave in order, whole, with their own length, and clean (`BurstsAreWhole`); none is stuck; no block stops | parts of 1 or 2 symbols, interpolation by 2 with 5 taps, packets of 1 and 2 | 20 760 |
| `pdu_tx` | headers and payloads wait in the same order on both ways, and each accepted packet is in the network once (`PacketsInStep`); bursts leave whole and in order with zeros only between them (`BurstsInOrder`); the network is a latency region (`IsRegion`); every packet is sent | links of one PDU, limit 2, counters modulo 3, packets that are dropped | 33 600 |
| `pdu_tx_stream` | in stream mode tags stay on their items (`TagsMarkPayloads`), bursts in order | the same with user and idle packets, output spaces of 5 and 16 | 101 718 |
| `blocks` | both forms of BurstShaper agree; the CRC is the remainder; the resampler's outputs are on time; every item is reported and no report is early (`ReportsRight`), stop() returns; packets are found in a stream (`StreamInOrder`); frames are modulated as a whole (`ModulatesInStep`) | below | 146 406 |

### Bounds

The receiver's sizes are the smallest for which the margin is larger
than the delay, a payload both ends inside a chunk and spans several, the filter
lets a detection in before, at and after the end of the packet downstream, and a
new packet starts while messages of the last are on their way. The links are
large enough for more than one chunk and small enough to fill up. The state is
finite without a constraint, since positions stay within a packet. `latency` wraps
its counters many times within a cycle of its state graph.

In `assembly` a frame is longer than the largest output space, so that each is
cut in two or more, at any place; `headers` is larger than one codeword and smaller
than two, so that a header waits half sent; packets pile up on both ways
with any lag between them. These links are the smallest with which the network can
work. In `payload` the buffers hold exactly a packet, in `burst_tx` some hold
one symbol or one burst, in the runs for PDUs every link holds one: the
smallest are the ones that could jam. Three identities in a circle (two where
at most two packets meet) tell the neighbours apart, which is what a shifted
pairing would mix.

`receiver_blocks`. The filter has two samples per symbol, sizes 2/3/3 and payloads
shorter and longer than the allowance, chunks up to 5. The search has windows of
three samples (`TimeThreshold` 1), blocks of one correlation, calls of up to four
items, a history of six, and indices that wrap at 5. The symbol clock has 4 samples
per symbol, delays of three of the four remainders and detections at every clock
phase, 13 samples apart or more. The chain of symbols has packets with a syncword
and a header of two symbols and payloads of none to two, links of two symbols and of
three soft bits (so that a QPSK symbol can be left over), and a register of four
bits; mask and seed are words of the register (`ScramblerAssumption`).

`blocks`. BurstShaper has shapes of 3 and 4 and packets from one item to 11,
shorter and longer than both together. The CRC has bytes of two bits and
words of 2 to 4, so that the width is one byte, two, and between: all
polynomials, both directions, messages of up to two bytes. The resampler
has three arms, rates from 1/5 to 4, and calls of up to three items
each way. ProbeRate has an interval of two ticks and a counter modulo 3 which
wraps in it. The stream has bursts of 1 to 3 items in portions of 1 to 3. The
modulation has bytes of four bits, symbols of two and frames of one and two bytes,
none of which reads the same from its other end; a link of five bits
between scrambler and packer leaves one over; a frame is shorter than the period of
the register, so that one that is not reset is seen.

### Fairness

In `receiver`, `WF` on one step of each block: the scheduler calls every block whose
inputs and outputs allow it, and samples keep arriving. In `latency` the limiter's
fairness is that of a call that sees all messages and is offered a packet (idle
packets or traffic), since the code reads all of `countSpan` on every call.
`assembly` has `WF` of the ingress and of the others together. `payload`, `burst_tx`
and `pdu_tx` assume only `WF` of the next-state relation: if some block can do
something, some block will. That is less than the scheduler gives, which calls every
block, so the progress they show needs no block to be favoured: the networks cannot
go round without sending. ProbeRate's threads have weak fairness, and strong
fairness where they compete for the mutex or wait for a notification; time need not
pass, so `StopReturns` does not lean on the interval. No fairness of particular
chunks, detections or decoding results is assumed anywhere.

The runs check deadlock: no reachable state of the networks is stuck, queues full or
not.

### Findings

1. `receiver_quiet`. PayloadMetadataInsert reports an ignored detection only if
   `log` is set (`payload_metadata_insert.hpp:127-145`), and it is not by default.
   Without the report SyncwordDetectionFilter waits for an answer that never
   comes, and the receiver stops.
2. `receiver_first`. The end of the packet is tested with the payload length of the
   packet before (`payload_metadata_insert.hpp:274`), 0 in a new block: when a
   chunk ends exactly with the first header, the first packet is dropped there
   and its header message is taken for the next packet. After the first packet
   the stale length is harmless, which `EndsAfterHeader` in run `receiver` shows.
3. `latency_unset`. `PacketCounter<Pdu<T>>` never initialises `_count`.

The models show other disagreements of code and comments. No run is kept for
them; a property of the module and the constants that violate it are named here.

* `LatencyRegion` with `Oversize = TRUE` violates `KeepsAdmitting`: a packet that
  PacketIngress drops (`packet_ingress.hpp:194`) was counted at the entry and never
  leaves, and after `max_packets` of them the region is closed for ever. TunSource
  cannot read packets that long; PacketLimiter with another source can be given
  them. `ClosedOnlyByDrops` shows that nothing else closes it.
* `PacketAssembly` with `EmptySpans = TRUE` violates `KeepsWithoutRoom`: when there
  is no output space CrcAppend decrements an unsigned zero (`crc_append.hpp:158`),
  and the call throws. Section 4 shows for all sizes that this takes an empty span;
  whether the runtime ever makes such a call is not in the repository, but the port
  is declared asynchronous.
* `BurstShaper` violates `LastItemsTrailed` with a packet shorter than its two
  shapes together: what the leading shape has multiplied the trailing one leaves
  alone, in both forms, while `burst_shaper.hpp:23` has the last items multiplied.
* `SyncwordDetection` violates `MaximumOfWindow`: the search begins anew at the item
  that closes a window (`syncword_detection.hpp:296`), so a detection may have a
  better item less than `time_threshold` before it, against line 44. Detections are
  still apart.
* `SymbolSync` with `SamplesPerSymbol = 2`, `FreqDelay = 6`, `Delays = {8}` violates
  `SampledOnTime`: the first special case (`symbol_filter.hpp:182`) leaves the clock
  phase at 2 without the wrap of line 232. The applications use 4.
* `SymbolSync` with four samples per symbol, `Delays = {9}` and `MinGap = 14`
  violates `TagOnSymbol`: the second special case takes an item without the
  decrement of the pending tags that the first has (lines 183-188), and with this
  remainder the tag goes to the next symbol. The receiver's delay is 44.

## 4. Proofs

`MCReceiverBlocks_proofs` has the proofs of four blocks of the receiver.

SyncwordDetectionFilter, for all sizes, lengths and chunks, from
`SizesAssumption` (positive sizes, and a margin smaller than syncword and header
together, so that the unsigned subtraction in `_block_until` does not wrap):

* `TypeCorrect`, `LookaheadBounded`: `TypeOK /\ BoundedLookahead` is inductive. The
  case that needs the induction is a call that starts beyond the allowance: then
  the length is known, since the position is below `_block_until`;
* `NeverClosesEarly`: the action property `ClosesLate`, from the same lemma about
  one call.

SyncwordDetection, for all windows, thresholds, powers, capacities of the history,
widths of the indices and cuttings into calls, from `DetectionAssumption` (the history
and the indices are longer than a window): `DetectionsRightHolds`, that no syncword is
missed, that its mark is on its own sample, and that detections are apart. The block
keeps the best power and its index, and a history that moves under it; `SearchInv` says
what they have to do with each other:

* `BestAt`: the age of the best sample (`Behind`, the difference of two indices that
  wrap) is at most a window, its place in the history has that power, nothing behind it
  exceeds it, and any sample that tops its window so far is that one. A sample that is
  beaten can therefore not have topped its window, also not by samples to come;
* `MarksRight`: marks are further back than a window behind the best sample, more than
  a window from each other, and on samples that stand out; each sample this far back
  that topped its window has one. The mark is put at a place computed from the two
  indices, which is the one of the best sample (`Behind` again) and not yet in what has
  left the block;
* `Leaves`: what a call has published is the end of the history.

Two lemmas give the two things a sample can do, close the window (`OpensAnew` begins
anew at that very sample, as the code does) or go on. The code compares with the median
of the newest samples; they are the window of the best sample just when that is closed.

CoarseFrequencyCorrection between the clock of the receiver and SymbolFilter, for all
delays, distances of detections above it and cuttings into calls, from
`GapAssumption`: `FrequencyOfPacketHolds`. The block knows no sample, only the
frequency it has, the one that waits and a count. `FreqInv` ties them to the last
sample of the clock: its packet is that of the frequency that waits, and its age gives
the count (`FreqAt`; after the delay it is -1, but 0 in a block that was just started).
Detections in a row have different
identities, and with a distance above the delay the frequency that waits was taken
before the next comes.

SymbolFilter, in the same place, for four samples in a symbol, all delays but those with
the remainder one by four, all distances of detections above the delay, and all cuttings
into calls: `SymbolsOnTimeHolds`. Neither condition (`FourSamples`) is idle. With that
remainder an early tag goes to the next symbol (section 3, Findings); with two or three
samples in a symbol the special cases leave the clock or the tag wrong; and with five or
more they do not cover the moves of the clock that lose or repeat most of a symbol (TLC
shows each for `SymbolSync` with these constants). The receiver has four, and a delay
of 44.
The block knows only its clock and the tag that waits; `SymbolInv` says that behind the
last sample the filter took, both follow from the age of that sample:

* `ClockAfter`: the clock is the age, counted from the first symbol of the sample's
  packet, by four. So it is right at once after a detection, though the symbols until
  the first one are then taken on the clock of the packet that comes;
* `TagsAfter`: a tag waits exactly until the first symbol of its packet, for as many
  samples as there are left, or one more when the second special case took an item
  without the decrement of the first. Both are due at the first symbol and not at the
  one before, which is where the remainder matters;
* `DriftAfter`: samples less four for each symbol, since the last symbol with a tag, is
  what the clock says, and up to the first symbol of a packet at most two off;
* `LinkFrom`: the samples on the link continue from there.

`DetectKeeps` shows it of a detection, with one lemma for each special case;
`LoopStep4` of one turn of the loop, and `CallSteps` of all samples of a call. `OutIs`
and `MeasureIs` say of the call what its symbols are and what they do to the drift.

Calls of the three blocks are loops, which the modules write as folds over the samples
of a call. The folds of the library go over a function on all subsets of the indices,
so the proofs begin by showing that this function exists (`Folds`, `FoldsExist`, by
the least counterexample, since induction over data is out of reach) and that the loop
is a sequence of steps (`SearchIs`, `RunFolds`, `FromFolds`, `LoopFolds`,
`MeasureFolds`); a call then keeps the invariant by the least step that would break it
(`CallSearches`, `CallRotates`, `CallSteps`). TLC checked the three invariants on the
instance of run `receiver_blocks` first.

`SymbolDecoding_proofs`, for all sizes of syncword, header and payloads, all links and
cuttings into calls, and every register, seed and count, from `ScramblerAssumption` and
`DecodingAssumption` (sizes are positive, and the words of the scrambler fit its
register):

* `ChainInv`, the invariant. Between the blocks nothing counts symbols but the blocks
  themselves, each from the last tag it saw; so the invariant names the symbol that each
  block is behind. On the link before it, every item follows the one before as it does in
  the packets (`Succeeds`, and `DecodedAfter` once the syncwords are removed), and the
  counters of the block follow from that one symbol (`SourceAt`, `TrackedAt`,
  `RemovedAt`, `SoftAt`). Behind bit p, the register and the count of the descrambler
  are those of the form for PDUs after p bits of a packet (`ScrambledAt`);
* `SymbolsOfOwnPacketHolds` and `DescramblesInStepHolds` are read off it.

There is one lemma for each block that calls (`WipeKeeps`, `TrackKeeps`, `DropKeeps`,
`DecodeKeeps`, `DescrambleKeeps`), and the others' parts are kept as they share no
variable with it. In the descrambler a call is a fold again: `ScrambleFolds` unfolds it,
`PduFolds` the form for PDUs, and `DescramblesAll` compares the two bit by bit, from
the last header on.

`PacketReceiver_proofs`, for all sizes, lengths, chunks, link capacities and
interleavings, with or without reports of ignored detections, from
`ReceiverAssumption`: the seven safety properties of run `receiver`, of a receiver
that is started again (`RestartSpec`). None of them is inductive; the invariant
`Inv` says where everything is, in terms of the two packets that the loop can know,
`sdf_id` and `pmi_id`:

* the chain. A detection in it is that of the filter's packet, of which nothing
  else has a trace (`TagOfFilter`); when both blocks are in the same packet, their
  positions differ by what the chain holds (`SamePlace`);
* the detection behind a packet. `TagAfterPacket` is the heart of it: when a
  detection is i symbols behind the insert block and that is still in a packet,
  its position plus i is in the margin at the end of the packet, or its message is
  there. So the insert block never meets a detection in a header, and ignores one
  only in its margin. `ClosedBehind` and `IgnoredBehind` say the same of a filter
  that has left, and of one whose detection was ignored;
* the messages. A header without a message is that of the packet for which the
  filter waits (`Undecoded`); a message is of the packet of its reader, and whether
  the other reader has still to read it decides how the filter knows its end
  (`MessageOfInsert`, `MessageOfFilter`, `EndAgreed`). A report and a header message
  never wait together, since a report comes from a detection of the next packet;
* the items. The link to the splitter holds the rest of a payload or a part of a
  header, whose length the splitter's and the insert block's counts give exactly
  (`InPayload`, `BeforePayload`, `InHeader`, `HeaderDone`): the splitter, which only
  counts, is always where the tags are.

The proof goes by the effects of a call: `FilterEffect` (three) and `InsertEffect`
(six) reduce a handler to what it does to the state, once, and one lemma for each
effect shows that the invariant is preserved. TLC checked the invariant with the
constants of run `receiver` first. A receiver that was just built is not covered: it
violates `EndsAfterHeader` (section 3).

`LatencyRegion` (its proofs are at its end), for every modulus, limit below it, delay of messages and
size of calls, from `LimitAssumption`:

* lemmas about unsigned counters: two additions are one (`WrapAdd`), and a
  difference moves with its arguments while it stays below the modulus
  (`MinusLess`, `MinusMore`);
* `RegionAlwaysBounded`, `WindowAlwaysExact`, `TypeCorrect`: `RegionBounded` is
  not inductive. The invariant adds that the limiter's difference of counters is
  exact and at most the limit, and that the messages on their way count on from
  the last count seen, without gap, to the count of the counter
  (`CountsConsecutive`); so taking only the last message loses nothing.

The property `IsRegion` of `pdu_tx` is that the transmitter for PDUs behaves as this
module, so the proved bounds are bounds on its links, for the instance of the run.

`MCBlocks_proofs` has the proofs of two blocks that work on their own.

BurstShaper, for all lengths of packets, shapes and chunks, from `ShaperAssumption`:
`ShaperTypeCorrect`, and `FormsAlwaysAgree`, that the stream form, however the packet is cut, multiplies every item by what the form for PDUs does.
`FormsAgree` speaks of the last call only; the invariant adds that the count of what
remains and the place in the packet are those of the length announced
(`Counts`), from which `ChunkShaped` shows, by cases on where a chunk stands
against the two shapes, that the items of a call have the shapes of their
places.

ProbeRate, for every interval and counter, from `ProbeAssumption`:
`ReportsRightHolds`. The invariant (`ProbeInv`) adds that a wait began no
earlier than its interval (`WaitsInInterval`), so that the worker is past the wait only
when the whole interval is over or it has to stop (`WholeInterval`).

`PacketAssembly_proofs`, for all lengths of packets and CRCs, all capacities of links
and all sizes of calls that satisfy `AssemblyAssumption`, without empty spans
(`~EmptySpans`, with which the code does fail, section 3):

* `AssemblyInv`, the invariant. Nothing but order ties a header to its payload, so the
  invariant gives each accepted packet its place on both ways: packet k begins behind
  item `header_at[k]` of `headers`, `payload_at[k]` of `payload` and `data_at[k]` of
  `data`, negative when items are gone. `HeaderWay` says that the coded headers are
  those of the first packets and that headers and messages of the others wait in
  order; `PayloadWay` that CrcAppend is in one packet, with the packets before it in
  `payload` and those behind it in `data`, items and tags; `MuxInPacket` that the
  lengths the multiplexer took are those of the first packet; `ComesLast` that
  PacketIngress is in the last one;
* `NoBlockFailsHolds`: no handler throws or asserts in vain. The deep case is the
  assertion of PacketIngress (`packet_ingress.hpp:64`): first items of packets are at
  least a packet apart in `data` and `payload` (`PayloadSpaced`, `DataSpaced`), which
  bounds the packets in the payload links, and there are no more messages than
  those (`RoomForMessage`);
* `FramesInOrderHolds`: the refinement of `PacketFraming`, step by step. A call of
  PacketIngress that opens a packet is `Accept`, a call of PacketMux that publishes is
  `Send` of as many items (`MuxSends`, `MuxFrames`), which are the next items of the
  frame of the first packet not yet sent (`FrameProperties`, `SentAfter`); all other
  steps stutter.

The handlers with loops are reduced to their effects once (`MuxEffect`, `CrcEffect`,
`IngressEffect`). Of CrcAppend alone the module shows, for every size of packet, chunk,
CRC and space, that a call that copies fits in its spans, CRC included (`CopyFits`),
since the item that is kept back leaves the packet unfinished (`ConsumesBounds`), and
that with an item and a place the subtraction does not wrap (`NeverWrapsWithItems`). TLC checked the invariant on the instance of run `assembly` first.
The proof also found CASE expressions with overlapping guards in three modules, where
TLC takes the first and the logic any: they have disjoint guards now.

`PayloadBranch_proofs`, for all lengths of packets, CRCs and links, all sizes of calls,
packets of any kind in any order, and tags that are offered again or not, from
`BranchAssumption`:

* `BranchInv`, the invariant. It cuts the pending packets in four lists that lie one
  behind the other (`Cut`): those whose PDU is ready, those of which the filter has
  begun to pass items on, those behind CrcCheck and those before it. As in the packet
  assembly a list has places: packet k begins behind item `at[k]` of its link. Bits and
  bytes are two links of one list, and the place in one is `InputsPerOutput` times the
  place in the other less the bytes there are (`ArrivingAt`), so that no byte is made of
  bits of two packets. CrcCheck remembers the length of the first packet or none, and
  sees a tag for the second time or not at all only when it does (`LengthKnown`); a
  packet that passes is the last of those collected (`PassesLast`), and what is in the
  PDU is the beginning of the first of them (`InPdu`);
* `NoBlockFailsHolds`: at the start of a packet each handler has its length tag;
* `WritesWantedPacketsHolds`: the refinement of `PacketDelivery`. The first bit of a
  packet is `Arrive`; a packet that CrcCheck or PacketTypeFilter drops leaves its list
  from the front, which removes that packet from `pending` and no other
  (`WithoutIsRemoval`, from the different ids), a `Discard`; a step from list to list
  (`ListsChecked`, `ListsPassed`, `ListsReady`) leaves `pending` as it is, and stutters;
  TunSink writes the PDU of the first packet (`FirstIsReady`, `WritesPdu`).

A lemma for each handler reduces its call to one of two or three effects (`CheckCall`,
`FilterCall`, `PduCall`; `BitsArePacked`), and one for each effect shows what becomes of
the lists. TLC checked the invariant on the instance of run `payload` first.

`BurstTransmitter_proofs`, for all lengths of packets and of the other parts of a burst,
all ramps, taps and rates, all capacities of links and sizes of calls, from
`BurstAssumption`: the flush is as long as the memory of the filter and the shortest
burst is not shorter than its ramps (the rest says that parts and links have sizes; the
flush has 11 symbols, `packet_transmitter.hpp:117`):

* `BurstInv`, the invariant. The four sources know nothing of the packets and of each
  other, so it gives each burst of the queue its place twice: burst k begins behind item
  `at[k]` of `muxed`, and so behind item `at[k] * Interpolation + c` of a link of samples,
  if c of them are nearer to the output (`BurstsAt`); its packet begins behind item
  `pat[k]` of `packets` (`PacketsAt`). The multiplexer is in burst j, or before it, and
  the lengths it has taken are those of burst j's parts (`MuxAt`); the link of each other
  source begins with the rest of its part of burst j and goes on with whole parts
  (`RowsAt`), which keeps sources in step that only count. In a burst the shaper knows the
  length of the first one of the queue (`ShaperInBurst`);
* `HistoryAt`, the part about the filter's memory: wherever the filter is, its last
  symbols are those of its burst, and before the burst's first symbol zeros. That this
  comes back at the end of every burst needs the flush to be as long as the memory
  (`Forgotten`);
* `NoBlockFailsHolds`: no block asserts or throws. At the start of a burst each of the
  multiplexer's inputs and the shaper find a length tag, and the multiplied length is
  that of the burst in samples;
* `BurstsAreWholeHolds`: the refinement of `BurstTransmission`, step by step. The first
  symbol of a packet is `Accept`; a call of BurstShaper is `Send` of as many samples
  (`ShapeCalls`), the next of the first burst, each the sum of the right symbols
  (`SumIs`, `SeesMore`) under the right envelope (`EnvelopeIs`, from `ChunkShaped`); and
  every other step stutters.

Each handler is reduced to its effect (`FilterCalls`, `ShapeCalls`, and one lemma for
each way a call of the multiplexer ends, in the middle of a burst or with it:
`MuxGoesOnKeeps`, `MuxEndsKeeps`), and one lemma for each shows what becomes of the
places; when a burst has left, the bursts behind it are shown to be where they were, one
place on in the queue (`ShapeEnds`). The identities turn in a circle, with the lemmas about
remainders proved from the division theorem. TLC checked the invariant on the
instance of run `burst_tx` first.

Only model-checked: the network `PduTransmitter` with its
refinements, the modulation of frames, the CRC (recursive functions), the resampler, and all liveness
(`EveryPacketLeaves` and the like), which is beyond the prover.

## 5. What is not modelled

* Numerical work: correlation, filters, phases, soft bits, LDPC, the average of
  ProbeRate, Rotator, `firdes.hpp` and the tables of taps.
* I/O: TUN, files, ZMQ, printing; random and noise sources.
* Helpers for experiments and tests (Head, Throttle, PacketStrobe, ItemStrobe,
  TagGate, MessageStrobe, VectorSink, FileSource, FileSink): each counts for itself
  and interacts with no other block. StreamToPdu is only the cutting of the
  ramp-down in `PduTransmitter`.
* `packet_transmitter.hpp` in stream mode. In burst mode its front, middle and back
  are three models: `FramesInOrder` gives the frames of `PacketModulation`,
  `ModulatesInStep` the tagged symbols of `BurstTransmitter`.
* The receiver as one model. `PacketReceiver` has the feedback, the others the
  stretches between, with the promise that each makes to the next as its property
  and the other's assumption: `DetectionsRight` is the distance of detections in
  `SymbolSync` and `PacketReceiver`, `SymbolsOnTime` the symbols of
  `SymbolDecoding`, `SplitNeverThrows` the packets of `PayloadBranch`.
* stop() of a ProbeRate that is paused, which joins a thread twice
  (`probe_rate.hpp:92`): which calls the runtime makes is not in the repository.

Exceptions end the model of a block (`hps_failed`, `crc_failed`, `mux_failed`,
`refused` and the like), and `NoBlockFails` says that there are none; in
`PduTransmitter` a block that fails would leave its packets where they are, against
`EveryPacketSent`. The GNU Radio
runtime is not in the repository; from the code it is taken that it calls blocks in
any order, gives chunks aligned with tags, keeps buffers in order, delivers a
message to every reader, and applies the settings in a tag before the call. Whether
a tag is offered again to the next call when its item was not consumed is a question
on which the comments of the repository disagree (`crc_check.hpp:112`,
`tagged_stream_to_pdu.hpp:149`): each model takes what its block is written for. The
hazards at `header_fec_encoder.hpp:69` and `packet_mux.hpp:140` depend on the
runtime and have no property, like `crc_append.hpp:158` and `probe_rate.hpp:92`.

## 6. Plan

1. Done: the modules of section 2 and the proofs of section 4.
2. Proofs: that the arms of PfbArbResampler are those of its outputs' times; the
   invariant of PduTransmitter.
3. A packet tracker (idle, open, length known) as the abstract specification of
   PacketReceiver.
4. Stream mode of `packet_transmitter.hpp`; HeaderFormatter and HeaderParser as
   operators with their round trip.
