--------------------------- MODULE BurstTransmitter ---------------------------
(***************************************************************************)
(* The back of the transmitter in burst mode (packet_transmitter.hpp).     *)
(*                                                                         *)
(*   VectorSource, modulator  -- syncword --+                              *)
(*   modulator of the packets -- packets  --+                              *)
(*   StreamToTaggedStream     -- ramp_down -+- Mux -> muxed -> Filter      *)
(*   StreamToTaggedStream     -- flush -----+                              *)
(*                                                                         *)
(*   -> filtered -> MultiplyPacketLenTag -> scaled -> BurstShaper -> out   *)
(*                                                                         *)
(* The sources run on their own and say nothing of the packets: the        *)
(* multiplexer takes one packet of each.  A symbol is a record: the burst  *)
(* that it is meant for (ghost), the part of the burst, its place in that  *)
(* part and the length in its tag.  The modulators map item to item and    *)
(* are not drawn; the ramp-down symbols are tagged before their bits are   *)
(* packed, which divides the length with the bits.                         *)
(***************************************************************************)
EXTENDS Integers, Sequences

CONSTANTS
  Interpolation,    (* samples_per_symbol                                  *)
  NumTaps,          (* the taps of the RRC filter                          *)
  SyncwordSize, RampDownSize, FlushSize,
  Leading, Trailing,
  Lengths,          (* the lengths of packets in symbols                   *)
  SyncwordCapacity, (* bound: items in syncword                            *)
  PacketsCapacity,  (* bound: items in packets                             *)
  RampDownCapacity, (* bound: items in ramp_down                           *)
  FlushCapacity,    (* bound: items in flush                               *)
  MuxedCapacity,    (* bound: items in muxed                               *)
  FilteredCapacity, (* bound: items in filtered                            *)
  ScaledCapacity,   (* bound: items in scaled                              *)
  NumIds            (* bound: identities of bursts, reused in a circle     *)

(* The flush is long enough for the filter to forget the burst, and the    *)
(* shortest burst is not shorter than its two ramps.                       *)
ASSUME BurstAssumption ==
  /\ Interpolation \in Nat \ {0} /\ NumTaps \in Nat \ {0}
  /\ SyncwordSize \in Nat \ {0} /\ RampDownSize \in Nat \ {0} /\ FlushSize \in Nat \ {0}
  /\ Leading \in Nat /\ Trailing \in Nat
  /\ Lengths \subseteq Nat \ {0} /\ Lengths # {}
  /\ (NumTaps + Interpolation - 1) \div Interpolation <= FlushSize + 1
  /\ \A len \in Lengths :
       Leading + Trailing <= (SyncwordSize + len + RampDownSize + FlushSize) * Interpolation
  /\ \A capacity \in {SyncwordCapacity, PacketsCapacity, RampDownCapacity,
                      FlushCapacity, MuxedCapacity, ScaledCapacity} :
       capacity \in Nat \ {0}
  /\ FilteredCapacity \in Nat /\ FilteredCapacity >= Interpolation
  /\ NumIds \in Nat \ {0}

VARIABLES
  sync_position, syncword, sync_id,
  packet, place, packets,
  ramp_count, ramp_down, ramp_id,
  flush_count, flush,
  mux_packet_lens, mux_current_input, mux_remaining, mux_failed,
  muxed, history, filtered, scaled,
  shaper_remaining, shaper_packet_len, shaper_failed,
  queue,            (* ghost: packets accepted and not yet sent            *)
  out               (* the samples published last                          *)

sync_vars == <<sync_position, syncword, sync_id>>
packet_vars == <<packet, place, packets>>
ramp_vars == <<ramp_count, ramp_down, ramp_id>>
flush_vars == <<flush_count, flush>>
mux_vars == <<mux_packet_lens, mux_current_input, mux_remaining, mux_failed>>
shaper_vars == <<shaper_remaining, shaper_packet_len, shaper_failed>>
vars == <<sync_vars, packet_vars, ramp_vars, flush_vars, mux_vars, muxed,
          history, filtered, scaled, shaper_vars, queue, out>>

Zero == <<0, "flush", 0>>

SYNC == INSTANCE VectorSource
          WITH Size <- SyncwordSize, Tags <- {1}, Repeat <- TRUE,
               position <- sync_position
MUX == INSTANCE PacketMux
         WITH NumInputs <- 4, packet_lens <- mux_packet_lens,
              current_input <- mux_current_input, remaining <- mux_remaining,
              failed <- mux_failed
FIR == INSTANCE InterpolatingFirFilter
SHAPER == INSTANCE BurstShaper
            WITH MaxChunk <- ScaledCapacity, place <- 0,
                 remaining <- shaper_remaining, packet_len <- shaper_packet_len,
                 failed <- shaper_failed

Ids == 1 .. NumIds
Packets == [id : Ids, len : Lengths]

-----------------------------------------------------------------------------
NextId(id) == (id % NumIds) + 1

From(seq, k) == SubSeq(seq, k + 1, Len(seq))

TagAt(seq) == IF seq = <<>> THEN 0 ELSE seq[1].bits

(* A chunk of a synchronous input ends before the next tag. *)
Chunk(link, n) == n <= Len(link) /\ \A i \in 2 .. n : link[i].bits = 0

Symbol(id, part, at, bits) == [of |-> <<id, part, at>>, bits |-> bits]

(* The id of the i-th of items in a row whose parts are size long, if done *)
(* items of the part with this id are there already.                       *)
IdOf(id, done, i, size) == ((id - 1 + (done + i - 1) \div size) % NumIds) + 1

(* One call of the source of the syncword. *)
Syncword(space) ==
  /\ Len(syncword) + space <= SyncwordCapacity
  /\ LET out_items == IF SYNC!Ends(space)
                        THEN SYNC!RestItems(space) \o SYNC!LoopItems(space)
                        ELSE SYNC!RestItems(space)
     IN \E tagged \in SUBSET (1 .. space) :
          /\ SYNC!ProcessBulk(space, out_items, tagged)
          /\ syncword' = syncword
               \o [i \in DOMAIN out_items |->
                    Symbol(IdOf(sync_id, sync_position, i, SyncwordSize), "syncword",
                           out_items[i], IF i \in tagged THEN SyncwordSize ELSE 0)]
          /\ sync_id' = IdOf(sync_id, sync_position, Len(out_items) + 1, SyncwordSize)
  /\ UNCHANGED <<packet_vars, ramp_vars, flush_vars, mux_vars, muxed, history,
                 filtered, scaled, shaper_vars, queue, out>>

(* The next symbol of the packets, from the assembly and the modulator. *)
Packet(len) ==
  /\ Len(packets) < PacketsCapacity
  /\ IF place = packet.len
       THEN /\ packet' = [id |-> NextId(packet.id), len |-> len]
            /\ place' = 1
            /\ packets' = Append(packets, Symbol(packet'.id, "packet", 1, len))
            /\ queue' = Append(queue, packet')
       ELSE /\ place' = place + 1
            /\ packets' = Append(packets, Symbol(packet.id, "packet", place', 0))
            /\ UNCHANGED <<packet, queue>>
  /\ UNCHANGED <<sync_vars, ramp_vars, flush_vars, mux_vars, muxed, history,
                 filtered, scaled, shaper_vars, out>>

(* StreamToTaggedStream (packet-modem/stream_to_tagged_stream.hpp) makes   *)
(* packets of size items of a stream; count items of the current one have  *)
(* come.  The index in the chunk, from 0, of the first item of a packet.   *)
FirstOfPacket(count, size) == IF count = 0 THEN 0 ELSE size - count

(* The length in the tag that each of n items leaves with, 0 if none. *)
LengthTags(count, n, size) ==
  LET first == FirstOfPacket(count, size)
  IN [i \in 1 .. n |-> IF i - 1 >= first /\ (i - 1 - first) % size = 0 THEN size ELSE 0]

(* Mutation: the items are counted over packets. *)
CountOn(count, n, size) == count + n

CountAfter(count, n, size) == (count + n) % size

(* The ramp-down sequence: pseudorandom symbols without end. *)
RampDown(n) ==
  /\ Len(ramp_down) + n <= RampDownCapacity
  /\ LET bits == LengthTags(ramp_count, n, RampDownSize)
     IN ramp_down' = ramp_down
          \o [i \in 1 .. n |->
               Symbol(IdOf(ramp_id, ramp_count, i, RampDownSize), "ramp_down",
                      ((ramp_count + i - 1) % RampDownSize) + 1, bits[i])]
  /\ ramp_count' = CountAfter(ramp_count, n, RampDownSize)
  /\ ramp_id' = IdOf(ramp_id, ramp_count, n + 1, RampDownSize)
  /\ UNCHANGED <<sync_vars, packet_vars, flush_vars, mux_vars, muxed, history,
                 filtered, scaled, shaper_vars, queue, out>>

(* The zeros that flush the filter. *)
Flush(n) ==
  /\ Len(flush) + n <= FlushCapacity
  /\ LET bits == LengthTags(flush_count, n, FlushSize)
     IN flush' = flush \o [i \in 1 .. n |-> [of |-> Zero, bits |-> bits[i]]]
  /\ flush_count' = CountAfter(flush_count, n, FlushSize)
  /\ UNCHANGED <<sync_vars, packet_vars, ramp_vars, mux_vars, muxed, history,
                 filtered, scaled, shaper_vars, queue, out>>

(* One call of PacketMux. *)
Mux(space) ==
  LET inputs == <<syncword, packets, ramp_down, flush>>
      avail  == [j \in 1 .. 4 |-> Len(inputs[j])]
      bits   == [j \in 1 .. 4 |-> TagAt(inputs[j])]
  IN /\ Len(muxed) + space <= MuxedCapacity
     /\ \E taken \in {MUX!Takes(avail, bits, space), [j \in 1 .. 4 |-> 0]} :
          /\ MUX!ProcessBulk(avail, bits, space, taken)
          /\ LET part(j) == SubSeq(inputs[j], 1, taken[j])
                 items == part(1) \o part(2) \o part(3) \o part(4)
             IN muxed' = muxed \o
                  [i \in DOMAIN items |->
                     [items[i] EXCEPT !.bits = IF i = 1 THEN MUX!TagOut(bits) ELSE 0]]
          /\ syncword' = From(syncword, taken[1])
          /\ packets' = From(packets, taken[2])
          /\ ramp_down' = From(ramp_down, taken[3])
          /\ flush' = From(flush, taken[4])
     /\ UNCHANGED <<sync_position, sync_id, packet, place, ramp_count, ramp_id,
                    flush_count, history, filtered, scaled, shaper_vars, queue, out>>

(* One call of the filter; the tag goes with the first sample. *)
Filter(n) ==
  /\ Chunk(muxed, n)
  /\ Len(filtered) + n * Interpolation <= FilteredCapacity
  /\ LET symbols == [i \in 1 .. n |-> muxed[i].of]
         samples == FIR!Filtered(symbols)
     IN /\ FIR!ProcessBulk(symbols, samples)
        /\ filtered' = filtered \o
             [m \in DOMAIN samples |->
                [sum |-> samples[m], bits |-> IF m = 1 THEN muxed[1].bits ELSE 0]]
  /\ muxed' = From(muxed, n)
  /\ UNCHANGED <<sync_vars, packet_vars, ramp_vars, flush_vars, mux_vars,
                 scaled, shaper_vars, queue, out>>

(* Mutation: the length goes on in symbols. *)
InSymbols(bits) == bits

(* MultiplyPacketLenTag: the length of a burst in samples. *)
Multiply(bits) == Interpolation * bits

Scale(n) ==
  /\ Chunk(filtered, n)
  /\ Len(scaled) + n <= ScaledCapacity
  /\ scaled' = scaled \o
       [i \in 1 .. n |-> [filtered[i] EXCEPT !.bits = Multiply(filtered[i].bits)]]
  /\ filtered' = From(filtered, n)
  /\ UNCHANGED <<sync_vars, packet_vars, ramp_vars, flush_vars, mux_vars, muxed,
                 history, shaper_vars, queue, out>>

(* One call of BurstShaper. *)
Shape(n) ==
  /\ Chunk(scaled, n)
  /\ \E shapes \in {[i \in 1 .. n |-> SHAPER!ShapeOf(scaled[1].bits, n, i)], <<>>} :
       /\ SHAPER!ProcessBulk(scaled[1].bits, n, shapes)
       /\ out' = [i \in DOMAIN shapes |->
                    [sum |-> scaled[i].sum, envelope |-> shapes[i],
                     bits |-> scaled[i].bits]]
       /\ scaled' = From(scaled, Len(shapes))
       /\ queue' = IF Len(shapes) > 0 /\ shaper_remaining' = 0 THEN Tail(queue) ELSE queue
  /\ UNCHANGED <<sync_vars, packet_vars, ramp_vars, flush_vars, mux_vars, muxed,
                 history, filtered>>

SyncwordStep == \E space \in 1 .. SyncwordCapacity : Syncword(space)
PacketStep   == \E len \in Lengths : Packet(len)
RampDownStep == \E n \in 1 .. RampDownCapacity : RampDown(n)
FlushStep    == \E n \in 1 .. FlushCapacity : Flush(n)
MuxStep      == \E space \in 1 .. MuxedCapacity : Mux(space)
FilterStep   == \E n \in 1 .. MuxedCapacity : Filter(n)
ScaleStep    == \E n \in 1 .. FilteredCapacity : Scale(n)
ShapeStep    == \E n \in 1 .. ScaledCapacity : Shape(n)

Next ==
  \/ SyncwordStep \/ PacketStep \/ RampDownStep \/ FlushStep
  \/ MuxStep \/ FilterStep \/ ScaleStep \/ ShapeStep

Init ==
  /\ SYNC!Init /\ syncword = <<>> /\ sync_id = 1
  /\ packet = [id |-> NumIds, len |-> CHOOSE len \in Lengths : TRUE]
  /\ place = packet.len /\ packets = <<>>
  /\ ramp_count = 0 /\ ramp_down = <<>> /\ ramp_id = 1
  /\ flush_count = 0 /\ flush = <<>>
  /\ MUX!Init /\ muxed = <<>>
  /\ FIR!Init /\ filtered = <<>> /\ scaled = <<>>
  /\ SHAPER!StreamInit
  /\ queue = <<>> /\ out = <<>>

Spec == Init /\ [][Next]_vars

(* The scheduler goes on: if some block can do something, some block will. *)
FairSpec == Spec /\ WF_vars(Next)

-----------------------------------------------------------------------------
SymbolType == [of : (0 .. NumIds) \X {"syncword", "packet", "ramp_down", "flush"} \X Nat,
               bits : Nat]

TypeOK ==
  /\ sync_position \in 0 .. SyncwordSize - 1 /\ sync_id \in Ids
  /\ packet \in Packets /\ place \in 1 .. packet.len
  /\ ramp_count \in 0 .. RampDownSize - 1 /\ ramp_id \in Ids
  /\ flush_count \in 0 .. FlushSize - 1
  /\ syncword \in Seq(SymbolType) /\ Len(syncword) <= SyncwordCapacity
  /\ packets \in Seq(SymbolType) /\ Len(packets) <= PacketsCapacity
  /\ ramp_down \in Seq(SymbolType) /\ Len(ramp_down) <= RampDownCapacity
  /\ flush \in Seq(SymbolType) /\ Len(flush) <= FlushCapacity
  /\ muxed \in Seq(SymbolType) /\ Len(muxed) <= MuxedCapacity
  /\ Len(filtered) <= FilteredCapacity /\ Len(scaled) <= ScaledCapacity
  /\ shaper_remaining \in Nat /\ shaper_packet_len \in Nat
  /\ {mux_failed, shaper_failed} \subseteq BOOLEAN

(* Besides the types: each of the four inputs of the multiplexer begins    *)
(* its packets with a tag, and so does what comes to the shaper; neither   *)
(* stops (packet_mux.hpp:121, burst_shaper.hpp:71).                        *)
NoBlockFails == TypeOK /\ ~mux_failed /\ ~shaper_failed

Transmission == INSTANCE BurstTransmission
                  WITH sent <- IF shaper_remaining = 0 THEN 0
                               ELSE shaper_packet_len - shaper_remaining

(* What leaves is a burst for every packet, in order: its own syncword,    *)
(* packet and ramp-down, filtered without a trace of the burst before,     *)
(* with the right length and under the right envelope, however the blocks  *)
(* are called.                                                             *)
BurstsAreWhole == Transmission!Spec

(* Every packet is sent: the sources of the syncword, of the ramp-down and *)
(* of the flush keep up, whatever the links hold.                          *)
EveryPacketSent ==
  \A id \in Ids : (queue # <<>> /\ Head(queue).id = id)
                    ~> ~(queue # <<>> /\ Head(queue).id = id)
=============================================================================
