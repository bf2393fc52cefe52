--------------------------- MODULE MCReceiverBlocks ---------------------------
(***************************************************************************)
(* The stretches of the receiver (packet-modem/packet_receiver.hpp) for    *)
(* TLC, each of them alone: the search for syncwords, the filter of        *)
(* detections, the chain from detections to symbols and that from symbols  *)
(* to soft bits.  A behaviour is one of the stretch that was chosen; the   *)
(* others rest.  What each may assume of the one before is in its module;  *)
(* PacketReceiver composes what is between them.                           *)
(*                                                                         *)
(* This module extends that of the filter; the constants of the others are *)
(* its own.  MCReceiverBlocks_proofs has the theorems about the first      *)
(* three, SymbolDecoding_proofs those about the chain of symbols.          *)
(***************************************************************************)
EXTENDS SyncwordDetectionFilter

CONSTANTS
  (* The search for syncwords. *)
  FftSize, SyncwordSamples, TimeThreshold, PowerThreshold, HistoryCapacity,
  Modulus, Powers, MaxAvail,
  (* The symbol clock. *)
  ClockSamples, FreqDelay, Delays, MinGap, LinkCapacity, ClockIds,
  (* The chain of symbols. *)
  ChainSyncword, ChainHeader, ChainLengths, Mask, Seed, Length, Count,
  Capacity, SoftCapacity, NumIds

VARIABLES
  stretch,
  best, best_idx, items_consumed, history, det_out,
  freq, next_freq, next_freq_delay, delay, clock_phase, tags,
  sync_last, link, chunk, sync_out, drift, slip,
  dec_last, payload, wipeoff_in_syncword, wipeoff_position,
  phase, constellation, remove_in_syncword, remove_position,
  llr_constellation, refused, reg, current_count,
  wiped, tracked, removed, soft, dec_out

DET == INSTANCE SyncwordDetection WITH out <- det_out

SYNC == INSTANCE SymbolSync
          WITH SamplesPerSymbol <- ClockSamples, Capacity <- LinkCapacity,
               NumIds <- ClockIds, last <- sync_last, out <- sync_out

DEC == INSTANCE SymbolDecoding
         WITH SyncwordSize <- ChainSyncword, HeaderSize <- ChainHeader,
              Lengths <- ChainLengths, last <- dec_last, out <- dec_out

ASSUME BlocksAssumption ==
  DET!DetectionAssumption /\ SYNC!GapAssumption /\ SYNC!F!SymbolAssumption
    /\ DEC!SCR!ScramblerAssumption /\ DEC!DecodingAssumption

detection_vars == <<best, best_idx, items_consumed, history, det_out>>
filter_vars == <<in_packet, position, block_until>>
sync_vars ==
  <<freq, next_freq, next_freq_delay, delay, clock_phase, tags,
    sync_last, link, chunk, sync_out, drift, slip>>
decoding_vars ==
  <<dec_last, payload, wipeoff_in_syncword, wipeoff_position,
    phase, constellation, remove_in_syncword, remove_position,
    llr_constellation, refused, reg, current_count,
    wiped, tracked, removed, soft, dec_out>>
bench_vars == <<stretch, detection_vars, filter_vars, sync_vars, decoding_vars>>

-----------------------------------------------------------------------------
DetectionStep ==
  /\ stretch = "detection" /\ DET!Next
  /\ UNCHANGED <<stretch, filter_vars, sync_vars, decoding_vars>>

FilterStep ==
  /\ stretch = "filter" /\ Next
  /\ UNCHANGED <<stretch, detection_vars, sync_vars, decoding_vars>>

SyncStep ==
  /\ stretch = "sync" /\ SYNC!Next
  /\ UNCHANGED <<stretch, filter_vars, detection_vars, decoding_vars>>

DecodingStep ==
  /\ stretch = "decoding" /\ DEC!Next
  /\ UNCHANGED <<stretch, filter_vars, detection_vars, sync_vars>>

BenchNext == DetectionStep \/ FilterStep \/ SyncStep \/ DecodingStep

(* Of a stretch that rests one initial state is enough. *)
BenchInit ==
  /\ stretch \in {"detection", "filter", "sync", "decoding"}
  /\ Init /\ DET!Init /\ SYNC!Init /\ DEC!Init
  /\ stretch # "sync" => delay = CHOOSE d \in Delays : TRUE

BenchSpec == BenchInit /\ [][BenchNext]_bench_vars

-----------------------------------------------------------------------------
(* No syncword is missed and its tag is on its own sample, whatever the    *)
(* calls and the ends of blocks of the FFT (syncword_detection.hpp:269-305)*)
(* and detections are as far apart as the blocks behind rely on.           *)
DetectionsRight == DET!TypeOK /\ DET!DetectsMaxima /\ DET!DetectionsApart

(* One symbol for each symbol's time, with the tag on the first, through   *)
(* the special cases of a clock that moves (symbol_filter.hpp:158-197).    *)
SymbolsOnTime ==
  /\ SYNC!TypeOK
  /\ SYNC!SampledOnTime /\ SYNC!TagOnSymbol /\ SYNC!NoSymbolLostOrRepeated

(* A sample is rotated by the frequency of its own packet from the delay   *)
(* of the filter on (coarse_frequency_correction.hpp:79-91).               *)
FrequencyOfPacket == SYNC!FrequencyOfPacket

(* Every symbol is treated as the one it is: the syncword is wiped off,    *)
(* tracked as a pilot and removed, symbol by symbol, and nothing else is,  *)
(* through four blocks that count on their own                             *)
(* (syncword_wipeoff.hpp:67, costas_loop.hpp:103, syncword_remove.hpp:51). *)
SymbolsOfOwnPacket ==
  /\ DEC!TypeOK
  /\ DEC!WipesOwnSymbols /\ DEC!TracksOwnPacket /\ DEC!NoPilotDecoded

(* The descrambler inverts what the scrambler did, though its reset comes  *)
(* with a tag through two blocks that change what is tagged                *)
(* (additive_scrambler.hpp:79, syncword_remove.hpp:51).                    *)
DescramblesInStep == DEC!DescramblesInStep
=============================================================================
