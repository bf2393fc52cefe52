------------------------------- MODULE MCBlocks --------------------------------
(***************************************************************************)
(* The parts of the system that work on their own, for TLC: BurstShaper in *)
(* its two forms, the CRCs, PfbArbResampler, ProbeRate with its thread,    *)
(* PacketToStream in a stream of bursts and the modulation of frames.  A   *)
(* behaviour is one of the part that was chosen; the others rest.          *)
(*                                                                         *)
(* This module extends that of the burst shaper; the constants of          *)
(* ProbeRate are its own, those of the others are given here.              *)
(* MCBlocks_proofs has the theorems about these two.                       *)
(***************************************************************************)
EXTENDS BurstShaper

CONSTANTS Interval, MaxItems, MaxBehind, Modulus   (* of ProbeRate *)

VARIABLES
  part,
  setup, table, rem, stage, message,
  res_rate, num_taps, last_filter, phase_acc, history, newest, lead, published,
  owner, worker, stop, mutex, notified, samples_consumed, count_start, count_end,
  since_start, elapsed, since_wait, probe_rate, reported, first,
  burst, cont_place, link, pdu, cont_remaining, packet_count, cont_failed,
  queue, sent, cont_out,
  bytes, bits, scrambled, nibbles, reg, current_count, pack_failed, frames, symbols

(* Registers of one byte, of two and between; bytes have two bits.         *)
CRC == INSTANCE Crc WITH ByteBits <- 2, TBits <- 4, MaxBytes <- 2

(* Rates above and below one, whole and not; arms of one, two and three.   *)
RES == INSTANCE PfbArbResampler
         WITH FilterSize <- 3, Nums <- {1, 3, 4}, Dens <- {1, 2, 5},
              TapCounts <- {3, 5, 8}, MaxIn <- 3, MaxOut <- 3, NumIds <- 6,
              rate <- res_rate

PROBE == INSTANCE ProbeRate WITH rate <- probe_rate

CONT == INSTANCE ContinuousStream
          WITH Modulus <- 2, Lengths <- {1, 2, 3}, Capacity <- 3, Space <- 3,
               NumIds <- 4, place <- cont_place, remaining <- cont_remaining,
               failed <- cont_failed, out <- cont_out

(* Bytes of four bits, none the same from both ends. *)
MOD == INSTANCE PacketModulation
         WITH OutputsPerInput <- 4, InputsPerOutput <- 2,
              Map <- <<"++", "+-", "-+", "--">>,
              Mask <- {0, 1}, Seed <- {0, 3}, Degree <- 3, Count <- 0,
              Frames <- {<<11>>, <<2, 11>>, <<13, 4>>},
              BytesCapacity <- 3, BitsCapacity <- 8, ScrambledCapacity <- 5,
              NibblesCapacity <- 2,
              failed <- pack_failed, queue <- frames, sent <- symbols

ASSUME PartsAssumption ==
  CRC!CrcAssumption /\ RES!ResamplerAssumption /\ PROBE!ProbeAssumption
    /\ CONT!StreamAssumption /\ MOD!ModulationAssumption

shape_vars == <<remaining, packet_len, failed, place, out>>
crc_vars == <<setup, table, rem, stage, message>>
res_vars ==
  <<res_rate, num_taps, last_filter, phase_acc, history, newest, lead, published>>
probe_vars ==
  <<owner, worker, stop, mutex, notified, samples_consumed, count_start, count_end,
    since_start, elapsed, since_wait, probe_rate, reported, first>>
cont_vars ==
  <<burst, cont_place, link, pdu, cont_remaining, packet_count, cont_failed,
    queue, sent, cont_out>>
mod_vars ==
  <<bytes, bits, scrambled, nibbles, reg, current_count, pack_failed, frames, symbols>>
bench_vars ==
  <<part, shape_vars, crc_vars, res_vars, probe_vars, cont_vars, mod_vars>>

-----------------------------------------------------------------------------
ShapeStep ==
  /\ part = "shaper" /\ Next
  /\ UNCHANGED <<part, crc_vars, res_vars, probe_vars, cont_vars, mod_vars>>

CrcStep ==
  /\ part = "crc" /\ CRC!Next
  /\ UNCHANGED <<part, shape_vars, res_vars, probe_vars, cont_vars, mod_vars>>

ResampleStep ==
  /\ part = "resampler" /\ RES!Next
  /\ UNCHANGED <<part, shape_vars, crc_vars, probe_vars, cont_vars, mod_vars>>

Probe(step) ==
  /\ part = "probe" /\ step
  /\ UNCHANGED <<part, shape_vars, crc_vars, res_vars, cont_vars, mod_vars>>

ProbeStep == Probe(PROBE!Next)

StreamStep ==
  /\ part = "stream" /\ CONT!Next
  /\ UNCHANGED <<part, shape_vars, crc_vars, res_vars, probe_vars, mod_vars>>

ModulationStep ==
  /\ part = "modulation" /\ MOD!Next
  /\ UNCHANGED <<part, shape_vars, crc_vars, res_vars, probe_vars, cont_vars>>

BenchNext ==
  ShapeStep \/ CrcStep \/ ResampleStep \/ ProbeStep \/ StreamStep \/ ModulationStep

(* Of a part that rests one setting is enough. *)
BenchInit ==
  /\ part \in {"shaper", "crc", "resampler", "probe", "stream", "modulation"}
  /\ IF part = "crc" THEN setup \in CRC!Setups
                     ELSE setup = CHOOSE s \in CRC!Setups : TRUE
  /\ IF part = "resampler"
       THEN res_rate \in RES!Rates /\ num_taps \in {3, 5, 8}
       ELSE res_rate = [num |-> 1, den |-> 1] /\ num_taps = 3
  /\ Init /\ CRC!Init /\ RES!Init /\ PROBE!Init /\ CONT!Init
  /\ MOD!Init

(* The threads of ProbeRate are scheduled as that module says. *)
BenchSpec ==
  /\ BenchInit /\ [][BenchNext]_bench_vars
  /\ WF_bench_vars(Probe(PROBE!Worker))
  /\ SF_bench_vars(Probe(notified /\ PROBE!Wake))
  /\ SF_bench_vars(Probe(PROBE!OwnerStep))

-----------------------------------------------------------------------------
(* The CRC of a message, in whatever pieces it comes, is the remainder of  *)
(* the division of polynomials, for all settings and widths                *)
(* (crc.hpp:67-156), and so it finds the bursts of errors that CrcCheck    *)
(* rests on.                                                               *)
CrcRight == CRC!TypeOK /\ CRC!IsTheRemainder /\ CRC!DetectsBursts

(* Every output of the resampler is for its time and of the last inputs,   *)
(* whatever the calls and the changes of the settings                      *)
(* (pfb_arb_resampler.hpp:104-167).                                        *)
ResamplesOnTime == RES!TypeOK /\ RES!OutputsOnTime /\ RES!HistoryInOrder

(* No item is reported twice or never, and no report is of less than the   *)
(* interval, with any interleaving and any wake-up (probe_rate.hpp:53-80). *)
ReportsRight == PROBE!ReportsRight

(* stop() and pause() return, without waiting for the update time: the     *)
(* worker does not miss that it is stopped (probe_rate.hpp:53,85-93).      *)
StopReturns == PROBE!StopReturns

(* The stream of bursts: their tags are found, and the bursts leave whole, *)
(* in order and with zeros only between them (packet_to_stream.hpp:65-120).*)
StreamInOrder == []CONT!FindsTags /\ CONT!BurstsInOrder

(* The symbols of a frame are those of the frame scrambled and mapped as a *)
(* whole, however the streams are cut (packet_transmitter.hpp:66-80).      *)
ModulatesInStep == MOD!ModulatesInStep
=============================================================================
