---------------------------- MODULE SymbolDecoding -----------------------------
(***************************************************************************)
(* From the symbols of packets to their soft bits                          *)
(* (packet-modem/packet_receiver.hpp): SyncwordWipeoff, CostasLoop,        *)
(* SyncwordRemove, ConstellationLLRDecoder and AdditiveScrambler, with     *)
(* what PayloadMetadataInsert does between the first two: it drops the     *)
(* symbols outside of packets and adds the tags of the header and of the   *)
(* payload (its handler is in PayloadMetadataInsert).                      *)
(*                                                                         *)
(* A symbol is known by its packet, its part of it and its place in that   *)
(* part.  The blocks are called at any time on any number of symbols, in   *)
(* chunks of which only the first symbol has a tag; a setting that is in   *)
(* the tag is applied by the runtime before the call.  The phase of the    *)
(* Costas loop is abstracted to the detection from which it started, and a *)
(* symbol becomes one soft bit (BPSK) or two (QPSK).                       *)
(***************************************************************************)
EXTENDS Integers, Sequences, SequencesExt

CONSTANTS
  SyncwordSize, HeaderSize,
  Lengths,             (* symbols in a payload, 0 for an undecoded header  *)
  Mask, Seed, Length, Count,
  Capacity,            (* bound: symbols in a link                         *)
  SoftCapacity,        (* bound: soft bits in a link                       *)
  NumIds               (* bound: identities of packets, reused in a circle *)

DecodingAssumption ==
  /\ SyncwordSize \in Nat \ {0} /\ HeaderSize \in Nat \ {0} /\ Lengths \subseteq Nat
  /\ NumIds \in Nat \ {0} /\ Capacity \in Nat /\ SoftCapacity \in Nat

VARIABLES
  last, payload,                          (* the last symbol; its payload  *)
  wipeoff_in_syncword, wipeoff_position,
  phase,                                  (* of CostasLoop: the detection  *)
  constellation,                          (* that its _phase started from  *)
  remove_in_syncword, remove_position,
  llr_constellation,
  refused,                                (* settingsChanged() has thrown  *)
  reg, current_count,
  wiped, tracked, removed, soft, (* the links                     *)
  out                                     (* the bits of the last call     *)

WIPE == INSTANCE SyncwordBlocks
          WITH in_syncword <- wipeoff_in_syncword, position <- wipeoff_position
REMOVE == INSTANCE SyncwordBlocks
            WITH in_syncword <- remove_in_syncword, position <- remove_position
SCR == INSTANCE AdditiveScrambler

source_vars == <<last, payload>>
wipe_vars == <<wipeoff_in_syncword, wipeoff_position>>
costas_vars == <<phase, constellation>>
remove_vars == <<remove_in_syncword, remove_position>>
llr_vars == <<llr_constellation, refused>>
scr_vars == <<reg, current_count>>
vars == <<source_vars, wipe_vars, costas_vars, remove_vars, llr_vars, scr_vars,
          wiped, tracked, removed, soft, out>>

SizeOf(part, len) ==
  CASE part = "syncword" -> SyncwordSize
    [] part = "header"   -> HeaderSize
    [] part = "payload"  -> len
    [] part = "noise"    -> 1

PartAfter(part, len) ==
  CASE part = "syncword"          -> "header"
    [] part = "header" /\ len > 0 -> "payload"
    [] OTHER                      -> "noise"

(* The next symbol if it is no detection: noise after a packet. *)
After(s, len) ==
  IF s.place < SizeOf(s.part, len)
    THEN [packet |-> s.packet, part |-> s.part, place |-> s.place + 1]
    ELSE [packet |-> s.packet, part |-> PartAfter(s.part, len), place |-> 1]

Detection ==
  [packet |-> (last.packet % NumIds) + 1, part |-> "syncword", place |-> 1]

(* n symbols, from s on. *)
Symbols(s, len, n) ==
  FoldLeft(LAMBDA all, i : Append(all, After(Last(all), len)), <<s>>,
           [i \in 2 .. n |-> i])

(* The tags, and the settings that are in them. *)
TagOf(s) ==
  IF s.place # 1 \/ s.part = "noise" THEN "none"
  ELSE IF s.part = "syncword" THEN "detection"
  ELSE s.part

Constellation(tag) ==
  CASE tag = "detection" -> "PILOT"
    [] tag = "header"    -> "QPSK"
    [] OTHER             -> "same"

Rest(link, n) == SubSeq(link, n + 1, Len(link))

(* A chunk of a link: the symbols after the first have no tag. *)
IsChunk(link, n) == n <= Len(link) /\ \A i \in 2 .. n : link[i].tag = "none"

(* How many of the symbols are in the packet; noise is behind it. *)
InPacket(symbols) ==
  CHOOSE m \in 0 .. Len(symbols) :
    \A i \in DOMAIN symbols : symbols[i].part # "noise" <=> i <= m

(* SyncwordWipeoff is called on n symbols, from s on, of which the first   *)
(* may have the only tag there is so far, that of a detection.             *)
Wipe(s, len, n) ==
  LET tagged  == TagOf(s) = "detection"
      symbols == Symbols(s, len, n)
      factors == WIPE!Factors(n, tagged)
      items   == [i \in 1 .. n |-> [symbol |-> symbols[i], tag |-> TagOf(symbols[i]),
                                   factor |-> factors[i]]]
  IN /\ Len(wiped) + n <= Capacity
     /\ WIPE!Wipeoff(n, tagged)
     /\ wiped' = wiped \o SubSeq(items, 1, InPacket(symbols))
     /\ last' = symbols[n]
     /\ payload' = len
     /\ UNCHANGED <<costas_vars, remove_vars, llr_vars, scr_vars,
                    tracked, removed, soft, out>>

(* What a setting is with a tag. *)
SettingOf(setting, tag) ==
  IF Constellation(tag) # "same" THEN Constellation(tag) ELSE setting

(* Mutation: the phase goes on from packet to packet. *)
PhaseNever(item) == IF phase = 0 THEN item.symbol.packet ELSE phase

(* The loop starts again from the phase in the tag of a detection. *)
PhaseOf(item) == IF item.tag = "detection" THEN item.symbol.packet ELSE phase

(* CostasLoop tracks the symbols of a call in one constellation. *)
Track(n) ==
  /\ IsChunk(wiped, n)
  /\ Len(tracked) + n <= Capacity
  /\ phase' = PhaseOf(wiped[1])
  /\ constellation' = SettingOf(constellation, wiped[1].tag)
  /\ tracked' = tracked \o
        [i \in 1 .. n |-> [symbol |-> wiped[i].symbol, tag |-> wiped[i].tag,
                          factor |-> wiped[i].factor,
                          tracking |-> [phase |-> phase',
                                        constellation |-> constellation']]]
  /\ wiped' = Rest(wiped, n)
  /\ UNCHANGED <<source_vars, wipe_vars, remove_vars, llr_vars, scr_vars,
                 removed, soft, out>>

Drop(n) ==
  LET tagged == tracked[1].tag = "detection"
      drops  == REMOVE!Drops(n, tagged)
  IN /\ IsChunk(tracked, n)
     /\ Len(removed) + n <= Capacity
     /\ REMOVE!Remove(n, tagged)
     /\ removed' = removed \o
           [i \in 1 .. n - drops |->
              [symbol |-> tracked[drops + i].symbol,
               tag |-> IF i = 1 /\ REMOVE!Passes(tagged) THEN tracked[1].tag ELSE "none"]]
     /\ tracked' = Rest(tracked, n)
     /\ UNCHANGED <<source_vars, wipe_vars, costas_vars, llr_vars, scr_vars,
                    wiped, soft, out>>

Lesser(a, b) == IF a <= b THEN a ELSE b

(* The settings say how many items come of one. *)
ChunkSize(setting) == IF setting = "QPSK" THEN 2 ELSE 1

Consumed(n, space, setting) == Lesser(n, space \div ChunkSize(setting))

(* The bits of a call on the first symbols; bit 1 is the real part.  The   *)
(* tag of the first symbol goes with the first bit.                        *)
SoftBits(n, space, setting) ==
  LET size == ChunkSize(setting)
  IN [i \in 1 .. size * Consumed(n, space, setting) |->
        [symbol |-> removed[((i - 1) \div size) + 1].symbol,
         bit    |-> ((i - 1) % size) + 1,
         tag    |-> IF i = 1 THEN removed[1].tag ELSE "none"]]

(* ConstellationLLRDecoder throws on a constellation that it cannot decode.*)
Decode(n, space) ==
  LET setting == SettingOf(llr_constellation, removed[1].tag)
  IN /\ IsChunk(removed, n)
     /\ Len(soft) + space <= SoftCapacity
     /\ ~refused
     /\ IF setting \in {"BPSK", "QPSK"}
          THEN llr_constellation' = setting /\ UNCHANGED refused
          ELSE refused' = TRUE /\ UNCHANGED llr_constellation
     /\ soft' = soft \o SoftBits(n, space, setting)
     /\ removed' = Rest(removed, Consumed(n, space, setting))
     /\ UNCHANGED <<source_vars, wipe_vars, costas_vars, remove_vars, scr_vars,
                    wiped, tracked, out>>

(* The runtime gives a tag to the item that has it. *)
Descramble(n) ==
  LET tagged == [i \in 1 .. n |-> soft[i].tag = "header"]
      bits   == SCR!StreamBits(tagged)
  IN /\ n <= Len(soft)
     /\ SCR!ProcessStream(tagged)
     /\ out' = [i \in 1 .. n |-> [item |-> soft[i], inverted |-> bits[i]]]
     /\ soft' = Rest(soft, n)
     /\ UNCHANGED <<source_vars, wipe_vars, costas_vars, remove_vars, llr_vars,
                    wiped, tracked, removed>>

Continue == \E n \in 1 .. Capacity : Wipe(After(last, payload), payload, n)
Detect ==
  /\ After(last, payload).part = "noise"
  /\ \E n \in 1 .. Capacity, len \in Lengths : Wipe(Detection, len, n)
TrackStep == \E n \in 1 .. Capacity : n <= Len(wiped) /\ Track(n)
DropStep == \E n \in 1 .. Capacity : n <= Len(tracked) /\ Drop(n)
DecodeStep ==
  \E n \in 1 .. Capacity, space \in 1 .. SoftCapacity :
    n <= Len(removed) /\ Decode(n, space)
DescrambleStep == \E n \in 1 .. SoftCapacity : n <= Len(soft) /\ Descramble(n)

Next ==
  Continue \/ Detect \/ TrackStep \/ DropStep \/ DecodeStep \/ DescrambleStep

Init ==
  /\ last = [packet |-> NumIds, part |-> "noise", place |-> 1]
  /\ payload = 0
  /\ WIPE!Init /\ REMOVE!Init /\ SCR!Init
  /\ phase = 0 /\ constellation = "BPSK"
  /\ llr_constellation = "QPSK" /\ refused = FALSE
  /\ wiped = <<>> /\ tracked = <<>> /\ removed = <<>>
  /\ soft = <<>> /\ out = <<>>

Spec == Init /\ [][Next]_vars

-----------------------------------------------------------------------------
TypeOK ==
  /\ wipeoff_position \in 0 .. SyncwordSize
  /\ remove_position \in 0 .. SyncwordSize
  /\ wipeoff_in_syncword => wipeoff_position < SyncwordSize
  /\ remove_in_syncword => remove_position < SyncwordSize
  /\ reg \subseteq 0 .. Length
  /\ Len(soft) <= SoftCapacity

(* Each symbol of a syncword is multiplied by its own symbol, and no other *)
(* symbol of a packet is touched, although the chunks cut syncwords        *)
(* anywhere: "It multiplies the syncword symbols by the given syncword"    *)
(* (syncword_wipeoff.hpp:19).                                              *)
WipesOwnSymbols ==
  \A i \in DOMAIN tracked :
    LET x == tracked[i]
    IN x.factor = IF x.symbol.part = "syncword" THEN x.symbol.place ELSE 0

(* The carrier loop starts from the phase of the symbol's own detection    *)
(* and tracks a pilot exactly where the syncword was wiped off.            *)
TracksOwnPacket ==
  \A i \in DOMAIN tracked :
    LET x == tracked[i]
    IN /\ x.tracking.phase = x.symbol.packet
       /\ x.tracking.constellation =
            IF x.factor # 0 THEN "PILOT" ELSE "QPSK"

(* ConstellationLLRDecoder throws on a pilot: that setting is in the tag   *)
(* of a detection, which must never reach it, nor may a syncword's symbol. *)
NoPilotDecoded ==
  /\ ~refused
  /\ \A i \in DOMAIN removed : removed[i].symbol.part # "syncword"

(* The place of a soft bit in the bits of the header and the payload. *)
PlaceOf(x) ==
  2 * (x.symbol.place - 1 + (IF x.symbol.part = "payload" THEN HeaderSize ELSE 0))
    + x.bit

(* Every soft bit is inverted as the transmitter, which scrambles the PDU  *)
(* of header and payload, inverted that bit of that packet.                *)
DescramblesInStep ==
  \A i \in DOMAIN out :
    LET at == PlaceOf(out[i].item) IN out[i].inverted = SCR!PduBits(at)[at]
=============================================================================
