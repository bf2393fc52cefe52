----------------------- MODULE SyncwordDetectionFilter -----------------------
(***************************************************************************)
(* The SyncwordDetectionFilter block of the receiver                       *)
(* (packet-modem/syncword_detection_filter.hpp).                           *)
(*                                                                         *)
(* The block is a gate on the sample stream.  A syncword detection opens a *)
(* packet; only the samples of the syncword, the header and a small margin *)
(* may then pass until a message tells how long the packet is, that its    *)
(* header could not be decoded, or that the detection was ignored          *)
(* downstream.  Detections that arrive inside a packet are removed.        *)
(*                                                                         *)
(* The scheduler calls processBulk() with a chunk of samples.  A tag is    *)
(* always aligned with the first sample of a chunk, so a call sees at most *)
(* one detection.  ProcessBulk below is one whole call.                    *)
(***************************************************************************)
EXTENDS Integers

CONSTANTS
  SamplesPerSymbol,  (* samples_per_symbol                                 *)
  SyncwordSize,      (* syncword_size, in symbols                          *)
  HeaderSize,        (* header_size, in symbols                            *)
  AllowedMargin,     (* allowed_margin, in symbols                         *)
  CrcSize,           (* crc_size_bytes                                     *)
  SymbolsPerByte,    (* symbols that carry a byte, 4 for QPSK              *)
  Lengths,           (* the packet lengths that headers announce           *)
  MaxChunk           (* bound: samples in a chunk                          *)

ASSUME SizesAssumption ==
  /\ SamplesPerSymbol \in Nat \ {0}
  /\ SyncwordSize \in Nat \ {0}
  /\ HeaderSize \in Nat \ {0}
  /\ AllowedMargin \in Nat
  /\ AllowedMargin < SyncwordSize + HeaderSize
  /\ CrcSize \in Nat
  /\ SymbolsPerByte \in Nat \ {0}
  /\ Lengths \subseteq Nat \ {0}
  /\ MaxChunk \in Nat \ {0}

(* A header message carries a length or "invalid_header".  HeaderParser    *)
(* never announces the length 0, which here stands for "invalid_header".   *)
InvalidHeader == 0
Metas == Lengths \cup {InvalidHeader}

(* What the parsed_header span shows when it is empty. *)
NoMessage == -1

VARIABLES
  in_packet,    (* _in_packet                                              *)
  position,     (* _position: samples of the packet that have passed       *)
  block_until   (* _block_until: 0 while the length is not known           *)

vars == <<in_packet, position, block_until>>

(* Mutation: no margin after the header. *)
AllowedTight == SamplesPerSymbol * (SyncwordSize + HeaderSize)

(* The samples that pass before the length of the packet is known. *)
Allowed == SamplesPerSymbol * (SyncwordSize + HeaderSize + AllowedMargin)

PayloadSymbols(len) == (len + CrcSize) * SymbolsPerByte

(* Mutation: the margin is subtracted twice. *)
BlockUntilEarly(meta) ==
  IF meta = InvalidHeader
    THEN 1
    ELSE SamplesPerSymbol
           * (HeaderSize + SyncwordSize - 2 * AllowedMargin + PayloadSymbols(meta))

(* Mutation: the margin is not subtracted. *)
BlockUntilWhole(meta) ==
  IF meta = InvalidHeader
    THEN 1
    ELSE SamplesPerSymbol * (HeaderSize + SyncwordSize + PayloadSymbols(meta))

(* The sample from which detections are accepted again. *)
BlockUntil(meta) ==
  IF meta = InvalidHeader
    THEN 1
    ELSE SamplesPerSymbol
           * (HeaderSize + SyncwordSize - AllowedMargin + PayloadSymbols(meta))

Lesser(a, b) == IF a <= b THEN a ELSE b

(* A detection is passed on, and opens a packet, only outside a packet. *)
Opens(tag) == tag /\ ~in_packet

(* The length is unknown when this call looks at its messages. *)
Unknown(tag) == Opens(tag) \/ (in_packet /\ block_until = 0)

TakesHeader(tag, header) == Unknown(tag) /\ header # NoMessage

TakesIgnored(tag, header, ignored) ==
  Unknown(tag) /\ header = NoMessage /\ ignored

(* Mutation: a new packet keeps the _block_until of the last one. *)
BlockUntilKept(tag, header, ignored) ==
  CASE TakesHeader(tag, header)           -> BlockUntil(header)
    [] TakesIgnored(tag, header, ignored) -> 1
    [] OTHER -> block_until

(* _block_until after the messages. *)
BlockUntilAfter(tag, header, ignored) ==
  CASE TakesHeader(tag, header)           -> BlockUntil(header)
    [] TakesIgnored(tag, header, ignored) -> 1
    [] OTHER -> IF Opens(tag) THEN 0 ELSE block_until

Init ==
  /\ in_packet = FALSE
  /\ position = 0
  /\ block_until = 0

(* Outside a packet the chunk passes; no message is looked at. *)
Forward(tag, n, consumed) ==
  /\ ~tag /\ ~in_packet
  /\ consumed = n
  /\ UNCHANGED vars

(* Mutation: the whole chunk passes if it begins before the limit. *)
GateChunk(tag, n, header, ignored, consumed) ==
  /\ tag \/ in_packet
  /\ LET start    == IF Opens(tag) THEN 0 ELSE position
         until    == BlockUntilAfter(tag, header, ignored)
         early    == IF start < Allowed THEN n ELSE 0
         released == start + early >= Allowed /\ until # 0
     IN /\ consumed = IF released THEN n ELSE early
        /\ position' = start + consumed
        /\ block_until' = until
        /\ in_packet' = ~(released /\ start + consumed >= until)

(* Mutation: the packet ends at the length, whatever has been let through. *)
GateEager(tag, n, header, ignored, consumed) ==
  /\ tag \/ in_packet
  /\ LET start == IF Opens(tag) THEN 0 ELSE position
         until == BlockUntilAfter(tag, header, ignored)
     IN /\ consumed = IF until # 0 THEN n
                      ELSE IF start < Allowed THEN Lesser(n, Allowed - start) ELSE 0
        /\ position' = start + consumed
        /\ block_until' = until
        /\ in_packet' = ~(until # 0 /\ start + consumed >= until)

(* Inside a packet, or opening one: up to Allowed samples pass, and the    *)
(* rest of the chunk too once the length is known.  The packet ends when   *)
(* that brings the position to _block_until.                               *)
Gate(tag, n, header, ignored, consumed) ==
  /\ tag \/ in_packet
  /\ LET start    == IF Opens(tag) THEN 0 ELSE position
         until    == BlockUntilAfter(tag, header, ignored)
         early    == IF start < Allowed THEN Lesser(n, Allowed - start) ELSE 0
         released == start + early >= Allowed /\ until # 0
     IN /\ consumed = IF released THEN n ELSE early
        /\ position' = start + consumed
        /\ block_until' = until
        /\ in_packet' = ~(released /\ start + consumed >= until)

ProcessBulk(tag, n, header, ignored, consumed) ==
  \/ Forward(tag, n, consumed)
  \/ Gate(tag, n, header, ignored, consumed)

Next ==
  \E tag, ignored \in BOOLEAN, n \in 1 .. MaxChunk,
     header \in Metas \cup {NoMessage}, consumed \in 0 .. MaxChunk :
       consumed <= n /\ ProcessBulk(tag, n, header, ignored, consumed)

Spec == Init /\ [][Next]_vars

-----------------------------------------------------------------------------
TypeOK ==
  /\ in_packet \in BOOLEAN
  /\ position \in Nat
  /\ block_until \in Nat

(* While the length of the packet is unknown no more than the syncword,    *)
(* the header and the margin have passed; and a packet that is still open  *)
(* has not run past the sample from which detections are accepted again.   *)
(* "the block only lets the samples of the syncword and header, plus some  *)
(* small margin go through" (syncword_detection_filter.hpp:25-26).         *)
BoundedLookahead ==
  in_packet => \/ position < Allowed
               \/ block_until = 0 /\ position = Allowed
               \/ position < block_until

(* A packet closes only once its length, or its loss, is known, and not    *)
(* before the syncword, header and margin have passed nor before the       *)
(* margin at its end: no detection inside the packet can get through.      *)
ClosesLate ==
  [][in_packet /\ ~in_packet' =>
       block_until' # 0 /\ position' >= Allowed /\ position' >= block_until']_vars
=============================================================================
