------------------------ MODULE PayloadMetadataInsert ------------------------
(***************************************************************************)
(* The PayloadMetadataInsert block of the receiver                         *)
(* (packet-modem/payload_metadata_insert.hpp).                             *)
(*                                                                         *)
(* The block cuts packets out of the symbol stream.  From a syncword       *)
(* detection on it publishes the syncword and the header, waits for the    *)
(* message with the decoded header, publishes as many payload symbols as   *)
(* the header says and discards everything up to the next detection.       *)
(*                                                                         *)
(* ProcessBulk is one call of the handler on a chunk of n symbols: the     *)
(* scheduler gives the input and the output span of this block the same    *)
(* size.  The loop of the handler is one step, since each of its           *)
(* iterations ends with a span exhausted, a break or the end of a packet.  *)
(***************************************************************************)
EXTENDS Integers

CONSTANTS
  SyncwordSize,      (* syncword_size                                      *)
  HeaderSize,        (* header_size                                        *)
  CrcSize,           (* crc_size_bytes                                     *)
  SymbolsPerByte,    (* symbols that carry a byte, 4 for QPSK              *)
  Log                (* the log setting                                    *)

VARIABLES
  in_packet,         (* _in_packet                                         *)
  position,          (* _position                                          *)
  payload_symbols    (* _payload_symbols                                   *)

vars == <<in_packet, position, payload_symbols>>

InvalidHeader == 0   (* a header message that carries "invalid_header"     *)
NoMessage == -1      (* an empty parsed_header span                        *)

HeaderEnd == SyncwordSize + HeaderSize

PayloadSymbols(len) == (len + CrcSize) * SymbolsPerByte

Lesser(a, b) == IF a <= b THEN a ELSE b

Opens(tag) == tag /\ ~in_packet

InsidePacket(tag) == tag \/ in_packet

(* The position of the first symbol of the chunk in its packet. *)
Start(tag) == IF Opens(tag) THEN 0 ELSE position

(* Mutation: the report is never sent. *)
ReportsNone(tag) == FALSE

(* A detection inside a packet is ignored, and reported on the             *)
(* ignored_syncword port; the code that reports it is under "if (log)".    *)
Reports(tag) == tag /\ in_packet /\ Log

(* The header message is looked at only when a symbol of the payload is in *)
(* the chunk.                                                              *)
ReachesPayload(tag, n) == Start(tag) <= HeaderEnd /\ Start(tag) + n > HeaderEnd

(* Mutation: the symbol after the packet is published too. *)
UpToBeyond(end, tag, n, consumed, published) ==
  LET last == Lesser(Start(tag) + n, end + 1)
  IN /\ published = last - Start(tag)
     /\ position' = last
     /\ in_packet' = (last < end + 1)
     /\ consumed = IF last < end + 1 THEN published ELSE n

(* The first n symbols end the packet at symbol end: the rest of the chunk *)
(* is discarded, otherwise what was published is what was consumed.        *)
UpTo(end, tag, n, consumed, published) ==
  LET last == Lesser(Start(tag) + n, end)
  IN /\ published = last - Start(tag)
     /\ position' = last
     /\ in_packet' = (last < end)
     /\ consumed = IF last < end THEN published ELSE n

(* Outside a packet everything is discarded. *)
Discard(tag, n, consumed, published) ==
  /\ ~InsidePacket(tag)
  /\ consumed = n
  /\ published = 0
  /\ UNCHANGED vars

(* The chunk ends in the syncword or in the header.  The test for the end  *)
(* of the packet uses the _payload_symbols of the packet before.           *)
CopyPreamble(tag, n, consumed, published) ==
  /\ InsidePacket(tag)
  /\ Start(tag) + n <= HeaderEnd
  /\ UpTo(HeaderEnd + payload_symbols, tag, n, consumed, published)
  /\ UNCHANGED payload_symbols

(* Mutation: the payload passes without waiting for its header. *)
AwaitNothing(tag, n, header, consumed, published) ==
  /\ InsidePacket(tag)
  /\ ReachesPayload(tag, n)
  /\ header = NoMessage
  /\ UpTo(HeaderEnd + payload_symbols, tag, n, consumed, published)
  /\ UNCHANGED payload_symbols

(* The header of this packet is still being decoded: wait. *)
AwaitHeader(tag, n, header, consumed, published) ==
  /\ InsidePacket(tag)
  /\ ReachesPayload(tag, n)
  /\ header = NoMessage
  /\ published = HeaderEnd - Start(tag)
  /\ consumed = published
  /\ in_packet' = TRUE
  /\ position' = HeaderEnd
  /\ UNCHANGED payload_symbols

(* The header could not be decoded: the packet is dropped. *)
DropPacket(tag, n, header, consumed, published) ==
  /\ InsidePacket(tag)
  /\ ReachesPayload(tag, n)
  /\ header = InvalidHeader
  /\ published = HeaderEnd - Start(tag)
  /\ consumed = n
  /\ in_packet' = FALSE
  /\ position' = HeaderEnd
  /\ UNCHANGED payload_symbols

(* The header is decoded: the payload starts. *)
StartPayload(tag, n, header, consumed, published) ==
  /\ InsidePacket(tag)
  /\ ReachesPayload(tag, n)
  /\ header \notin {NoMessage, InvalidHeader}
  /\ payload_symbols' = PayloadSymbols(header)
  /\ UpTo(HeaderEnd + payload_symbols', tag, n, consumed, published)

CopyPayload(tag, n, consumed, published) ==
  /\ InsidePacket(tag)
  /\ Start(tag) > HeaderEnd
  /\ UpTo(HeaderEnd + payload_symbols, tag, n, consumed, published)
  /\ UNCHANGED payload_symbols

(* Mutation: the message of a header that was not decoded is not consumed. *)
TakesValidHeader(tag, n, header) ==
  InsidePacket(tag) /\ ReachesPayload(tag, n) /\ header \notin {NoMessage, InvalidHeader}

(* The call consumes the header message exactly when it starts the payload *)
(* or drops the packet.                                                    *)
TakesHeader(tag, n, header) ==
  InsidePacket(tag) /\ ReachesPayload(tag, n) /\ header # NoMessage

ProcessBulk(tag, n, header, consumed, published) ==
  \/ Discard(tag, n, consumed, published)
  \/ CopyPreamble(tag, n, consumed, published)
  \/ AwaitHeader(tag, n, header, consumed, published)
  \/ DropPacket(tag, n, header, consumed, published)
  \/ StartPayload(tag, n, header, consumed, published)
  \/ CopyPayload(tag, n, consumed, published)

(* Mutation: start() resets _payload_symbols as well. *)
StartFromZero(last_payload_symbols) ==
  /\ in_packet = FALSE
  /\ position = 0
  /\ payload_symbols = 0

(* start() does not touch _payload_symbols: it is 0 when the block is      *)
(* built and the length of the last payload when it is started again.      *)
StartWith(last_payload_symbols) ==
  /\ in_packet = FALSE
  /\ position = 0
  /\ payload_symbols = last_payload_symbols
=============================================================================
