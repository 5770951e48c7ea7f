------------------------------ MODULE Reassembly ------------------------------
(***************************************************************************)
(* on_data_() of src/exchange/server/src/server.cpp: SoupBinTCP packets    *)
(* out of TCP segments that cut them anywhere, with parse_soup_packet() of *)
(* src/infra/soupbintcp_proto.hpp.                                         *)
(*                                                                         *)
(* A packet is a big-endian length of two bytes, a type and a payload.  A  *)
(* byte has a few values, so that every stream of a bounded length can be  *)
(* tried; of what a packet does, only whether more input is taken after it *)
(* is kept.                                                                *)
(***************************************************************************)
EXTENDS Naturals, Sequences, SequencesExt

CONSTANTS
  Radix,                  \* values of a byte
  Closing,                \* types after which nothing more is read
  kMaxInboundSoupPacket,
  MaxBytes                \* bound: bytes of the stream

VARIABLES
  open,      \* the connection takes input
  partial,   \* the first partial_len bytes of partial
  filled,    \* bytes of partial that the last on_data_() wrote over
  handled,   \* packets given to handle_soup_packet_(), without their lengths
  received   \* every byte that came

vars == <<open, partial, filled, handled, received>>

Fresh == [open |-> TRUE, partial |-> <<>>, filled |-> 0, handled |-> <<>>]

Init ==
  /\ open = Fresh.open /\ partial = Fresh.partial /\ filled = Fresh.filled
  /\ handled = Fresh.handled /\ received = <<>>
-----------------------------------------------------------------------------
packet_len(header) == 2 + header[1] * Radix + header[2]

(* Mutant: off by one. *)
too_longEqual(header) == packet_len(header) >= kMaxInboundSoupPacket

(* Mutant: off by one in the other direction. *)
too_longLate(header) == packet_len(header) > kMaxInboundSoupPacket + 1

too_long(header) == packet_len(header) > kMaxInboundSoupPacket

(* Looks at the front of a byte stream for one whole packet. *)
parse_soup_packet(stream) ==
  IF Len(stream) < 2 THEN [status |-> "INCOMPLETE"]
  ELSE IF packet_len(stream) = 2 THEN [status |-> "MALFORMED"]
  ELSE IF Len(stream) < packet_len(stream) THEN [status |-> "INCOMPLETE"]
  ELSE [status   |-> "PACKET",
        packet   |-> SubSeq(stream, 3, packet_len(stream)),
        consumed |-> packet_len(stream)]

(* The connection in on_data_(): c = [open, partial, filled, handled]. *)
disconnect_(c) == [c EXCEPT !.open = FALSE, !.partial = <<>>]

handle_soup_packet_(c, packet) ==
  [c EXCEPT !.handled = Append(@, packet), !.open = packet[1] \notin Closing]

From(bytes, n) == SubSeq(bytes, n + 1, Len(bytes))

(* The loop over the packets that are whole in the segment; what is left   *)
(* of it is kept for the next one.                                         *)
RECURSIVE whole_packets(_, _)
whole_packets(c, bytes) ==
  LET parsed == parse_soup_packet(bytes)
      handled_one == handle_soup_packet_(c, parsed.packet)
  IN  CASE bytes = <<>> \/ ~ c.open -> c
        [] bytes # <<>> /\ c.open ->
           CASE parsed.status = "PACKET" -> whole_packets(handled_one, From(bytes, parsed.consumed))
             [] parsed.status = "MALFORMED" -> disconnect_(c)
             [] parsed.status = "INCOMPLETE" ->
                IF Len(bytes) >= 2 /\ too_long(bytes) THEN disconnect_(c)
                ELSE [c EXCEPT !.partial = bytes, !.filled = Max({@, Len(bytes)})]

(* The partial buffer takes what it needs to have n bytes. *)
Taken(buffer, bytes, n) ==
  LET wanted == IF Len(buffer) < n THEN n - Len(buffer) ELSE 0
  IN  IF wanted < Len(bytes) THEN wanted ELSE Len(bytes)

(* Mutant: what follows a packet that was split is not looked at. *)
finish_partialReturns(c, bytes) ==
  LET n == Taken(c.partial, bytes, 2)
      header == c.partial \o SubSeq(bytes, 1, n)
      total == packet_len(header)
      k == Taken(header, From(bytes, n), total)
      buffer == header \o SubSeq(bytes, n + 1, n + k)
      parsed == parse_soup_packet(buffer)
      headed == [c EXCEPT !.partial = header, !.filled = Len(header)]
      copied == [c EXCEPT !.partial = buffer, !.filled = Len(buffer)]
      completed == handle_soup_packet_([copied EXCEPT !.partial = <<>>], parsed.packet)
  IN  IF Len(header) < 2 THEN headed
      ELSE IF Len(c.partial) < 2 /\ too_long(header) THEN disconnect_(headed)
      ELSE IF Len(buffer) < total THEN copied
      ELSE IF parsed.status # "PACKET" THEN disconnect_(copied)
      ELSE completed

(* A packet that began in an earlier segment: its length is finished       *)
(* first, then the packet that it announces.                               *)
finish_partial(c, bytes) ==
  LET n == Taken(c.partial, bytes, 2)
      header == c.partial \o SubSeq(bytes, 1, n)
      total == packet_len(header)
      k == Taken(header, From(bytes, n), total)
      buffer == header \o SubSeq(bytes, n + 1, n + k)
      parsed == parse_soup_packet(buffer)
      headed == [c EXCEPT !.partial = header, !.filled = Len(header)]
      copied == [c EXCEPT !.partial = buffer, !.filled = Len(buffer)]
      completed == handle_soup_packet_([copied EXCEPT !.partial = <<>>], parsed.packet)
  IN  IF Len(header) < 2 THEN headed
      ELSE IF Len(c.partial) < 2 /\ too_long(header) THEN disconnect_(headed)
      ELSE IF Len(buffer) < total THEN copied
      ELSE IF parsed.status # "PACKET" THEN disconnect_(copied)
      ELSE whole_packets(completed, From(bytes, n + k))

(* A segment arrives. *)
on_data_(bytes) ==
  LET before == [open |-> open, partial |-> partial, filled |-> 0, handled |-> handled]
      after == IF partial # <<>> THEN finish_partial(before, bytes)
               ELSE whole_packets(before, bytes)
  IN  /\ open
      /\ received' = received \o bytes
      /\ open' = after.open /\ partial' = after.partial /\ filled' = after.filled
      /\ handled' = after.handled

Next == \E n \in 1..(MaxBytes - Len(received)) :
          \E bytes \in [1..n -> 0..(Radix - 1)] : on_data_(bytes)

Spec == Init /\ [][Next]_vars
-----------------------------------------------------------------------------
(* A packet as it is on the wire. *)
Encoded(packet) == <<Len(packet) \div Radix, Len(packet) % Radix>> \o packet
Wire == FlattenSeq([i \in 1..Len(handled) |-> Encoded(handled[i])])
Rest == From(received, Len(Wire))

(* Nothing of the stream is lost, repeated or made up: the packets handled *)
(* and the start of the next one in the buffer are all that came, byte for *)
(* byte, and a whole packet never waits.  And where TCP cuts the stream    *)
(* makes no difference: the outcome is that of the same bytes in a single  *)
(* segment, with one exception: a packet over the limit is handled if a    *)
(* segment has all of it, and ends the connection if it is cut.            *)
StreamKept ==
  LET whole == whole_packets(Fresh, received)
  IN  /\ IsPrefix(Wire, received)
      /\ open => Rest = partial /\ (Len(Rest) < 2 \/ Len(Rest) < packet_len(Rest))
      /\ IF handled = whole.handled THEN open = whole.open /\ partial = whole.partial
         ELSE /\ IsPrefix(handled, whole.handled) /\ ~ open
              /\ Len(Encoded(whole.handled[Len(handled) + 1])) > kMaxInboundSoupPacket

(* A connection is only given up when what follows the handled packets has *)
(* no length or is too long, or when the last of them ends the session.    *)
ClosedForCause ==
  ~ open =>
    \/ handled # <<>> /\ Last(handled)[1] \in Closing
    \/ /\ Len(Rest) >= 2
       /\ packet_len(Rest) = 2 \/ packet_len(Rest) > kMaxInboundSoupPacket

(* No memcpy() of on_data_() goes beyond the end of the buffer of a        *)
(* connection: not the one that keeps the start of a packet, and not those *)
(* that add to it, also when they complete the packet and empty the buffer *)
(* in the same call.                                                       *)
BufferFits == filled <= kMaxInboundSoupPacket
=============================================================================
