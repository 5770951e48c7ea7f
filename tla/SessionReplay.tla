---------------------------- MODULE SessionReplay ----------------------------
(***************************************************************************)
(* A session log as send_sequenced_(), accept_login_() and                 *)
(* flush_connection_() use it: packets of any length are appended, one     *)
(* connection at a time reads from a cursor, a few bytes per send, and is  *)
(* dropped before its unsent bytes would be overwritten.                   *)
(***************************************************************************)
EXTENDS SessionLog, Sequences

CONSTANTS
  Lengths,    \* of packets
  MaxPackets  \* bound: packets appended

ASSUME LengthsAssumption == Lengths \subseteq Nat \ {0}   \* a packet has a header

VARIABLES
  log,
  cursor,     \* offset of the next byte to send, None when nobody is connected
  starts      \* where every packet ever appended began

vars == <<log, cursor, starts>>

Init == log = NewLog /\ cursor = None /\ starts = <<>>

(* send_sequenced_(): a reader a whole log behind is dropped. *)
send_sequenced_(len) ==
  /\ log.next_seq <= MaxPackets
  /\ len < capacity_
  /\ cursor' = IF cursor # None /\ would_overwrite(log, cursor, len) THEN None ELSE cursor
  /\ log' = append(log, len)
  /\ starts' = Append(starts, log.end)

(* accept_login_(): replay from sequence; 0, or a number past anything     *)
(* sent, is the next new packet; one that is no longer held is turned away.*)
accept_login_(sequence) ==
  LET start == IF sequence = 0 \/ sequence > log.next_seq THEN log.next_seq ELSE sequence
  IN  /\ cursor = None
      /\ offset_of(log, start) # None
      /\ cursor' = offset_of(log, start)
      /\ UNCHANGED <<log, starts>>

(* flush_connection_(): one send(), which takes n of the bytes offered. *)
flush_connection_(n) ==
  /\ cursor # None /\ cursor < log.end
  /\ n <= Len(contiguous_from(log, cursor))
  /\ cursor' = cursor + n
  /\ UNCHANGED <<log, starts>>

close_ == cursor # None /\ cursor' = None /\ UNCHANGED <<log, starts>>

Next == \/ \E len \in Lengths : send_sequenced_(len)
        \/ \E sequence \in 0..(MaxPackets + 1) : accept_login_(sequence)
        \/ \E n \in 1..capacity_ : flush_connection_(n)
        \/ close_

Spec == Init /\ [][Next]_vars
-----------------------------------------------------------------------------
(* The byte at an absolute offset, from the history of the log. *)
ByteAt(offset) ==
  LET seq == CHOOSE s \in 1..Len(starts) :
               /\ starts[s] <= offset
               /\ s = Len(starts) \/ offset < starts[s + 1]
  IN  [seq |-> seq, at |-> offset - starts[seq]]

Intact(from) ==
  \A offset \in from..(log.end - 1) : log.bytes[offset % capacity_] = ByteAt(offset)

(* The log holds what fits and nothing else.  A packet that offset_of()    *)
(* finds can be replayed: it starts there and it and all that follow are   *)
(* whole in the ring.  A packet goes only when its bytes are overwritten   *)
(* or the index has no place for it.                                       *)
HoldsWhatFits ==
  /\ \A seq \in log.first_seq..(log.next_seq - 1) :
       offset_of(log, seq) = starts[seq] /\ Intact(starts[seq])
  /\ \A seq \in 1..(log.first_seq - 1) :
       log.end - starts[seq] > capacity_ \/ log.next_seq - seq > index_capacity_

(* What a connection has not been sent yet is still in the ring, so what   *)
(* contiguous_from() gives flush_connection_() is the stream.              *)
UnsentIsIntact == cursor # None => Intact(cursor)
=============================================================================
