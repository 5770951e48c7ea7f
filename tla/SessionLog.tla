------------------------------ MODULE SessionLog ------------------------------
(***************************************************************************)
(* src/exchange/server/include/session_log.hpp: the sequenced packets of a *)
(* session, kept in a ring of bytes with an index of where each starts.    *)
(*                                                                         *)
(* Offsets are absolute.  A byte of the ring is the number of its packet   *)
(* and its place in it.                                                    *)
(***************************************************************************)
EXTENDS Naturals

CONSTANTS
  capacity_,            \* bytes in the ring, a power of two
  kBytesPerIndexEntry,
  None                  \* std::nullopt

(* "capacity_bytes must be a power of two, at least kBytesPerIndexEntry" *)
ASSUME CapacityAssumption == capacity_ \in Nat \ {0} /\ kBytesPerIndexEntry \in 1..capacity_
ASSUME NoneAssumption == None \notin Nat

index_capacity_ == capacity_ \div kBytesPerIndexEntry

NewLog == [first_seq |-> 1, next_seq |-> 1, end |-> 0,
           index |-> [i \in 0..(index_capacity_ - 1) |-> 0],
           bytes |-> [i \in 0..(capacity_ - 1) |-> None]]

IndexOf(log, seq) == log.index[seq % index_capacity_]

(* Where packet seq starts, if it is still held. *)
offset_of(log, seq) ==
  IF seq < log.first_seq \/ seq > log.next_seq THEN None
  ELSE IF seq = log.next_seq THEN log.end
  ELSE IndexOf(log, seq)

(* Mutant: off by one. *)
would_overwriteLate(log, offset, len) == log.end + len - offset > capacity_ + 1

(* Whether len more bytes would overwrite something at or after offset. *)
would_overwrite(log, offset, len) == log.end + len - offset > capacity_

(* Mutant: only the bytes limit what is held. *)
FirstHeldByBytes(log, len) ==
  CHOOSE f \in log.first_seq..log.next_seq :
    /\ f = log.next_seq \/ log.end + len - IndexOf(log, f) <= capacity_
    /\ \A g \in log.first_seq..(f - 1) : log.end + len - IndexOf(log, g) > capacity_

(* The loop that drops the oldest packets: the first one that can stay.    *)
FirstHeld(log, len) ==
  LET stays(f) == /\ log.end + len - IndexOf(log, f) <= capacity_
                  /\ log.next_seq - f < index_capacity_
  IN  CHOOSE f \in log.first_seq..log.next_seq :
        /\ f = log.next_seq \/ stays(f)
        /\ \A g \in log.first_seq..(f - 1) : ~ stays(g)

(* The packet goes into the ring at its end, around the wrap point. *)
append(log, len) ==
  [first_seq |-> FirstHeld(log, len),
   next_seq  |-> log.next_seq + 1,
   end       |-> log.end + len,
   index     |-> [log.index EXCEPT ![log.next_seq % index_capacity_] = log.end],
   bytes     |-> [i \in 0..(capacity_ - 1) |->
                    LET k == (i + capacity_ - (log.end % capacity_)) % capacity_
                    IN  IF k < len THEN [seq |-> log.next_seq, at |-> k] ELSE log.bytes[i]]]

(* The bytes from offset on, up to the end or the wrap point. *)
contiguous_from(log, offset) ==
  LET at == offset % capacity_
      unsent == log.end - offset
      len == IF unsent < capacity_ - at THEN unsent ELSE capacity_ - at
  IN  [i \in 1..len |-> log.bytes[at + i - 1]]
=============================================================================
