--------------------------- MODULE SessionLogProofs ---------------------------
(***************************************************************************)
(* The session log holds what fits, and a connection reads what was        *)
(* written, for any capacity, any sizes of packets and any reader.         *)
(***************************************************************************)
EXTENDS SessionReplay, WellFoundedInduction, SequenceTheorems, TLAPS

(* The prover, where no other is named. *)
USE ZenonT(30)
-----------------------------------------------------------------------------
(* Arithmetic.                                                             *)

Below == {pair \in Nat \X Nat : pair[1] < pair[2]}

(* Descending from a natural number ends. *)
LEMMA BelowWellFounded == IsWellFoundedOn(Below, Nat)
  BY NatLessThanWellFounded DEF OpToRel, Below

(* A nonempty set of naturals has a least element. *)
LEMMA LeastExists ==
  ASSUME NEW S \in SUBSET Nat, S # {}
  PROVE  \E p \in S : \A q \in S : p <= q
<1>1. PICK p \in S : \A q \in S : ~ (<<q, p>> \in Below)
  BY BelowWellFounded, WFMin
<1>2. ASSUME NEW q \in S PROVE p <= q
  <2>1. <<q, p>> \in Nat \X Nat /\ <<q, p>>[1] = q /\ <<q, p>>[2] = p
    OBVIOUS
  <2>2. ~ (q < p)
    BY <1>1, <2>1 DEF Below
  <2> QED BY <2>1, <2>2, SMTT(30)
<1> QED BY <1>2
(* Quotient and remainder. *)
LEMMA Divided ==
  ASSUME NEW n \in Nat \ {0}, NEW x \in Nat
  PROVE  /\ x % n \in 0..(n - 1) /\ x \div n \in Nat
         /\ x = n * (x \div n) + (x % n)
  BY SMTT(30)

(* Multiples of n are n apart. *)
LEMMA MultiplesApart ==
  ASSUME NEW n \in Nat \ {0}, NEW p \in Nat, NEW q \in Nat, p < q
  PROVE  n * p + n <= n * q
  BY SMTT(30)

(* There is one remainder. *)
LEMMA OneRemainder ==
  ASSUME NEW n \in Nat \ {0}, NEW p \in Nat, NEW q \in Nat,
         NEW r \in 0..(n - 1), NEW s \in 0..(n - 1), n * p + r = n * q + s
  PROVE  r = s
<1>1. n * p \in Nat /\ n * q \in Nat
  BY SMTT(30)
<1>2. CASE p < q
  BY <1>1, <1>2, MultiplesApart, SMTT(30)
<1>3. CASE q < p
  BY <1>1, <1>3, MultiplesApart, SMTT(30)
<1>4. CASE p = q
  BY <1>1, <1>4, SMTT(30)
<1> QED BY <1>2, <1>3, <1>4, SMTT(30)

(* A step of less than n moves the remainder by as much, around the end. *)
LEMMA Stepped ==
  ASSUME NEW n \in Nat \ {0}, NEW x \in Nat, NEW k \in 0..(n - 1)
  PROVE  (x + k) % n = IF (x % n) + k < n THEN (x % n) + k ELSE (x % n) + k - n
<1>1. PICK p \in Nat, r \in 0..(n - 1) : x = n * p + r /\ r = x % n
  BY Divided
<1>a. x + k \in Nat
  BY SMTT(30)
<1>2. PICK q \in Nat, s \in 0..(n - 1) : x + k = n * q + s /\ s = (x + k) % n
  BY <1>a, Divided
<1>3. CASE r + k < n
  <2>1. n * p + (r + k) = n * q + s
    BY <1>1, <1>2, SMTT(30)
  <2>2. r + k = s
    BY <1>3, <2>1, OneRemainder, SMTT(30)
  <2> QED BY <1>1, <1>2, <1>3, <2>2
<1>4. CASE r + k >= n
  <2>1. n * (p + 1) = n * p + n
    BY <1>1, SMTT(30)
  <2>2. n * (p + 1) + (r + k - n) = n * q + s
    BY <1>1, <1>2, <2>1, SMTT(30)
  <2>3. PICK pp \in Nat, rr \in 0..(n - 1) : pp = p + 1 /\ rr = r + k - n
    BY <1>4, SMTT(30)
  <2>4. rr = s
    BY <2>2, <2>3, OneRemainder
  <2>5. ~ (r + k < n) /\ r + k - n = s
    BY <1>4, <2>3, <2>4, SMTT(30)
  <2> QED BY <1>1, <1>2, <2>5
<1> QED BY <1>3, <1>4, SMTT(30)

(* Two numbers less than n apart that have one remainder are the same. *)
LEMMA SamePlace ==
  ASSUME NEW n \in Nat \ {0}, NEW x \in Nat, NEW y \in Nat, x <= y, y - x < n,
         x % n = y % n
  PROVE  x = y
<1>1. y = x + (y - x) /\ y - x \in 0..(n - 1)
  BY SMTT(30)
<1>2. PICK r \in 0..(n - 1), k \in 0..(n - 1) : r = x % n /\ r = (x + k) % n /\ y = x + k
  BY <1>1, Divided
<1>3. (x + k) % n = IF (x % n) + k < n THEN (x % n) + k ELSE (x % n) + k - n
  BY Stepped
<1>4. r = IF r + k < n THEN r + k ELSE r + k - n
  BY <1>2, <1>3
<1>5. k = 0
  BY <1>4, SMTT(30)
<1> QED BY <1>2, <1>5, SMTT(30)

(* How far a place of a ring is from another one, going up. *)
LEMMA PlacesFrom ==
  ASSUME NEW n \in Nat \ {0}, NEW e \in 0..(n - 1), NEW i \in 0..(n - 1)
  PROVE  (i + n - e) % n = IF e <= i THEN i - e ELSE i + n - e
  BY SMTT(30)

Byte == [seq : Nat, at : Nat]
Log  == [first_seq : Nat \ {0}, next_seq : Nat \ {0}, end : Nat,
         index : [0..(index_capacity_ - 1) -> Nat],
         bytes : [0..(capacity_ - 1) -> Byte \cup {None}]]

(* Where the packet after s starts, or will start. *)
EndOf(s) == IF s = Len(starts) THEN log.end ELSE starts[s + 1]

Types ==
  /\ log \in Log /\ log.first_seq <= log.next_seq
  /\ starts \in Seq(Nat) /\ Len(starts) = log.next_seq - 1
  /\ cursor \in Nat \cup {None}

(* The packets follow each other without a gap. *)
Rising ==
  /\ starts = <<>> => log.end = 0
  /\ starts # <<>> => starts[1] = 0
  /\ \A s, t \in 1..Len(starts) : s < t => starts[s] < starts[t]
  /\ \A s \in 1..Len(starts) : starts[s] < log.end

(* The ring has the last bytes, as many as fit, whatever is held. *)
Written ==
  \A s \in 1..Len(starts), k \in Nat :
    (starts[s] + k < EndOf(s) /\ log.end <= starts[s] + k + capacity_)
      => log.bytes[(starts[s] + k) % capacity_] = [seq |-> s, at |-> k]

(* What is held has its place in the index and in the ring. *)
Held ==
  \A s \in log.first_seq..(log.next_seq - 1) :
    /\ log.next_seq <= s + index_capacity_
    /\ log.end <= starts[s] + capacity_
    /\ IndexOf(log, s) = starts[s]

(* What is not held had to go. *)
Dropped ==
  \A s \in 1..(log.first_seq - 1) :
    log.end - starts[s] > capacity_ \/ log.next_seq - s > index_capacity_

(* A reader is at most a whole log behind. *)
Reader == cursor # None => cursor <= log.end /\ log.end <= cursor + capacity_

IInv == Types /\ Rising /\ Written /\ Held /\ Dropped /\ Reader
-----------------------------------------------------------------------------
LEMMA IndexCapacity == index_capacity_ \in Nat \ {0}
<1>1. PICK K \in Nat \ {0}, C \in Nat \ {0} :
        K = kBytesPerIndexEntry /\ C = capacity_ /\ K <= C
  BY CapacityAssumption, SMTT(30)
<1>a. C % K \in 0..(K - 1) /\ C \div K \in Nat /\ C = K * (C \div K) + (C % K)
  BY <1>1, Divided
<1>2. PICK q \in Nat, r \in 0..(K - 1) : q = C \div K /\ C = K * q + r
  BY <1>a
<1>3. q # 0
  BY <1>1, <1>2, SMTT(30)
<1> QED BY <1>1, <1>2, <1>3 DEF index_capacity_

(* Offsets of the stream belong to one packet. *)
LEMMA PacketOf ==
  ASSUME Types, Rising, NEW offset \in Nat, offset < log.end
  PROVE  \E s \in 1..Len(starts) : starts[s] <= offset /\ offset < EndOf(s)
<1> DEFINE n == Len(starts)
<1>0. n \in Nat /\ \A s \in 1..n : starts[s] \in Nat
  BY SMTT(30) DEF Types
<1>1. n # 0
  BY EmptySeq, SMTT(30) DEF Types, Rising
<1> DEFINE S == {k \in 0..(n - 1) : starts[n - k] <= offset}
<1>2. starts[1] = 0
  BY <1>1 DEF Rising, Types
<1>3. n - 1 \in S
  BY <1>0, <1>1, <1>2, SMTT(30)
<1>4. PICK k \in S : \A j \in S : k <= j
  <2>1. S \in SUBSET Nat
    BY <1>0, SMTT(30)
  <2> QED BY <1>3, <2>1, LeastExists
<1>5. n - k \in 1..n /\ starts[n - k] <= offset
  BY <1>0, <1>4, SMTT(30)
<1>6. CASE k = 0
  BY <1>0, <1>5, <1>6, SMTT(30) DEF EndOf
<1>7. CASE k # 0
  <2>0. k \in 0..(n - 1) /\ k - 1 \in 0..(n - 1) /\ ~ (k <= k - 1)
    BY <1>0, <1>7, SMTT(30)
  <2>1. k - 1 \in 0..(n - 1) /\ k - 1 \notin S
    BY <1>4, <2>0
  <2>2. ~ (starts[n - (k - 1)] <= offset)
    BY <2>1
  <2>3. n - (k - 1) = (n - k) + 1 /\ n - k # n /\ (n - k) + 1 \in 1..n
    BY <1>0, <1>4, <1>7, SMTT(30)
  <2>4. offset < starts[(n - k) + 1]
    BY <1>0, <2>2, <2>3, SMTT(30)
  <2> QED BY <1>5, <2>3, <2>4 DEF EndOf
<1> QED BY <1>6, <1>7

(* So ByteAt finds it. *)
LEMMA ByteOf ==
  ASSUME Types, Rising, NEW s \in 1..Len(starts), NEW offset \in Nat,
         starts[s] <= offset, offset < EndOf(s)
  PROVE  ByteAt(offset) = [seq |-> s, at |-> offset - starts[s]]
<1>0. Len(starts) \in Nat /\ \A t \in 1..Len(starts) : starts[t] \in Nat
  BY SMTT(30) DEF Types
<1>1. s = Len(starts) \/ offset < starts[s + 1]
  BY DEF EndOf
<1>2. ASSUME NEW t \in 1..Len(starts), starts[t] <= offset,
             t = Len(starts) \/ offset < starts[t + 1]
      PROVE  t = s
  <2>1. CASE t < s
    <3>1. t + 1 \in 1..Len(starts) /\ offset < starts[t + 1]
      BY <1>0, <1>2, <2>1, SMTT(30)
    <3>2. starts[t + 1] <= starts[s]
      BY <1>0, <2>1, <3>1, SMTT(30) DEF Rising
    <3> QED BY <1>0, <3>1, <3>2, SMTT(30)
  <2>2. CASE s < t
    <3>1. s + 1 \in 1..Len(starts) /\ offset < starts[s + 1]
      BY <1>0, <1>1, <2>2, SMTT(30)
    <3>2. starts[s + 1] <= starts[t]
      BY <1>0, <2>2, <3>1, SMTT(30) DEF Rising
    <3> QED BY <1>0, <1>2, <3>1, <3>2, SMTT(30)
  <2> QED BY <1>0, <2>1, <2>2, SMTT(30)
<1>3. s = CHOOSE t \in 1..Len(starts) :
            /\ starts[t] <= offset
            /\ t = Len(starts) \/ offset < starts[t + 1]
  BY <1>1, <1>2
<1> QED BY <1>3 DEF ByteAt

(* What a reader may still ask for is there. *)
LEMMA FromIsIntact ==
  ASSUME IInv, NEW from \in Nat, log.end <= from + capacity_
  PROVE  Intact(from)
<1> SUFFICES ASSUME NEW offset \in from..(log.end - 1)
             PROVE  log.bytes[offset % capacity_] = ByteAt(offset)
  BY DEF Intact
<1>1. offset \in Nat /\ offset < log.end /\ from <= offset /\ log.end \in Nat
  BY SMTT(30) DEF IInv, Types, Log
<1>2. PICK s \in 1..Len(starts) : starts[s] <= offset /\ offset < EndOf(s)
  BY <1>1, PacketOf DEF IInv
<1>3. starts[s] \in Nat
  BY SMTT(30) DEF IInv, Types
<1>4. PICK k \in Nat : k = offset - starts[s]
  BY <1>1, <1>2, <1>3, SMTT(30)
<1>5. offset = starts[s] + k
  BY <1>1, <1>3, <1>4, SMTT(30)
<1>6. log.end <= starts[s] + k + capacity_
  BY <1>1, <1>3, <1>5, CapacityAssumption, SMTT(30)
<1>7. log.bytes[offset % capacity_] = [seq |-> s, at |-> k]
  BY <1>2, <1>5, <1>6 DEF IInv, Written
<1> QED BY <1>1, <1>2, <1>4, <1>7, ByteOf DEF IInv

(* The invariant says what the log promises. *)
LEMMA Promised == IInv => HoldsWhatFits /\ UnsentIsIntact
<1> SUFFICES ASSUME IInv PROVE HoldsWhatFits /\ UnsentIsIntact
  OBVIOUS
<1>0. log.first_seq \in Nat /\ log.next_seq \in Nat /\ log.end \in Nat
  BY DEF IInv, Types, Log
<1>1. ASSUME NEW s \in log.first_seq..(log.next_seq - 1)
      PROVE  offset_of(log, s) = starts[s] /\ Intact(starts[s])
  <2>1. log.end <= starts[s] + capacity_ /\ IndexOf(log, s) = starts[s]
    BY DEF IInv, Held
  <2>2. starts[s] \in Nat
    BY <1>0, SMTT(30) DEF IInv, Types, Log
  <2>3. offset_of(log, s) = IndexOf(log, s)
    BY <1>0, SMTT(30) DEF offset_of
  <2> QED BY <2>1, <2>2, <2>3, FromIsIntact
<1>2. UnsentIsIntact
  BY FromIsIntact DEF UnsentIsIntact, IInv, Types, Reader
<1> QED BY <1>1, <1>2 DEF HoldsWhatFits, IInv, Dropped
-----------------------------------------------------------------------------
LEMMA InitOK == Init => IInv
<1> SUFFICES ASSUME Init PROVE IInv
  OBVIOUS
<1>1. log \in Log /\ log.first_seq = 1 /\ log.next_seq = 1 /\ log.end = 0
  BY IndexCapacity, CapacityAssumption, SMTT(30) DEF Init, NewLog, Log
<1>2. starts = <<>> /\ Len(starts) = 0 /\ starts \in Seq(Nat) /\ cursor = None
  BY SMTT(30) DEF Init
<1> QED BY <1>1, <1>2, SMTT(30) DEF IInv, Types, Rising, Written, Held, Dropped, Reader

(* The loop of append() stops at a packet that can stay. *)
LEMMA FirstHeldStays ==
  ASSUME Types, NEW len \in Nat
  PROVE  LET f == FirstHeld(log, len)
             stays(g) == /\ log.end + len - IndexOf(log, g) <= capacity_
                         /\ log.next_seq - g < index_capacity_
         IN  /\ f \in log.first_seq..log.next_seq
             /\ f = log.next_seq \/ stays(f)
             /\ \A g \in log.first_seq..(f - 1) : ~ stays(g)
<1> DEFINE stays(g) == /\ log.end + len - IndexOf(log, g) <= capacity_
                       /\ log.next_seq - g < index_capacity_
           S == {f \in log.first_seq..log.next_seq : f = log.next_seq \/ stays(f)}
<1>0. log.first_seq \in Nat /\ log.next_seq \in Nat /\ log.first_seq <= log.next_seq
  BY DEF Types, Log
<1> HIDE DEF stays
<1>1. S \in SUBSET Nat /\ log.next_seq \in S
  BY <1>0, SMTT(30)
<1>2. PICK f \in S : \A g \in S : f <= g
  BY <1>1, LeastExists
<1>3. \A g \in log.first_seq..(f - 1) : ~ stays(g)
  BY <1>0, <1>2, SMTT(30)
<1>4. \E h \in log.first_seq..log.next_seq :
        /\ h = log.next_seq \/ stays(h)
        /\ \A g \in log.first_seq..(h - 1) : ~ stays(g)
  BY <1>2, <1>3
<1>5. FirstHeld(log, len) = CHOOSE h \in log.first_seq..log.next_seq :
                              /\ h = log.next_seq \/ stays(h)
                              /\ \A g \in log.first_seq..(h - 1) : ~ stays(g)
  BY DEF FirstHeld, stays
<1>6. LET f1 == FirstHeld(log, len)
      IN  /\ f1 \in log.first_seq..log.next_seq
          /\ f1 = log.next_seq \/ stays(f1)
          /\ \A g \in log.first_seq..(f1 - 1) : ~ stays(g)
  BY <1>4, <1>5
<1> QED BY <1>6 DEF stays

(* A byte goes to the place of its offset and to no other that is still    *)
(* needed.                                                                 *)
LEMMA Appended ==
  ASSUME Types, NEW len \in Nat, len < capacity_
  PROVE  /\ \A k \in 0..(len - 1) :
              append(log, len).bytes[(log.end + k) % capacity_]
                = [seq |-> log.next_seq, at |-> k]
         /\ \A offset \in Nat :
              (offset < log.end /\ log.end + len <= offset + capacity_) =>
                append(log, len).bytes[offset % capacity_] = log.bytes[offset % capacity_]
<1> DEFINE from(i) == (i + capacity_ - (log.end % capacity_)) % capacity_
<1>0. PICK C \in Nat \ {0}, end \in Nat : C = capacity_ /\ end = log.end
  BY CapacityAssumption DEF Types, Log
<1>1. PICK e \in 0..(C - 1) : C = capacity_ /\ end = log.end /\ e = end % C
  BY <1>0, Divided
<1>2. append(log, len).bytes =
        [i \in 0..(C - 1) |-> IF from(i) < len THEN [seq |-> log.next_seq, at |-> from(i)]
                              ELSE log.bytes[i]]
  BY <1>1 DEF append
<1>3. \A i \in 0..(C - 1) : from(i) = IF e <= i THEN i - e ELSE i + C - e
  BY <1>1, PlacesFrom
<1> HIDE DEF from
<1>4. ASSUME NEW k \in 0..(len - 1)
      PROVE  append(log, len).bytes[(end + k) % C] = [seq |-> log.next_seq, at |-> k]
  <2>1. k \in 0..(C - 1)
    BY <1>1, SMTT(30)
  <2>2. (end + k) % C = IF e + k < C THEN e + k ELSE e + k - C
    BY <1>1, <2>1, Stepped
  <2>3. PICK i \in 0..(C - 1) : i = (end + k) % C /\ from(i) = k
    <3>1. CASE e + k < C
      BY <1>3, <2>1, <2>2, <3>1, SMTT(30)
    <3>2. CASE e + k >= C
      BY <1>3, <2>1, <2>2, <3>2, SMTT(30)
    <3> QED BY <2>1, <3>1, <3>2, SMTT(30)
  <2> QED BY <1>2, <2>3, SMTT(30)
<1>5. ASSUME NEW offset \in Nat, offset < end, end + len <= offset + C
      PROVE  append(log, len).bytes[offset % C] = log.bytes[offset % C]
  <2>1. CASE len = 0
    <3>1. offset % C \in 0..(C - 1)
      BY Divided
    <3>2. from(offset % C) \in Nat
      BY <1>3, <3>1, SMTT(30)
    <3> QED BY <1>2, <2>1, <3>1, <3>2, SMTT(30)
  <2>2. CASE len # 0
    <3>1. PICK d \in 1..(C - 1) : end = offset + d /\ d + len <= C
      BY <1>5, <2>2, SMTT(30)
    <3>2. PICK i \in 0..(C - 1) : i = offset % C
      BY Divided
    <3>b. d \in 0..(C - 1)
      BY SMTT(30)
    <3>a. (offset + d) % C = IF (offset % C) + d < C THEN (offset % C) + d
                                                    ELSE (offset % C) + d - C
      BY <3>b, Stepped
    <3>3. e = IF i + d < C THEN i + d ELSE i + d - C
      BY <1>1, <3>1, <3>2, <3>a
    <3>4. from(i) = C - d
      <4>1. CASE i + d < C
        BY <1>3, <3>3, <4>1, SMTT(30)
      <4>2. CASE i + d >= C
        BY <1>3, <3>3, <4>2, SMTT(30)
      <4> QED BY <4>1, <4>2, SMTT(30)
    <3>5. ~ (from(i) < len)
      BY <3>1, <3>4, SMTT(30)
    <3> QED BY <1>2, <3>2, <3>5
  <2> QED BY <2>1, <2>2
<1> QED BY <1>1, <1>4, <1>5

(***************************************************************************)
(* The arithmetic of one append: N packets and E bytes become N + 1 and    *)
(* E + L, in a ring of C bytes with IC places in the index.                *)
(***************************************************************************)
Packets(n, end, st) ==
  /\ \A s \in 1..n : st[s] \in Nat /\ st[s] < end
  /\ \A s, t \in 1..n : s < t => st[s] < st[t]
  /\ IF n = 0 THEN end = 0 ELSE st[1] = 0

LEMMA RisingStep ==
  ASSUME NEW N \in Nat, NEW E \in Nat, NEW L \in Nat, N # 0, L # 0, NEW st, NEW st1,
         Packets(N - 1, E, st), \A s \in 1..(N - 1) : st1[s] = st[s], st1[N] = E
  PROVE  Packets(N, E + L, st1)
<1>1. /\ \A s \in 1..(N - 1) : st[s] \in Nat /\ st[s] < E /\ st1[s] = st[s]
      /\ \A s, t \in 1..(N - 1) : s < t => st[s] < st[t]
      /\ N = 1 => E = 0
      /\ N # 1 => st[1] = 0
  BY SMTT(30) DEF Packets
<1>2. st1[1] = 0
  BY <1>1, SMTT(30)
<1>3. \A s \in 1..N : st1[s] \in Nat /\ st1[s] < E + L
  BY <1>1, SMTT(30)
<1>4. \A s, t \in 1..N : s < t => st1[s] < st1[t]
  BY <1>1, SMTT(30)
<1> QED BY <1>2, <1>3, <1>4 DEF Packets

(* When the first packet that stays fits, so do the ones after it. *)
LEMMA HeldStep ==
  ASSUME NEW N \in Nat, NEW E \in Nat, NEW L \in Nat, NEW C \in Nat, NEW IC \in Nat,
         NEW f \in Nat, NEW s \in Nat, NEW st, f # 0, f <= s, s < N,
         \A x \in 1..(N - 1) : st[x] \in Nat,
         \A x, y \in 1..(N - 1) : x < y => st[x] < st[y],
         E + L - st[f] <= C, N - f < IC
  PROVE  N + 1 <= s + IC /\ E + L <= st[s] + C
<1>1. PICK a \in Nat, b \in Nat : a = st[f] /\ b = st[s] /\ a <= b
  <2>1. f \in 1..(N - 1) /\ s \in 1..(N - 1)
    BY SMTT(30)
  <2>2. st[f] \in Nat /\ st[s] \in Nat
    BY <2>1
  <2>3. f < s => st[f] < st[s]
    BY <2>1
  <2>4. f = s => st[f] = st[s]
    OBVIOUS
  <2> QED BY <2>2, <2>3, <2>4, SMTT(30)
<1>2. E + L - a <= C
  BY <1>1
<1> QED BY <1>1, <1>2, SMTT(30)

(* The place of a packet that stays is not the new packet's. *)
LEMMA PlaceStays ==
  ASSUME NEW N \in Nat, NEW IC \in Nat \ {0}, NEW s \in Nat, s < N, N + 1 <= s + IC
  PROVE  s % IC # N % IC
<1>1. SUFFICES ASSUME s % IC = N % IC PROVE FALSE
  OBVIOUS
<1>2. N < s + IC
  BY SMTT(30)
<1>3. s <= N /\ N - s < IC
  BY <1>2, SMTT(30)
<1>4. s = N
  BY <1>1, <1>3, SamePlace
<1> QED BY <1>4, SMTT(30)

(* What did not fit does not fit now. *)
LEMMA DroppedStep ==
  ASSUME NEW N \in Nat, NEW E \in Nat, NEW L \in Nat, NEW C \in Nat, NEW IC \in Nat,
         NEW s \in Nat, NEW a \in Nat,
         (E - a > C \/ N - s > IC) \/ ~ (E + L - a <= C /\ N - s < IC)
  PROVE  (E + L) - a > C \/ (N + 1) - s > IC
  BY SMTT(30)

(* Where the packets before the new one end. *)
LEMMA EndsStep ==
  ASSUME NEW N \in Nat, NEW E \in Nat, NEW st, NEW st1, NEW s \in 1..(N - 1), N # 0,
         \A x \in 1..(N - 1) : st[x] \in Nat /\ st[x] < E /\ st1[x] = st[x],
         st1[N] = E
  PROVE  /\ (IF s = N - 1 THEN E ELSE st[s + 1]) = st1[s + 1]
         /\ st1[s + 1] \in Nat /\ st1[s + 1] <= E
<1>1. CASE s = N - 1
  BY <1>1, SMTT(30)
<1>2. CASE s # N - 1
  <2>1. s + 1 \in 1..(N - 1)
    BY <1>2, SMTT(30)
  <2> QED BY <1>2, <2>1, SMTT(30)
<1> QED BY <1>1, <1>2

(* One packet more.  The sizes and the numbers get names of their own.     *)
LEMMA SendOK ==
  ASSUME IInv, NEW len \in Lengths, send_sequenced_(len)
  PROVE  IInv'
<1>0. PICK C \in Nat, IC \in Nat, F \in Nat, N \in Nat, E \in Nat, L \in Nat :
        /\ C = capacity_ /\ IC = index_capacity_ /\ L = len
        /\ F = log.first_seq /\ N = log.next_seq /\ E = log.end
        /\ C # 0 /\ IC # 0 /\ F # 0 /\ N # 0 /\ L # 0 /\ F <= N /\ L < C
  <2>1. log.first_seq \in Nat \ {0} /\ log.next_seq \in Nat \ {0} /\ log.end \in Nat
    BY DEF IInv, Types, Log
  <2>2. len \in Nat \ {0} /\ len < capacity_ /\ log.first_seq <= log.next_seq
    BY LengthsAssumption DEF send_sequenced_, IInv, Types
  <2> QED BY <2>1, <2>2, CapacityAssumption, IndexCapacity
<1>a. C # 0 /\ IC # 0 /\ F # 0 /\ N # 0 /\ L # 0 /\ F <= N /\ L < C
  BY <1>0
<1>1. PICK st, st1 : st = starts /\ st1 = starts'
  OBVIOUS
<1>2. /\ Len(starts) = N - 1 /\ Len(starts') = N /\ starts' \in Seq(Nat)
      /\ st1[N] = E
      /\ \A s \in 1..(N - 1) : st[s] \in Nat /\ st1[s] = st[s]
  <2>1. starts \in Seq(Nat) /\ Len(starts) = N - 1
    BY <1>0 DEF IInv, Types
  <2>2. starts' = Append(starts, E)
    BY <1>0 DEF send_sequenced_
  <2> QED BY <1>1, <1>a, <2>1, <2>2, SMTT(30)
<1>3. /\ log'.first_seq = FirstHeld(log, len)
      /\ log'.next_seq = N + 1 /\ log'.end = E + L
      /\ log'.index = [log.index EXCEPT ![N % IC] = E]
      /\ log'.bytes = append(log, len).bytes
  BY <1>0 DEF send_sequenced_, append
<1>4. \A s \in Nat : s % IC \in 0..(IC - 1)
  BY <1>a, Divided
<1>5. /\ \A s \in F..(N - 1) : N <= s + IC /\ E <= st[s] + C /\ IndexOf(log, s) = st[s]
      /\ \A s \in 1..(F - 1) : E - st[s] > C \/ N - s > IC
  BY <1>0, <1>1 DEF IInv, Held, Dropped
<1>6. /\ \A s, t \in 1..(N - 1) : s < t => st[s] < st[t]
      /\ \A s \in 1..(N - 1) : st[s] \in Nat /\ st[s] < E /\ st1[s] = st[s]
      /\ N = 1 => E = 0
      /\ N # 1 => st[1] = 0
  <2>1. /\ \A s, t \in 1..(N - 1) : s < t => st[s] < st[t]
        /\ \A s \in 1..(N - 1) : st[s] < E
        /\ starts = <<>> => E = 0
        /\ starts # <<>> => st[1] = 0
    BY <1>0, <1>1, <1>2 DEF IInv, Rising
  <2>2. starts = <<>> <=> N = 1
    <3>1. starts = <<>> <=> N - 1 = 0
      BY <1>2, EmptySeq DEF IInv, Types
    <3> QED BY <3>1, SMTT(30)
  <2> QED BY <1>2, <2>1, <2>2
<1> DEFINE stays(g) == E + L - IndexOf(log, g) <= C /\ N - g < IC
<1>7. PICK f \in Nat :
        /\ f = log'.first_seq /\ F <= f /\ f <= N
        /\ f = N \/ stays(f)
        /\ \A g \in F..(f - 1) : ~ stays(g)
  <2>1. LET f == FirstHeld(log, len)
            still(g) == /\ log.end + len - IndexOf(log, g) <= capacity_
                        /\ log.next_seq - g < index_capacity_
        IN  /\ f \in log.first_seq..log.next_seq
            /\ f = log.next_seq \/ still(f)
            /\ \A g \in log.first_seq..(f - 1) : ~ still(g)
    BY <1>0, FirstHeldStays DEF IInv
  <2>2. LET f == log'.first_seq
        IN  /\ f \in F..N
            /\ f = N \/ stays(f)
            /\ \A g \in F..(f - 1) : ~ stays(g)
    BY <1>0, <1>3, <2>1
  <2>3. PICK f \in F..N : f = log'.first_seq
    BY <2>2
  <2>4. f \in Nat /\ F <= f /\ f <= N
    BY SMTT(30)
  <2> QED BY <2>2, <2>3, <2>4
<1>8. f # 0 /\ F <= f /\ f <= N
  BY <1>a, <1>7, SMTT(30)
<1> HIDE DEF stays
<1>9. /\ \A s \in 1..N : EndOf(s)' = IF s = N THEN E + L ELSE st1[s + 1]
      /\ \A s \in 1..(N - 1) : EndOf(s) = IF s = N - 1 THEN E ELSE st[s + 1]
  BY <1>0, <1>1, <1>2, <1>3 DEF EndOf
<1>10. Types'
  <2>1. log'.index \in [0..(index_capacity_ - 1) -> Nat]
    <3>1. log.index \in [0..(IC - 1) -> Nat] /\ N % IC \in 0..(IC - 1)
      BY <1>0, <1>4 DEF IInv, Types, Log
    <3>2. [log.index EXCEPT ![N % IC] = E] \in [0..(IC - 1) -> Nat]
      BY <3>1
    <3> QED BY <1>0, <1>3, <3>2
  <2>2. log'.bytes \in [0..(capacity_ - 1) -> Byte \cup {None}]
    <3> DEFINE from(i) == (i + C - (E % C)) % C
    <3>1. \A i \in 0..(C - 1) : from(i) \in Nat
      <4>1. PICK e \in 0..(C - 1) : e = E % C
        BY <1>a, Divided
      <4>2. \A i \in 0..(C - 1) : i + C - e \in Nat
        BY SMTT(30)
      <4>3. \A x \in Nat : x % C \in Nat
        BY <1>a, Divided, SMTT(30)
      <4> QED BY <4>1, <4>2, <4>3
    <3>2. log'.bytes = [i \in 0..(C - 1) |->
                          IF from(i) < L THEN [seq |-> N, at |-> from(i)] ELSE log.bytes[i]]
      BY <1>0, <1>3 DEF append
    <3> HIDE DEF from
    <3>3. \A i \in 0..(C - 1) : [seq |-> N, at |-> from(i)] \in Byte
      BY <3>1 DEF Byte
    <3>4. \A i \in 0..(C - 1) : log.bytes[i] \in Byte \cup {None}
      BY <1>0 DEF IInv, Types, Log
    <3>5. log'.bytes \in [0..(C - 1) -> Byte \cup {None}]
      BY <3>2, <3>3, <3>4
    <3> QED BY <1>0, <3>5
  <2>3. log' = [first_seq |-> log'.first_seq, next_seq |-> log'.next_seq, end |-> log'.end,
                index |-> log'.index, bytes |-> log'.bytes]
    BY DEF send_sequenced_, append
  <2>4. N + 1 \in Nat \ {0} /\ E + L \in Nat /\ f \in Nat \ {0} /\ f <= N + 1 /\ N = (N + 1) - 1
    BY <1>a, <1>8, SMTT(30)
  <2>5. log' \in Log
    BY <1>3, <1>7, <2>1, <2>2, <2>3, <2>4 DEF Log
  <2>6. cursor' \in Nat \cup {None}
    BY DEF send_sequenced_, IInv, Types
  <2>7. log'.first_seq <= log'.next_seq /\ Len(starts') = log'.next_seq - 1
    BY <1>2, <1>3, <1>7, <2>4
  <2> QED BY <1>2, <2>5, <2>6, <2>7 DEF Types
<1>11. Rising'
  <2>1. IF N - 1 = 0 THEN E = 0 ELSE st[1] = 0
    BY <1>6, SMTT(30)
  <2>2. Packets(N - 1, E, st)
    BY <1>6, <2>1 DEF Packets
  <2>3. Packets(N, E + L, st1)
    BY <1>a, <1>2, <2>2, RisingStep
  <2>4. starts' # <<>>
    BY <1>a, <1>2, SMTT(30)
  <2> QED BY <1>a, <1>1, <1>2, <1>3, <2>3, <2>4 DEF Rising, Packets
<1>12. Written'
  <2>0. /\ \A k \in 0..(L - 1) : log'.bytes[(E + k) % C] = [seq |-> N, at |-> k]
        /\ \A offset \in Nat : (offset < E /\ E + L <= offset + C) =>
             log'.bytes[offset % C] = log.bytes[offset % C]
    <3>1. Types /\ len \in Nat /\ len < capacity_
      BY <1>0 DEF IInv
    <3>2. /\ \A k \in 0..(len - 1) :
                append(log, len).bytes[(log.end + k) % capacity_]
                  = [seq |-> log.next_seq, at |-> k]
          /\ \A offset \in Nat :
                (offset < log.end /\ log.end + len <= offset + capacity_) =>
                  append(log, len).bytes[offset % capacity_] = log.bytes[offset % capacity_]
      BY <3>1, Appended
    <3>3. \A k \in 0..(L - 1) : log'.bytes[(E + k) % C] = [seq |-> N, at |-> k]
      BY <1>0, <1>3, <3>2
    <3>4. \A offset \in Nat : (offset < E /\ E + L <= offset + C) =>
            log'.bytes[offset % C] = log.bytes[offset % C]
      BY <1>0, <1>3, <3>2
    <3> QED BY <3>3, <3>4
  <2>1. ASSUME NEW s \in 1..N, NEW k \in Nat, st1[s] + k < EndOf(s)', E + L <= st1[s] + k + C
        PROVE  log'.bytes[(st1[s] + k) % C] = [seq |-> s, at |-> k]
    <3>1. CASE s = N
      <4>1. EndOf(s)' = E + L /\ st1[s] = E
        BY <1>2, <1>9, <3>1
      <4>2. k \in 0..(L - 1)
        BY <2>1, <4>1, SMTT(30)
      <4> QED BY <2>0, <3>1, <4>1, <4>2
    <3>2. CASE s # N
      <4>1. s \in 1..(N - 1)
        BY <1>a, <3>2, SMTT(30)
      <4>2. st1[s] = st[s] /\ EndOf(s)' = st1[s + 1]
            /\ EndOf(s) = IF s = N - 1 THEN E ELSE st[s + 1]
        BY <1>2, <1>9, <3>2, <4>1
      <4>3. EndOf(s) = st1[s + 1] /\ st1[s + 1] \in Nat /\ st1[s + 1] <= E
        BY <1>a, <1>2, <1>6, <4>1, <4>2, EndsStep, SMTT(30)
      <4>4. PICK a \in Nat, b \in Nat : a = st[s] /\ b = st1[s + 1] /\ b <= E
        BY <1>6, <4>1, <4>3
      <4>5. a + k < b /\ E + L <= a + k + C
        BY <2>1, <4>2, <4>4
      <4>6. a + k \in Nat /\ a + k < E /\ E <= a + k + C
        BY <4>4, <4>5, SMTT(30)
      <4>7. log'.bytes[(a + k) % C] = log.bytes[(a + k) % C]
        BY <2>0, <4>5, <4>6
      <4>8. log.bytes[(a + k) % C] = [seq |-> s, at |-> k]
        <5>1. s \in 1..Len(starts) /\ starts[s] = a /\ starts[s] + k < EndOf(s)
              /\ log.end <= starts[s] + k + capacity_
          BY <1>0, <1>1, <1>2, <4>1, <4>3, <4>4, <4>5, <4>6
        <5> QED BY <1>0, <5>1 DEF IInv, Written
      <4> QED BY <4>2, <4>4, <4>7, <4>8
    <3> QED BY <3>1, <3>2
  <2>2. \A s \in 1..N, k \in Nat :
          (st1[s] + k < EndOf(s)' /\ E + L <= st1[s] + k + C)
            => log'.bytes[(st1[s] + k) % C] = [seq |-> s, at |-> k]
    BY <2>1
  <2>3. log'.end = E + L /\ starts' = st1 /\ Len(starts') = N /\ capacity_ = C
    BY <1>0, <1>1, <1>2, <1>3
  <2>4. \A s \in 1..Len(starts'), k \in Nat :
          (starts'[s] + k < EndOf(s)' /\ log'.end <= starts'[s] + k + capacity_)
            => log'.bytes[(starts'[s] + k) % capacity_] = [seq |-> s, at |-> k]
    BY <2>2, <2>3
  <2> QED BY <2>4 DEF Written
<1>13. Held'
  <2>1. ASSUME NEW s \in f..N
        PROVE  N + 1 <= s + IC /\ E + L <= st1[s] + C /\ IndexOf(log', s) = st1[s]
    <3>0. s \in Nat /\ s % IC \in 0..(IC - 1) /\ N % IC \in 0..(IC - 1)
          /\ IndexOf(log', s) = [log.index EXCEPT ![N % IC] = E][s % IC]
      <4>1. s \in Nat
        BY SMTT(30)
      <4> QED BY <1>0, <1>3, <1>4, <4>1 DEF IndexOf
    <3>a. log.index \in [0..(IC - 1) -> Nat]
      BY <1>0 DEF IInv, Types, Log
    <3>1. CASE s = N
      <4>1. IndexOf(log', s) = E /\ st1[s] = E
        BY <1>2, <3>0, <3>a, <3>1
      <4>2. N + 1 <= N + IC /\ E + L <= E + C
        BY <1>a, SMTT(30)
      <4> QED BY <3>1, <4>1, <4>2
    <3>2. CASE s # N
      <4>1. s < N /\ f <= s /\ f < N
        BY <3>2, SMTT(30)
      <4>2. f \in F..(N - 1) /\ s \in F..(N - 1) /\ s \in 1..(N - 1)
        BY <1>a, <1>8, <4>1, SMTT(30)
      <4>3. IndexOf(log, f) = st[f] /\ IndexOf(log, s) = st[s]
        BY <1>5, <4>2
      <4>4. f # N
        BY <4>1, SMTT(30)
      <4>5. E + L - st[f] <= C /\ N - f < IC
        BY <1>7, <4>3, <4>4 DEF stays
      <4>6. N + 1 <= s + IC /\ E + L <= st[s] + C
        BY <1>8, <1>6, <3>0, <4>1, <4>5, HeldStep
      <4>7. s % IC # N % IC
        BY <1>a, <3>0, <4>1, <4>6, PlaceStays
      <4>8. IndexOf(log', s) = log.index[s % IC]
        BY <3>0, <3>a, <4>7
      <4>9. IndexOf(log, s) = log.index[s % IC]
        BY <1>0 DEF IndexOf
      <4> QED BY <1>2, <4>2, <4>3, <4>6, <4>8, <4>9
    <3> QED BY <3>1, <3>2
  <2>2. f..((N + 1) - 1) = f..N
    BY SMTT(30)
  <2> QED BY <1>0, <1>1, <1>3, <1>7, <2>1, <2>2 DEF Held
<1>14. Dropped'
  <2>1. ASSUME NEW s \in 1..(f - 1) PROVE (E + L) - st1[s] > C \/ (N + 1) - s > IC
    <3>0. s \in Nat /\ s \in 1..(N - 1)
      BY <1>8, SMTT(30)
    <3>1. PICK a \in Nat : a = st[s] /\ a = st1[s]
      BY <1>6, <3>0
    <3>2. (E - a > C \/ N - s > IC) \/ ~ (E + L - a <= C /\ N - s < IC)
      <4>1. s \in 1..(F - 1) \/ (s \in F..(f - 1) /\ s \in F..(N - 1))
        BY <1>8, SMTT(30)
      <4> QED BY <1>5, <1>7, <3>1, <4>1 DEF stays
    <3>3. (E + L) - a > C \/ (N + 1) - s > IC
      BY <3>0, <3>2, DroppedStep
    <3> QED BY <3>1, <3>3
  <2> QED BY <1>0, <1>1, <1>3, <1>7, <2>1 DEF Dropped
<1>15. Reader'
  <2>1. ASSUME cursor' # None PROVE cursor' <= E + L /\ E + L <= cursor' + C
    <3>1. cursor' = cursor /\ cursor # None /\ ~ (E + L - cursor > C)
      BY <1>0, <2>1 DEF send_sequenced_, would_overwrite
    <3>2. PICK c \in Nat : c = cursor /\ c <= E
      BY <1>0, <3>1 DEF IInv, Types, Reader
    <3>a. ~ (E + L - c > C)
      BY <3>1, <3>2
    <3>3. c <= E + L /\ E + L <= c + C
      BY <3>2, <3>a, SMTT(30)
    <3> QED BY <3>1, <3>2, <3>3
  <2> QED BY <1>0, <1>3, <2>1 DEF Reader
<1> QED BY <1>10, <1>11, <1>12, <1>13, <1>14, <1>15 DEF IInv

(* The other steps move the reader only. *)
LEMMA ReaderOK ==
  ASSUME IInv, UNCHANGED <<log, starts>>, cursor' \in Nat \cup {None}, Reader'
  PROVE  IInv'
  BY DEF IInv, Types, Rising, Written, Held, Dropped, EndOf, IndexOf

LEMMA StepOK == IInv /\ [Next]_vars => IInv'
<1> SUFFICES ASSUME IInv, [Next]_vars PROVE IInv'
  OBVIOUS
<1>0. log.first_seq \in Nat /\ log.next_seq \in Nat /\ log.end \in Nat
      /\ cursor \in Nat \cup {None} /\ capacity_ \in Nat \ {0}
  BY CapacityAssumption DEF IInv, Types, Log
<1>1. ASSUME NEW len \in Lengths, send_sequenced_(len) PROVE IInv'
  BY <1>1, SendOK
<1>2. ASSUME NEW sequence \in Nat, accept_login_(sequence) PROVE IInv'
  <2>1. PICK start \in Nat : cursor' = offset_of(log, start) /\ offset_of(log, start) # None
    BY <1>0, <1>2 DEF accept_login_
  <2>2. CASE start = log.next_seq
    <3>1. cursor' = log.end
      BY <1>0, <2>1, <2>2 DEF offset_of
    <3> QED BY <1>0, <1>2, <3>1, ReaderOK, SMTT(30) DEF accept_login_, Reader
  <2>3. CASE start # log.next_seq
    <3>1. start \in log.first_seq..(log.next_seq - 1) /\ cursor' = IndexOf(log, start)
      BY <1>0, <2>1, <2>3, SMTT(30) DEF offset_of
    <3>2. cursor' = starts[start] /\ log.end <= starts[start] + capacity_
      BY <3>1 DEF IInv, Held
    <3>3. start \in 1..Len(starts)
      BY <1>0, <3>1, SMTT(30) DEF IInv, Types, Log
    <3>4. starts[start] \in Nat /\ starts[start] < log.end
      BY <3>3, SMTT(30) DEF IInv, Types, Rising
    <3> QED BY <1>0, <1>2, <3>2, <3>4, ReaderOK, SMTT(30) DEF accept_login_, Reader
  <2> QED BY <2>2, <2>3
<1>3. ASSUME NEW n \in 1..capacity_, flush_connection_(n) PROVE IInv'
  <2>1. cursor \in Nat /\ cursor < log.end /\ cursor' = cursor + n
    BY <1>0, <1>3 DEF flush_connection_
  <2>2. Len(contiguous_from(log, cursor)) <= log.end - cursor
    <3> DEFINE at == cursor % capacity_
               m == IF log.end - cursor < capacity_ - at THEN log.end - cursor
                    ELSE capacity_ - at
    <3>1. at \in 0..(capacity_ - 1)
      BY <1>0, <2>1, Divided
    <3>2. m \in Nat /\ m <= log.end - cursor
      BY <1>0, <2>1, <3>1, SMTT(30)
    <3>3. contiguous_from(log, cursor) = [i \in 1..m |-> log.bytes[at + i - 1]]
      BY DEF contiguous_from
    <3> HIDE DEF m
    <3>4. Len(contiguous_from(log, cursor)) = m
      BY <3>2, <3>3, SMTT(30)
    <3> QED BY <3>2, <3>4
  <2>3. cursor' <= log.end
    <3>1. PICK l : l = Len(contiguous_from(log, cursor))
      OBVIOUS
    <3> QED BY <1>0, <1>3, <2>1, <2>2, <3>1, SMTT(30) DEF flush_connection_
  <2> QED BY <1>0, <1>3, <2>1, <2>3, ReaderOK, SMTT(30) DEF flush_connection_, Reader, IInv
<1>4. CASE close_
  BY <1>4, ReaderOK DEF close_, Reader
<1>5. CASE UNCHANGED vars
  BY <1>0, <1>5, ReaderOK DEF vars, IInv, Reader
<1> QED BY <1>1, <1>2, <1>3, <1>4, <1>5, SMTT(30) DEF Next

LEMMA LogInvariant == Spec => []IInv
  BY InitOK, StepOK, PTL DEF Spec

(* A packet that offset_of() finds can be replayed whole, with all that    *)
(* follow, and a packet is given up only when the ring or the index has no *)
(* room for it.                                                            *)
THEOREM LogHoldsWhatFits == Spec => []HoldsWhatFits
  BY LogInvariant, Promised, PTL

(* What flush_connection_() sends a slow reader is what was appended.      *)
THEOREM UnsentStaysIntact == Spec => []UnsentIsIntact
  BY LogInvariant, Promised, PTL
=============================================================================
