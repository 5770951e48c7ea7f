-------------------------- MODULE RingBufferProofs --------------------------
(***************************************************************************)
(* For every number of slots and every element type: the ring's invariant, *)
(* the absence of slot races, and the refinement of BoundedFifo.           *)
(***************************************************************************)
EXTENDS RingBuffer, SequenceTheorems, TLAPS

(* The prover, where no other is named. *)
USE ZenonT(30)

(* (idx + 1) & mask is idx + 1 except at the last slot, where it is 0. *)
LEMMA AdvanceWraps ==
  ASSUME NEW idx \in Slots
  PROVE  Advance(idx) = IF idx = N - 1 THEN 0 ELSE idx + 1
<1>1. CASE idx = N - 1
  <2>1. idx + 1 = N
    BY <1>1, NAssumption, SMTT(30) DEF Slots
  <2>2. N % N = 0
    BY NAssumption, SMTT(30)
  <2> QED BY <1>1, <2>1, <2>2 DEF Advance
<1>2. CASE idx # N - 1
  <2>1. idx + 1 \in 0..(N - 1)
    BY <1>2, NAssumption, SMTT(30) DEF Slots
  <2>2. (idx + 1) % N = idx + 1
    BY <2>1, NAssumption, SMTT(30)
  <2> QED BY <1>2, <2>2 DEF Advance
<1> QED BY <1>1, <1>2

(* The slot k places on from idx, for less than one turn round the ring. *)
LEMMA OffsetWraps ==
  ASSUME NEW idx \in Slots, NEW k \in Slots
  PROVE  (idx + k) % N = IF idx + k < N THEN idx + k ELSE idx + k - N
<1>1. CASE idx + k < N
  BY <1>1, NAssumption, SMTT(30) DEF Slots
<1>2. CASE ~ (idx + k < N)
  <2>1. idx + k - N \in 0..(N - 1)
    BY <1>2, NAssumption, SMTT(30) DEF Slots
  <2>2. (idx + k) % N = (idx + k - N) % N
    BY <1>2, <2>1, NAssumption, SMTT(30) DEF Slots
  <2>3. (idx + k - N) % N = idx + k - N
    BY <2>1, NAssumption, SMTT(30)
  <2> QED BY <1>2, <2>2, <2>3
<1> QED BY <1>1, <1>2

(* size() of two slot indices is a number of slots the ring can hold. *)
LEMMA SizeOfType ==
  ASSUME NEW w \in Slots, NEW r \in Slots
  PROVE  /\ SizeOf(w, r) \in 0..(N - 1)
         /\ SizeOf(w, r) = 0 <=> w = r
  BY NAssumption, SMTT(30) DEF Slots, SizeOf

(* Publishing an item adds one to size(), unless that would fill the ring. *)
LEMMA SizeOfPush ==
  ASSUME NEW w \in Slots, NEW r \in Slots
  PROVE  /\ Advance(w) \in Slots
         /\ Advance(w) # r => SizeOf(Advance(w), r) = SizeOf(w, r) + 1
         /\ Advance(w) = r <=> SizeOf(w, r) = N - 1
  BY NAssumption, AdvanceWraps, SMTT(30) DEF Slots, SizeOf

(* Freeing a slot takes one from size(), unless the ring is empty. *)
LEMMA SizeOfPop ==
  ASSUME NEW w \in Slots, NEW r \in Slots, w # r
  PROVE  SizeOf(w, Advance(r)) = SizeOf(w, r) - 1
  BY NAssumption, AdvanceWraps, SMTT(30) DEF Slots, SizeOf

(* The occupied slots are distinct from the one at write_idx, which is the *)
(* slot just past them; and stepping read_idx shifts them by one.          *)
LEMMA OccupiedSlots ==
  ASSUME NEW w \in Slots, NEW r \in Slots
  PROVE  /\ \A k \in 0..(SizeOf(w, r) - 1) : (r + k) % N \in Slots \ {w}
         /\ (r + SizeOf(w, r)) % N = w
         /\ w # r => \A k \in 0..(SizeOf(w, r) - 2) :
                       (Advance(r) + k) % N = (r + (k + 1)) % N
<1>1. SizeOf(w, r) \in 0..(N - 1)
  BY SizeOfType
<1>2. \A k \in 0..(SizeOf(w, r) - 1) : (r + k) % N \in Slots \ {w}
  <2> TAKE k \in 0..(SizeOf(w, r) - 1)
  <2>1. k \in Slots
    BY <1>1, NAssumption, SMTT(30) DEF Slots
  <2>2. (r + k) % N = IF r + k < N THEN r + k ELSE r + k - N
    BY <2>1, OffsetWraps
  <2> QED BY <2>1, <2>2, NAssumption, SMTT(30) DEF Slots, SizeOf
<1>3. (r + SizeOf(w, r)) % N = w
  <2> DEFINE n == SizeOf(w, r)
  <2>1. n \in Slots
    BY <1>1 DEF Slots
  <2>2. (r + n) % N = IF r + n < N THEN r + n ELSE r + n - N
    BY <2>1, OffsetWraps
  <2>3. IF r + n < N THEN r + n = w ELSE r + n - N = w
    BY <2>1, NAssumption, SMTT(30) DEF Slots, SizeOf
  <2> HIDE DEF n
  <2> QED BY <2>2, <2>3, SMTT(30) DEF n
<1>4. ASSUME w # r, NEW k \in 0..(SizeOf(w, r) - 2)
      PROVE  (Advance(r) + k) % N = (r + (k + 1)) % N
  <2>1. /\ k \in Slots
        /\ k + 1 \in Slots
        /\ Advance(r) \in Slots
    BY <1>1, NAssumption, SizeOfPush, SMTT(30) DEF Slots
  <2>2. (Advance(r) + k) % N
          = IF Advance(r) + k < N THEN Advance(r) + k ELSE Advance(r) + k - N
    BY <2>1, OffsetWraps
  <2>3. (r + (k + 1)) % N
          = IF r + (k + 1) < N THEN r + (k + 1) ELSE r + (k + 1) - N
    BY <2>1, OffsetWraps
  <2>4. Advance(r) = IF r = N - 1 THEN 0 ELSE r + 1
    BY AdvanceWraps
  <2> QED BY <2>1, <2>2, <2>3, <2>4, NAssumption, SMTT(30) DEF Slots
<1> QED BY <1>2, <1>3, <1>4

(* The constructor establishes the invariant. *)
LEMMA RingInvInit == Init => RingInv
<1> SUFFICES ASSUME Init PROVE RingInv
  OBVIOUS
<1>1. TypeOK
  <2>1. 0 \in Slots
    BY NAssumption, SMTT(30) DEF Slots
  <2>2. pushed \in BOOLEAN
    BY DEF Init
  <2> QED BY <2>1, <2>2 DEF Init, TypeOK
<1>2. SizeOf(0, 0) = 0
  BY SMTT(30) DEF SizeOf
<1> QED BY <1>1, <1>2, NoItemAssumption, SMTT(30)
        DEF Init, RingInv, CachesConservative, HoldsItems, Contents

(* Each step of either thread preserves the invariant. *)
LEMMA RingInvStep == RingInv /\ [Next]_vars => RingInv'
<1> SUFFICES ASSUME RingInv, [Next]_vars PROVE RingInv'
  OBVIOUS
<1> USE NoItemAssumption
<1>0. TypeOK /\ CachesConservative /\ HoldsItems
  BY DEF RingInv
<1>a. /\ write_idx \in Slots /\ read_idx \in Slots
      /\ cached_write_idx \in Slots /\ cached_read_idx \in Slots
  BY <1>0 DEF TypeOK
<1>b. /\ SizeOf(write_idx, read_idx) \in 0..(N - 1)
      /\ SizeOf(write_idx, cached_read_idx) \in 0..(N - 1)
      /\ SizeOf(cached_write_idx, read_idx) \in 0..(N - 1)
  BY <1>a, SizeOfType
<1>c. cons \in {"take", "publish"} => read_idx # write_idx
  <2> SUFFICES ASSUME read_idx # cached_write_idx
               PROVE  read_idx # write_idx
    BY <1>0 DEF CachesConservative
  <2>1. SizeOf(cached_write_idx, read_idx) # 0
    BY <1>a, SizeOfType
  <2>2. SizeOf(write_idx, read_idx) # 0
    BY <1>0, <1>b, <2>1, NAssumption, SMTT(30) DEF CachesConservative
  <2> QED BY <1>a, <2>2, SizeOfType
<1>d. prod \in {"write", "publish"} => Advance(write_idx) # read_idx
  <2> SUFFICES ASSUME Advance(write_idx) # cached_read_idx
               PROVE  Advance(write_idx) # read_idx
    BY <1>0 DEF CachesConservative
  <2>1. SizeOf(write_idx, cached_read_idx) # N - 1
    BY <1>a, SizeOfPush
  <2>2. SizeOf(write_idx, read_idx) # N - 1
    BY <1>0, <1>b, <2>1, NAssumption, SMTT(30) DEF CachesConservative
  <2> QED BY <1>a, <2>2, SizeOfPush
<1>1. ASSUME NEW item \in Items, PushBegin(item) PROVE RingInv'
  <2>1. TypeOK'
    BY <1>0, <1>1 DEF PushBegin, TypeOK, cvars
  <2>2. CachesConservative'
    BY <1>0, <1>1 DEF PushBegin, CachesConservative, cvars
  <2>3. HoldsItems'
    BY <1>0, <1>1 DEF PushBegin, HoldsItems, Contents, cvars
  <2> QED BY <1>1, <2>1, <2>2, <2>3 DEF RingInv, PushBegin, cvars
<1>2. CASE PushRefresh
  <2>1. TypeOK'
    BY <1>0, <1>2 DEF PushRefresh, TypeOK, cvars
  <2>2. CachesConservative'
    BY <1>0, <1>2, <1>b, NAssumption, SMTT(30) DEF PushRefresh, CachesConservative, cvars
  <2>3. HoldsItems'
    BY <1>0, <1>2 DEF PushRefresh, HoldsItems, Contents, cvars
  <2> QED BY <1>2, <2>1, <2>2, <2>3 DEF RingInv, PushRefresh, cvars
<1>3. CASE PushWrite
  <2>1. TypeOK'
    BY <1>0, <1>3 DEF PushWrite, TypeOK, cvars
  <2>2. CachesConservative'
    BY <1>0, <1>3 DEF PushWrite, CachesConservative, cvars
  <2>3. \A i \in 1..SizeOf(write_idx, read_idx) : (read_idx + (i - 1)) % N \in Slots \ {write_idx}
    BY <1>a, <1>b, OccupiedSlots, NAssumption, SMTT(30)
  <2>4. HoldsItems'
    BY <1>0, <1>3, <2>3 DEF PushWrite, HoldsItems, Contents, TypeOK, cvars
  <2> QED BY <1>0, <1>3, <1>c, <2>1, <2>2, <2>4 DEF RingInv, PushWrite, TypeOK, cvars
<1>4. CASE PushPublish
  <2>2. TypeOK'
    BY <1>0, <1>4, <1>a, SizeOfPush DEF PushPublish, TypeOK, cvars
  <2>3. /\ Advance(write_idx) # cached_read_idx
        /\ Advance(write_idx) # read_idx
    BY <1>0, <1>4, <1>d DEF PushPublish, CachesConservative
  <2>4. /\ SizeOf(write_idx', read_idx) = SizeOf(write_idx, read_idx) + 1
        /\ SizeOf(write_idx', cached_read_idx) = SizeOf(write_idx, cached_read_idx) + 1
    BY <1>4, <1>a, <2>3, SizeOfPush DEF PushPublish
  <2>5. CachesConservative'
    BY <1>0, <1>4, <1>b, <2>4, NAssumption, SMTT(30) DEF PushPublish, CachesConservative, cvars
  <2>6. HoldsItems'
    <3> SUFFICES ASSUME NEW i \in 1..SizeOf(write_idx', read_idx)
                 PROVE  buffer[(read_idx + (i - 1)) % N] \in Items
      BY <1>4 DEF HoldsItems, Contents, PushPublish, cvars
    <3>2. CASE i = SizeOf(write_idx, read_idx) + 1
      <4>1. (read_idx + (i - 1)) % N = write_idx
        BY <1>a, <1>b, <3>2, OccupiedSlots, NAssumption, SMTT(30)
      <4> QED BY <1>0, <1>4, <4>1 DEF RingInv, PushPublish, TypeOK
    <3>3. CASE i # SizeOf(write_idx, read_idx) + 1
      <4>1. i \in 1..SizeOf(write_idx, read_idx)
        BY <1>b, <2>4, <3>3, NAssumption, SMTT(30)
      <4> QED BY <1>0, <4>1 DEF HoldsItems, Contents
    <3> QED BY <3>2, <3>3
  <2> QED BY <1>4, <2>2, <2>5, <2>6 DEF RingInv, PushPublish, cvars
<1>5. CASE PopBegin
  <2>1. TypeOK'
    BY <1>0, <1>5 DEF PopBegin, TypeOK, pvars
  <2>2. CachesConservative'
    BY <1>0, <1>5 DEF PopBegin, CachesConservative, pvars
  <2>3. HoldsItems'
    BY <1>0, <1>5 DEF PopBegin, HoldsItems, Contents, pvars
  <2> QED BY <1>5, <2>1, <2>2, <2>3 DEF RingInv, PopBegin, pvars
<1>6. CASE PopRefresh
  <2>1. TypeOK'
    BY <1>0, <1>6 DEF PopRefresh, TypeOK, pvars
  <2>2. CachesConservative'
    BY <1>0, <1>6, <1>b, NAssumption, SMTT(30) DEF PopRefresh, CachesConservative, pvars
  <2>3. HoldsItems'
    BY <1>0, <1>6 DEF PopRefresh, HoldsItems, Contents, pvars
  <2> QED BY <1>6, <2>1, <2>2, <2>3 DEF RingInv, PopRefresh, pvars
<1>7. CASE PopTake
  <2>1. TypeOK'
    BY <1>0, <1>7 DEF PopTake, TypeOK, pvars
  <2>2. CachesConservative'
    BY <1>0, <1>7 DEF PopTake, CachesConservative, pvars
  <2>3. HoldsItems'
    BY <1>0, <1>7 DEF PopTake, HoldsItems, Contents, pvars
  <2> QED BY <1>7, <2>1, <2>2, <2>3 DEF RingInv, PopTake, pvars
<1>8. CASE PopPublish
  <2>2. TypeOK'
    BY <1>0, <1>8, <1>a, SizeOfPush DEF PopPublish, TypeOK, pvars
  <2>3. read_idx # cached_write_idx /\ read_idx # write_idx
    BY <1>0, <1>8, <1>c DEF PopPublish, CachesConservative
  <2>4. /\ SizeOf(write_idx, read_idx') = SizeOf(write_idx, read_idx) - 1
        /\ SizeOf(cached_write_idx, read_idx') = SizeOf(cached_write_idx, read_idx) - 1
    BY <1>8, <1>a, <2>3, SizeOfPop DEF PopPublish
  <2>5. CachesConservative'
    BY <1>0, <1>8, <1>b, <2>4, NAssumption, SMTT(30) DEF PopPublish, CachesConservative, pvars
  <2>6. HoldsItems'
    <3> SUFFICES ASSUME NEW i \in 1..(SizeOf(write_idx, read_idx) - 1)
                 PROVE  buffer[(Advance(read_idx) + (i - 1)) % N] \in Items
      BY <1>8, <2>4 DEF HoldsItems, Contents, PopPublish, pvars
    <3>2. i - 1 \in 0..(SizeOf(write_idx, read_idx) - 2)
      BY <1>b, NAssumption, SMTT(30)
    <3>3. (Advance(read_idx) + (i - 1)) % N = (read_idx + ((i - 1) + 1)) % N
      BY <1>a, <2>3, <3>2, OccupiedSlots, SMTT(30)
    <3>4. /\ i + 1 \in 1..SizeOf(write_idx, read_idx)
          /\ (i - 1) + 1 = (i + 1) - 1
      BY <1>b, NAssumption, SMTT(30)
    <3> QED BY <1>0, <3>3, <3>4 DEF HoldsItems, Contents
  <2> QED BY <1>8, <2>2, <2>5, <2>6 DEF RingInv, PopPublish, pvars
<1>9. CASE UNCHANGED vars
  BY <1>9 DEF RingInv, TypeOK, CachesConservative, HoldsItems, Contents, vars, pvars, cvars
<1> QED BY <1>1, <1>2, <1>3, <1>4, <1>5, <1>6, <1>7, <1>8, <1>9
        DEF Next, Producer, Consumer

(* The ring's invariant holds in every reachable state. *)
THEOREM RingInvariant == Spec => []RingInv
<1> QED BY RingInvInit, RingInvStep, PTL DEF Spec

(* No schedule of the two threads makes the plain slot accesses race. *)
THEOREM SlotRaceFreedom == Spec => []NoSlotRace
<1>1. RingInv => NoSlotRace
  <2> SUFFICES ASSUME RingInv, prod = "write", cons = "take", write_idx = read_idx
               PROVE  FALSE
    BY DEF NoSlotRace
  <2>1. SizeOf(write_idx, read_idx) = 0
    BY SizeOfType DEF RingInv, TypeOK
  <2>2. SizeOf(cached_write_idx, read_idx) \in 0..(N - 1)
    BY SizeOfType DEF RingInv, TypeOK
  <2>3. SizeOf(cached_write_idx, read_idx) = 0
    BY <2>1, <2>2, SMTT(30) DEF RingInv, CachesConservative
  <2> QED BY <2>3, SizeOfType DEF RingInv, TypeOK, CachesConservative
<1> QED BY <1>1, RingInvariant, PTL

ContentsOK == /\ Contents \in Seq(Items)
              /\ Len(Contents) = SizeOf(write_idx, read_idx)
              /\ SizeOf(write_idx, read_idx) \in 0..(N - 1)

(* The refinement mapping yields a sequence of items of length size(). *)
LEMMA ContentsType == RingInv => ContentsOK
<1> SUFFICES ASSUME RingInv PROVE ContentsOK
  OBVIOUS
<1>1. SizeOf(write_idx, read_idx) \in 0..(N - 1)
  BY SizeOfType DEF RingInv, TypeOK
<1>2. \A i \in 1..SizeOf(write_idx, read_idx) : Contents[i] \in Items
  BY DEF RingInv, HoldsItems
<1>3. Contents \in [1..SizeOf(write_idx, read_idx) -> Items]
  BY <1>2 DEF Contents
<1> QED BY <1>1, <1>3, NAssumption, SMTT(30) DEF ContentsOK

(* The same in the next state. *)
LEMMA ContentsTypeNext == RingInv' => ContentsOK'
  BY ContentsType, PTL

(* Publishing the written slot appends its item to the abstract queue. *)
LEMMA PushAppends ==
  ASSUME RingInv, RingInv', PushPublish
  PROVE  /\ Contents' = Append(Contents, arg)
         /\ Len(Contents) < N - 1
<1> DEFINE n == SizeOf(write_idx, read_idx)
<1>1. /\ Contents \in Seq(Items) /\ Len(Contents) = n /\ n \in 0..(N - 1)
      /\ Contents' \in Seq(Items) /\ Len(Contents') = SizeOf(write_idx', read_idx')
      /\ SizeOf(write_idx', read_idx') \in 0..(N - 1)
  BY ContentsType, ContentsTypeNext DEF ContentsOK
<1>2. read_idx' = read_idx /\ buffer' = buffer /\ write_idx' = Advance(write_idx)
  BY DEF PushPublish, cvars
<1>3. write_idx \in Slots /\ read_idx \in Slots /\ cached_read_idx \in Slots
  BY DEF RingInv, TypeOK
<1>4. n < N - 1
  <2>1. SizeOf(write_idx, cached_read_idx) # N - 1
    BY <1>3, SizeOfPush DEF RingInv, CachesConservative, PushPublish
  <2>2. SizeOf(write_idx, cached_read_idx) \in 0..(N - 1)
    BY <1>3, SizeOfType
  <2> QED BY <1>1, <2>1, <2>2, NAssumption, SMTT(30) DEF RingInv, CachesConservative
<1>5. SizeOf(write_idx', read_idx') = n + 1
  <2>1. Advance(write_idx) # read_idx
    BY <1>3, <1>1, <1>4, SizeOfPush, NAssumption, SMTT(30)
  <2> QED BY <1>2, <1>3, <2>1, SizeOfPush
<1>6. arg \in Items /\ buffer[write_idx] = arg
  BY DEF RingInv, TypeOK, PushPublish
<1>7. (read_idx + n) % N = write_idx
  BY <1>3, OccupiedSlots
<1>8. ASSUME NEW i \in 1..(n + 1)
      PROVE  Contents'[i] = Append(Contents, arg)[i]
  <2>1. Contents'[i] = buffer[(read_idx + (i - 1)) % N]
    BY <1>2, <1>5 DEF Contents
  <2>2. CASE i = n + 1
    <3>1. i - 1 = n
      BY <1>1, <2>2, SMTT(30)
    <3> QED BY <1>1, <1>6, <1>7, <2>1, <2>2, <3>1, AppendProperties, SMTT(30)
  <2>3. CASE i # n + 1
    <3>1. i \in 1..n
      BY <1>1, <2>3, SMTT(30)
    <3>2. Contents[i] = buffer[(read_idx + (i - 1)) % N]
      BY <3>1 DEF Contents
    <3> QED BY <1>1, <1>6, <2>1, <3>1, <3>2, AppendProperties, SMTT(30)
  <2> QED BY <2>2, <2>3
<1>9. Append(Contents, arg) \in Seq(Items) /\ Len(Append(Contents, arg)) = n + 1
  BY <1>1, <1>6, AppendProperties, SMTT(30)
<1> HIDE DEF n
<1> QED BY <1>1, <1>4, <1>5, <1>8, <1>9, SeqEqual

(* Freeing the slot at read_idx removes the head of the abstract queue,    *)
(* which is the item pop() returns.                                        *)
LEMMA PopRemovesHead ==
  ASSUME RingInv, RingInv', PopPublish
  PROVE  /\ Contents # <<>>
         /\ taken = Head(Contents)
         /\ Contents' = Tail(Contents)
<1> DEFINE n == SizeOf(write_idx, read_idx)
<1>1. /\ Contents \in Seq(Items) /\ Len(Contents) = n /\ n \in 0..(N - 1)
      /\ Contents' \in Seq(Items) /\ Len(Contents') = SizeOf(write_idx', read_idx')
      /\ SizeOf(write_idx', read_idx') \in 0..(N - 1)
  BY ContentsType, ContentsTypeNext DEF ContentsOK
<1>2. read_idx' = Advance(read_idx) /\ buffer' = buffer /\ write_idx' = write_idx
  BY DEF PopPublish, pvars
<1>3. write_idx \in Slots /\ read_idx \in Slots /\ cached_write_idx \in Slots
  BY DEF RingInv, TypeOK
<1>4. n # 0
  <2>1. SizeOf(cached_write_idx, read_idx) # 0
    BY <1>3, SizeOfType DEF RingInv, CachesConservative, PopPublish
  <2>2. SizeOf(cached_write_idx, read_idx) \in 0..(N - 1)
    BY <1>3, SizeOfType
  <2> QED BY <1>1, <2>1, <2>2, NAssumption, SMTT(30) DEF RingInv, CachesConservative
<1>5. write_idx # read_idx
  BY <1>3, <1>4, SizeOfType
<1>6. SizeOf(write_idx', read_idx') = n - 1
  BY <1>2, <1>3, <1>5, SizeOfPop
<1>7. Contents # <<>>
  BY <1>1, <1>4
<1>8. taken = Head(Contents)
  <2>1. Contents[1] = buffer[(read_idx + (1 - 1)) % N]
    BY <1>1, <1>4, SMTT(30) DEF Contents
  <2>2. (read_idx + (1 - 1)) % N = read_idx
    BY <1>3, NAssumption, SMTT(30) DEF Slots
  <2> QED BY <1>1, <1>7, <2>1, <2>2, HeadTailProperties, SMTT(30) DEF RingInv, PopPublish
<1>9. Tail(Contents) \in Seq(Items) /\ Len(Tail(Contents)) = n - 1
  BY <1>1, <1>7, HeadTailProperties
<1>10. ASSUME NEW i \in 1..(n - 1)
       PROVE  Contents'[i] = Tail(Contents)[i]
  <2>1. Contents'[i] = buffer[(Advance(read_idx) + (i - 1)) % N]
    BY <1>2, <1>6 DEF Contents
  <2>2. i - 1 \in 0..(n - 2) /\ (i - 1) + 1 = (i + 1) - 1 /\ i + 1 \in 1..n
    BY <1>1, NAssumption, SMTT(30)
  <2>3. (Advance(read_idx) + (i - 1)) % N = (read_idx + ((i - 1) + 1)) % N
    BY <1>3, <1>5, <2>2, OccupiedSlots, SMTT(30)
  <2>4. Contents[i + 1] = buffer[(read_idx + ((i + 1) - 1)) % N]
    BY <2>2 DEF Contents
  <2>5. Tail(Contents)[i] = Contents[i + 1]
    BY <1>1, <1>7, <1>9, HeadTailProperties
  <2> QED BY <2>1, <2>2, <2>3, <2>4, <2>5
<1> HIDE DEF n
<1> QED BY <1>1, <1>6, <1>7, <1>8, <1>9, <1>10, SeqEqual

(* Writing the free slot leaves the abstract queue alone. *)
LEMMA WriteKeepsContents ==
  ASSUME RingInv, PushWrite
  PROVE  Contents' = Contents
<1>1. write_idx \in Slots /\ read_idx \in Slots /\ buffer \in [Slots -> Items \cup {NoItem}]
  BY DEF RingInv, TypeOK
<1>2. SizeOf(write_idx, read_idx) \in 0..(N - 1)
  BY <1>1, SizeOfType
<1>3. \A i \in 1..SizeOf(write_idx, read_idx) : (read_idx + (i - 1)) % N \in Slots \ {write_idx}
  BY <1>1, <1>2, OccupiedSlots, NAssumption, SMTT(30)
<1>4. \A i \in 1..SizeOf(write_idx, read_idx) :
         buffer'[(read_idx + (i - 1)) % N] = buffer[(read_idx + (i - 1)) % N]
  BY <1>1, <1>3 DEF PushWrite
<1> QED BY <1>4 DEF PushWrite, Contents, cvars

(* Every step of the ring is a step of the bounded FIFO, or leaves it be. *)
LEMMA RingStepSimulates ==
  RingInv /\ RingInv' /\ [Next]_vars => [Fifo!Next]_(Fifo!vars)
<1> SUFFICES ASSUME RingInv, RingInv', [Next]_vars
             PROVE  [Fifo!Next]_(Fifo!vars)
  OBVIOUS
<1> USE NoItemAssumption
<1>0. arg # NoItem <=> prod # "idle"
  BY DEF RingInv
<1>1. ASSUME NEW item \in Items, PushBegin(item) PROVE Fifo!CallPush(item)
  BY <1>0, <1>1 DEF PushBegin, Fifo!CallPush, Contents, cvars
<1>2. CASE PushRefresh
  <2>1. Contents' = Contents
    BY <1>2 DEF PushRefresh, Contents, cvars
  <2>2. CASE Advance(write_idx) = read_idx
    <3>1. Len(Contents) = N - 1
      BY <2>2, ContentsType, SizeOfPush DEF RingInv, TypeOK, ContentsOK
    <3> QED BY <1>0, <1>2, <2>1, <2>2, <3>1
            DEF PushRefresh, Fifo!RefusePush, Fifo!Next, cvars
  <2>3. CASE Advance(write_idx) # read_idx
    BY <1>2, <2>1, <2>3 DEF PushRefresh, Fifo!vars, cvars
  <2> QED BY <2>2, <2>3
<1>3. CASE PushWrite
  BY <1>3, WriteKeepsContents DEF PushWrite, Fifo!vars, cvars
<1>4. CASE PushPublish
  BY <1>0, <1>4, PushAppends DEF PushPublish, Fifo!Push, Fifo!Next, cvars
<1>5. CASE PopBegin
  BY <1>5 DEF PopBegin, Fifo!vars, Contents, pvars
<1>6. CASE PopRefresh
  <2>1. Contents' = Contents
    BY <1>6 DEF PopRefresh, Contents, pvars
  <2>2. CASE read_idx = write_idx
    <3>1. SizeOf(write_idx, read_idx) = 0
      BY <2>2, SizeOfType DEF RingInv, TypeOK
    <3>2. Contents = <<>>
      BY <3>1, ContentsType, EmptySeq DEF ContentsOK
    <3> QED BY <1>6, <2>1, <2>2, <3>2 DEF PopRefresh, Fifo!PopEmpty, Fifo!Next, pvars
  <2>3. CASE read_idx # write_idx
    BY <1>6, <2>1, <2>3 DEF PopRefresh, Fifo!vars, pvars
  <2> QED BY <2>2, <2>3
<1>7. CASE PopTake
  BY <1>7 DEF PopTake, Fifo!vars, Contents, pvars
<1>8. CASE PopPublish
  BY <1>8, PopRemovesHead DEF PopPublish, Fifo!Pop, Fifo!Next, pvars
<1>9. CASE UNCHANGED vars
  BY <1>9 DEF vars, pvars, cvars, Fifo!vars, Contents
<1> QED BY <1>1, <1>2, <1>3, <1>4, <1>5, <1>6, <1>7, <1>8, <1>9
        DEF Next, Producer, Consumer, Fifo!Next

(* The ring implements a FIFO queue of capacity N - 1, for every N. *)
THEOREM RingImplementsFifo == Spec => FifoSpec
<1>1. Init => Fifo!Init
  <2> SUFFICES ASSUME Init PROVE Fifo!Init
    OBVIOUS
  <2>1. Contents = <<>>
    <3>1. SizeOf(write_idx, read_idx) = 0
      BY SMTT(30) DEF Init, SizeOf
    <3> QED BY <3>1, SMTT(30) DEF Contents
  <2> QED BY <2>1 DEF Init, Fifo!Init
<1> QED BY <1>1, RingInvariant, RingStepSimulates, PTL DEF Spec, FifoSpec, Fifo!Spec
=============================================================================
