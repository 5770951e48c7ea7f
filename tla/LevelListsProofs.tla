--------------------------- MODULE LevelListsProofs ---------------------------
(***************************************************************************)
(* The lists and the pool of LevelLists stay well formed for any capacity, *)
(* any number of levels and of orders, no list has a cycle, and what they  *)
(* do is what PriceLevels does with sequences and a number.                *)
(***************************************************************************)
EXTENDS LevelLists, SequenceTheorems, FiniteSetTheorems, TLAPS

(* The prover, where no other is named. *)
USE ZenonT(30)

Below == {pair \in Nat \X Nat : pair[1] < pair[2]}

(* Descending from a natural number ends. *)
LEMMA BelowWellFounded == IsWellFoundedOn(Below, Nat)
  BY NatLessThanWellFounded DEF OpToRel, Below

(* A nonempty set of naturals has a least element. *)
LEMMA LeastExists ==
  ASSUME NEW S \in SUBSET Nat, S # {}
  PROVE  \E p \in S : \A q \in S : p <= q
<1>1. PICK p \in S : \A q \in S : ~ (<<q, p>> \in Below)
  BY BelowWellFounded, WFMin
<1>2. ASSUME NEW q \in S PROVE p <= q
  <2>1. <<q, p>> \in Nat \X Nat /\ <<q, p>>[1] = q /\ <<q, p>>[2] = p
    OBVIOUS
  <2>2. ~ (q < p)
    BY <1>1, <2>1 DEF Below
  <2> QED BY <2>1, <2>2, SMTT(30)
<1> QED BY <1>2

Ptr == Slots \cup {nullptr}

Types ==
  /\ arena_ \in [Slots -> [id_ : OrderIds \cup {nullptr}, level : Levels \cup {nullptr},
                           prev_ : Ptr, next_ : Ptr]]
  /\ free_list_ \in Seq(Slots)
  /\ levels \in [Levels -> [head : Ptr, tail : Ptr, size_ : Nat]]
  /\ orders_ \in [OrderIds -> Ptr]

LInv == Types /\ OrdersFound /\ LinksAgree /\ EndsAgree /\ SizesAgree /\ PoolAgrees

(* The n slots of S, each once, are c[1] .. c[n] on the way from head      *)
(* along next.                                                             *)
List(n, c, S, head, next) ==
  /\ n \in Nat /\ c \in [1..n -> S]
  /\ head = IF n = 0 THEN nullptr ELSE c[1]
  /\ \A i \in 1..n : next[c[i]] = IF i = n THEN nullptr ELSE c[i + 1]
  /\ \A i, j \in 1..n : c[i] = c[j] => i = j
  /\ \A s \in S : \E i \in 1..n : c[i] = s

(* All of a level is found from its head on. *)
Nexts(l) == [s \in On(l) |-> arena_[s].next_]
Listed(l, n, c) == n = levels[l].size_ /\ List(n, c, On(l), levels[l].head, Nexts(l))
Chained == \A l \in Levels : \E n, c : Listed(l, n, c)

(* The links agree in a level that is a cycle nobody's head leads to: that *)
(* there is none takes Chained.                                            *)
IInv == LInv /\ Chained

(* What rest() does to the lists, and what unlink() does.                  *)
Joins(id, l, slot) ==
  /\ slot \in Slots /\ slot \notin InUse
  /\ arena_'[slot].id_ = id /\ arena_'[slot].next_ = nullptr
  /\ \A s \in InUse :
       /\ arena_'[s].id_ = arena_[s].id_
       /\ arena_'[s].next_ = IF s = levels[l].tail THEN slot ELSE arena_[s].next_
  /\ On(l)' = On(l) \cup {slot}
  /\ levels'[l].head = IF levels[l].head = nullptr THEN slot ELSE levels[l].head
  /\ levels'[l].size_ = levels[l].size_ + 1
  /\ \A k \in Levels : k # l => On(k)' = On(k) /\ levels'[k] = levels[k]

Leaves(l, slot) ==
  /\ l \in Levels /\ slot \in On(l)
  /\ \A s \in InUse :
       /\ arena_'[s].id_ = arena_[s].id_
       /\ arena_'[s].next_ = IF s = arena_[slot].prev_ THEN arena_[slot].next_ ELSE arena_[s].next_
  /\ On(l)' = On(l) \ {slot}
  /\ levels'[l].head = IF arena_[slot].prev_ = nullptr THEN arena_[slot].next_ ELSE levels[l].head
  /\ levels'[l].size_ = levels[l].size_ - 1
  /\ \A k \in Levels : k # l => On(k)' = On(k) /\ levels'[k] = levels[k]
-----------------------------------------------------------------------------
(* The stack of free slots: what is popped is its last, and the others     *)
(* stay.                                                                   *)
LEMMA PopFree ==
  ASSUME NEW f \in Seq(Slots), f # <<>>,
         \A i, j \in 1..Len(f) : f[i] = f[j] => i = j
  PROVE  /\ Last(f) \in Slots /\ Last(f) \in Range(f)
         /\ Front(f) \in Seq(Slots)
         /\ \A i, j \in 1..Len(Front(f)) : Front(f)[i] = Front(f)[j] => i = j
         /\ Range(Front(f)) = Range(f) \ {Last(f)}
         /\ Len(f) > 0 /\ Len(Front(f)) = Len(f) - 1
<1>0. \A n \in Nat : n >= 1 => n \in 1..n /\ \A i \in 1..(n - 1) : i \in 1..n /\ i # n
  BY SMTT(30)
<1>1. Len(f) \in Nat /\ Len(f) >= 1 /\ DOMAIN f = 1..Len(f)
  BY EmptySeq, LenProperties, SMTT(30)
<1>2. /\ Front(f) \in Seq(Slots)
      /\ Len(Front(f)) = Len(f) - 1
      /\ \A i \in 1..(Len(f) - 1) : Front(f)[i] = f[i]
  BY <1>1, SubSeqProperties, SMTT(30) DEF Front
<1>3. DOMAIN Front(f) = 1..(Len(f) - 1)
  BY <1>2, LenProperties
<1>4. Last(f) \in Slots /\ Last(f) \in Range(f)
  BY <1>1, ElementOfSeq, SMTT(30) DEF Last, Range
<1>5. ASSUME NEW x \in Range(f), x # Last(f) PROVE x \in Range(Front(f))
  <2>1. PICK i \in 1..Len(f) : f[i] = x
    BY <1>1 DEF Range
  <2>2. i \in 1..(Len(f) - 1)
    BY <2>1, <1>5, <1>1, SMTT(30) DEF Last
  <2> QED BY <2>1, <2>2, <1>2, <1>3 DEF Range
<1>6. ASSUME NEW x \in Range(Front(f)) PROVE x \in Range(f) /\ x # Last(f)
  <2>1. PICK i \in 1..(Len(f) - 1) : f[i] = x
    BY <1>2, <1>3 DEF Range
  <2>2. i \in 1..Len(f) /\ i # Len(f) /\ Len(f) \in 1..Len(f)
    BY <1>0, <1>1
  <2> QED BY <2>1, <2>2, <1>1 DEF Last, Range
<1>7. \A i, j \in 1..(Len(f) - 1) : f[i] = f[j] => i = j
  BY <1>1, SMTT(30)
<1> QED BY <1>2, <1>4, <1>5, <1>6, <1>7, SMTT(30)

LEMMA PushFree ==
  ASSUME NEW f \in Seq(Slots), NEW slot \in Slots, slot \notin Range(f),
         \A i, j \in 1..Len(f) : f[i] = f[j] => i = j
  PROVE  /\ Append(f, slot) \in Seq(Slots)
         /\ \A i, j \in 1..Len(Append(f, slot)) :
              Append(f, slot)[i] = Append(f, slot)[j] => i = j
         /\ Range(Append(f, slot)) = Range(f) \cup {slot}
<1>1. /\ Append(f, slot) \in Seq(Slots)
      /\ Len(Append(f, slot)) = Len(f) + 1
      /\ \A i \in 1..Len(f) : Append(f, slot)[i] = f[i]
      /\ Append(f, slot)[Len(f) + 1] = slot
      /\ Len(f) \in Nat
  BY AppendProperties, LenProperties, SMTT(30)
<1>2. DOMAIN f = 1..Len(f) /\ DOMAIN Append(f, slot) = 1..(Len(f) + 1)
  BY <1>1, LenProperties
<1>3. \A i \in 1..(Len(f) + 1) : i \in 1..Len(f) \/ i = Len(f) + 1
  BY <1>1, SMTT(30)
<1>4. \A i \in 1..Len(f) : f[i] # slot
  BY <1>2 DEF Range
<1>5. \A i \in 1..Len(f) : i \in 1..(Len(f) + 1)
  BY <1>1, SMTT(30)
<1>6. Len(f) + 1 \in 1..(Len(f) + 1)
  BY <1>1, SMTT(30)
<1> QED BY <1>1, <1>2, <1>3, <1>4, <1>5, <1>6, SMTT(30) DEF Range
-----------------------------------------------------------------------------
(* Everything that is reached is a slot. *)
LEMMA InUseSlots ==
  ASSUME LInv
  PROVE  /\ InUse \subseteq Slots
         /\ IsFiniteSet(Slots)
         /\ \A s \in Slots : s # nullptr
         /\ \A l \in Levels : l # nullptr /\ On(l) \subseteq InUse /\ IsFiniteSet(On(l))
<1>1. InUse \subseteq Slots
  BY SMTT(30) DEF LInv, Types, InUse, Ptr
<1>2. IsFiniteSet(Slots)
  BY FS_Interval, CapacityAssumption, SMTT(30) DEF Slots
<1>3. \A l \in Levels : On(l) \subseteq InUse
  BY DEF On
<1> QED BY <1>1, <1>2, <1>3, FS_Subset, NullptrAssumption

LEMMA InitWellFormed == Init => LInv
<1> SUFFICES ASSUME Init PROVE LInv
  OBVIOUS
<1>1. InUse = {}
  BY DEF Init, InUse
<1>2. \A l \in Levels : On(l) = {}
  BY <1>1 DEF On
<1>3. /\ free_list_ \in Seq(Slots) /\ Len(free_list_) = capacity
      /\ \A i \in 1..capacity : free_list_[i] = capacity - i
  <2>1. \A i \in 1..capacity : capacity - i \in Slots
    BY CapacityAssumption, SMTT(30) DEF Slots
  <2> QED BY <2>1, IsASeq, CapacityAssumption, SMTT(30) DEF Init
<1>4. Types
  BY <1>3 DEF Init, Types, Order, Ptr
<1>5. Range(free_list_) = Slots
  <2>1. DOMAIN free_list_ = 1..capacity
    BY DEF Init
  <2>2. ASSUME NEW s \in Slots PROVE s \in Range(free_list_)
    <3>1. capacity - s \in 1..capacity /\ capacity - (capacity - s) = s
      BY CapacityAssumption, SMTT(30) DEF Slots
    <3> QED BY <2>1, <3>1, <1>3 DEF Range
  <2>3. ASSUME NEW i \in 1..capacity PROVE free_list_[i] \in Slots
    BY <1>3, CapacityAssumption, SMTT(30) DEF Slots
  <2> QED BY <2>1, <2>2, <2>3 DEF Range
<1>6. \A i, j \in 1..capacity : capacity - i = capacity - j => i = j
  BY CapacityAssumption, SMTT(30)
<1>7. PoolAgrees
  BY <1>1, <1>3, <1>5, <1>6, SMTT(30) DEF PoolAgrees
<1>8. SizesAgree
  BY <1>2, FS_EmptySet DEF Init, SizesAgree
<1>9. OrdersFound /\ LinksAgree /\ EndsAgree
  BY <1>1, <1>2 DEF Init, OrdersFound, LinksAgree, EndsAgree
<1> QED BY <1>4, <1>7, <1>8, <1>9 DEF LInv
-----------------------------------------------------------------------------
(* rest(): the slot it takes was free, and is linked behind the tail.      *)
LEMMA RestStep ==
  ASSUME LInv, NEW id \in OrderIds, NEW l \in Levels, rest(id, l)
  PROVE  LInv' /\ Joins(id, l, Last(free_list_))
<1> DEFINE slot == Last(free_list_)
           tail == levels[l].tail
<1>0. Types /\ OrdersFound /\ LinksAgree /\ EndsAgree /\ SizesAgree /\ PoolAgrees
  BY DEF LInv
<1>1. /\ slot \in Slots /\ slot \notin InUse
      /\ free_list_' \in Seq(Slots)
      /\ \A i, j \in 1..Len(free_list_') : free_list_'[i] = free_list_'[j] => i = j
      /\ Range(free_list_') = (Slots \ InUse) \ {slot}
  <2>1. free_list_ # <<>> /\ free_list_' = Front(free_list_)
    BY DEF rest
  <2>2. free_list_ \in Seq(Slots) /\ Range(free_list_) = Slots \ InUse
    BY <1>0 DEF Types, PoolAgrees
  <2>3. \A i, j \in 1..Len(free_list_) : free_list_[i] = free_list_[j] => i = j
    BY <1>0 DEF PoolAgrees
  <2> QED BY <2>1, <2>2, <2>3, PopFree
<1>2. /\ InUse \subseteq Slots /\ IsFiniteSet(Slots) /\ nullptr \notin Slots
      /\ \A k \in Levels : k # nullptr /\ On(k) \subseteq InUse /\ IsFiniteSet(On(k))
  BY InUseSlots, NullptrAssumption
<1>3. tail \in Ptr /\ (tail # nullptr => tail \in On(l) /\ tail # slot)
  BY <1>0, <1>1, <1>2 DEF Types, EndsAgree
<1>4. /\ orders_[id] = nullptr
      /\ orders_' = [orders_ EXCEPT ![id] = slot]
      /\ arena_' = push(allocate(arena_, slot, Order(id, l)), levels[l], slot).arena
      /\ levels' = [levels EXCEPT ![l] = push(allocate(arena_, slot, Order(id, l)), levels[l], slot).q]
  BY DEF rest
<1>5. levels' = [levels EXCEPT ![l] =
                   [head |-> IF levels[l].head = nullptr THEN slot ELSE levels[l].head,
                    tail |-> slot, size_ |-> levels[l].size_ + 1]]
  BY <1>4 DEF push
<1>6. arena_' = [s \in Slots |->
                   IF s = slot
                   THEN [id_ |-> id, level |-> l, prev_ |-> tail, next_ |-> nullptr]
                   ELSE [arena_[s] EXCEPT !.next_ = IF s = tail THEN slot ELSE @]]
  <2> DEFINE new == [arena_ EXCEPT ![slot] = Order(id, l)]
  <2>1. /\ new = [s \in Slots |-> IF s = slot THEN Order(id, l) ELSE arena_[s]]
        /\ arena_' = push(new, levels[l], slot).arena
    BY <1>0, <1>1, <1>4 DEF allocate, Types
  <2>2. /\ \A s \in Slots : arena_[s] \in [id_ : OrderIds \cup {nullptr}, level : Levels \cup {nullptr},
                                          prev_ : Ptr, next_ : Ptr]
        /\ slot \in Slots
    BY <1>0, <1>1 DEF Types
  <2> HIDE DEF slot, tail, new
  <2>3. CASE tail = nullptr
    <3>1. arena_' = new
      BY <2>1, <2>3 DEF push, tail
    <3>2. \A s \in Slots : s # tail /\ arena_[s] = [arena_[s] EXCEPT !.next_ = @]
      BY <2>2, <2>3, <1>2
    <3>3. Order(id, l) = [id_ |-> id, level |-> l, prev_ |-> tail, next_ |-> nullptr]
      BY <2>3 DEF Order
    <3> QED BY <2>1, <3>1, <3>2, <3>3
  <2>4. CASE tail # nullptr
    <3>1. arena_' = [new EXCEPT ![tail].next_ = slot, ![slot].prev_ = tail]
      BY <2>1, <2>4 DEF push, tail
    <3>2. tail \in Slots /\ tail # slot
      BY <2>4, <1>2, <1>3
    <3>3. new[slot] = [id_ |-> id, level |-> l, prev_ |-> nullptr, next_ |-> nullptr]
      BY <2>1, <2>2 DEF Order
    <3>4. \A s \in Slots : s # tail => arena_[s] = [arena_[s] EXCEPT !.next_ = @]
      BY <2>2
    <3> QED BY <2>1, <2>2, <3>1, <3>2, <3>3, <3>4, SMTT(30)
  <2> QED BY <2>3, <2>4
<1> HIDE DEF slot, tail
<1>7. Types'
  <2>1. arena_' \in [Slots -> [id_ : OrderIds \cup {nullptr}, level : Levels \cup {nullptr},
                              prev_ : Ptr, next_ : Ptr]]
    <3>1. slot \in Ptr /\ nullptr \in Ptr
      BY <1>1 DEF Ptr
    <3>2. ASSUME NEW s \in Slots
          PROVE  arena_'[s] \in [id_ : OrderIds \cup {nullptr}, level : Levels \cup {nullptr},
                                prev_ : Ptr, next_ : Ptr]
      <4>1. arena_[s] \in [id_ : OrderIds \cup {nullptr}, level : Levels \cup {nullptr},
                          prev_ : Ptr, next_ : Ptr]
        BY <1>0 DEF Types
      <4> QED BY <4>1, <3>1, <1>3, <1>6
    <3> QED BY <3>2, <1>6
  <2>2. levels' \in [Levels -> [head : Ptr, tail : Ptr, size_ : Nat]]
    BY <1>0, <1>1, <1>5, SMTT(30) DEF Types, Ptr
  <2>3. orders_' \in [OrderIds -> Ptr]
    BY <1>0, <1>1, <1>4 DEF Types, Ptr
  <2> QED BY <2>1, <2>2, <2>3, <1>1 DEF Types
<1>8. InUse' = InUse \cup {slot}
  BY <1>0, <1>1, <1>2, <1>4, SMTT(30) DEF InUse, Types
<1>9. /\ arena_'[slot].id_ = id /\ arena_'[slot].level = l
      /\ arena_'[slot].prev_ = tail /\ arena_'[slot].next_ = nullptr
      /\ \A s \in InUse :
           /\ arena_'[s].id_ = arena_[s].id_ /\ arena_'[s].level = arena_[s].level
           /\ arena_'[s].prev_ = arena_[s].prev_
           /\ arena_'[s].next_ = IF s = tail THEN slot ELSE arena_[s].next_
  BY <1>0, <1>1, <1>2, <1>6, SMTT(30) DEF Types
<1>10. /\ On(l)' = On(l) \cup {slot}
       /\ \A k \in Levels : k # l => On(k)' = On(k)
  BY <1>1, <1>8, <1>9, SMTT(30) DEF On
<1>11. /\ levels'[l].head = IF levels[l].head = nullptr THEN slot ELSE levels[l].head
       /\ levels'[l].tail = slot
       /\ levels'[l].size_ = levels[l].size_ + 1
       /\ \A k \in Levels : k # l => levels'[k] = levels[k]
  BY <1>0, <1>5 DEF Types
<1>12. OrdersFound'
  <2>1. ASSUME NEW x \in OrderIds, orders_'[x] # nullptr PROVE arena_'[orders_'[x]].id_ = x
    <3>1. CASE x = id
      BY <3>1, <1>0, <1>4, <1>9 DEF Types
    <3>2. CASE x # id
      <4>1. orders_'[x] = orders_[x] /\ orders_[x] \in InUse
        BY <3>2, <2>1, <1>0, <1>4 DEF Types, InUse
      <4> QED BY <4>1, <2>1, <1>0, <1>9 DEF OrdersFound
    <3> QED BY <3>1, <3>2
  <2>2. ASSUME NEW s \in InUse' PROVE arena_'[s].level \in Levels
    BY <1>0, <1>8, <1>9 DEF OrdersFound
  <2> QED BY <2>1, <2>2 DEF OrdersFound
<1>13. EndsAgree'
  BY <1>0, <1>1, <1>2, <1>10, <1>11, SMTT(30) DEF EndsAgree
<1>14. SizesAgree'
  <2>1. Cardinality(On(l) \cup {slot}) = Cardinality(On(l)) + 1
    BY <1>1, <1>2, FS_AddElement
  <2> QED BY <2>1, <1>0, <1>10, <1>11 DEF SizesAgree
<1>15. PoolAgrees'
  BY <1>1, <1>8 DEF PoolAgrees
<1>16. LinksAgree'
  <2>1. ASSUME NEW k \in Levels, NEW s \in On(k)', k # l
        PROVE  /\ arena_'[s].prev_ = nullptr <=> levels'[k].head = s
               /\ arena_'[s].next_ = nullptr <=> levels'[k].tail = s
               /\ arena_'[s].prev_ # nullptr =>
                    arena_'[s].prev_ \in On(k)' /\ arena_'[arena_'[s].prev_].next_ = s
               /\ arena_'[s].next_ # nullptr =>
                    arena_'[s].next_ \in On(k)' /\ arena_'[arena_'[s].next_].prev_ = s
    <3>1. s \in On(k) /\ s \in InUse /\ On(k)' = On(k) /\ levels'[k] = levels[k]
      BY <2>1, <1>2, <1>10, <1>11
    <3>2. \A t \in On(k) : t \in InUse /\ t # tail
      BY <2>1, <1>2, <1>3 DEF On
    <3> QED BY <3>1, <3>2, <1>0, <1>9, SMTT(30) DEF LinksAgree
  <2>2. ASSUME NEW s \in On(l)'
        PROVE  /\ arena_'[s].prev_ = nullptr <=> levels'[l].head = s
               /\ arena_'[s].next_ = nullptr <=> levels'[l].tail = s
               /\ arena_'[s].prev_ # nullptr =>
                    arena_'[s].prev_ \in On(l)' /\ arena_'[arena_'[s].prev_].next_ = s
               /\ arena_'[s].next_ # nullptr =>
                    arena_'[s].next_ \in On(l)' /\ arena_'[arena_'[s].next_].prev_ = s
    <3>1. CASE s = slot
      <4>1. levels[l].head = nullptr <=> tail = nullptr
        BY <1>0 DEF EndsAgree, tail
      <4>2. levels[l].head # slot /\ slot # nullptr
        BY <1>0, <1>1, <1>2, SMTT(30) DEF EndsAgree
      <4>3. tail # nullptr => tail \in On(l)' /\ arena_'[tail].next_ = slot
        BY <1>2, <1>3, <1>9, <1>10
      <4> QED BY <3>1, <4>1, <4>2, <4>3, <1>9, <1>11
    <3>2. CASE s # slot
      <4>1. s \in On(l) /\ s \in InUse /\ \A t \in On(l) : t \in InUse /\ t # slot
        BY <3>2, <1>1, <1>2, <1>10, SMTT(30)
      <4>2. /\ arena_[s].prev_ = nullptr <=> levels[l].head = s
            /\ arena_[s].next_ = nullptr <=> tail = s
            /\ arena_[s].prev_ # nullptr =>
                 arena_[s].prev_ \in On(l) /\ arena_[arena_[s].prev_].next_ = s
            /\ arena_[s].next_ # nullptr =>
                 arena_[s].next_ \in On(l) /\ arena_[arena_[s].next_].prev_ = s
        BY <4>1, <1>0 DEF LinksAgree, tail
      <4>3. /\ arena_'[s].prev_ = nullptr <=> levels'[l].head = s
            /\ arena_'[s].next_ = nullptr <=> levels'[l].tail = s
        BY <3>2, <4>1, <4>2, <1>1, <1>2, <1>9, <1>11, SMTT(30)
      <4>4. arena_'[s].prev_ # nullptr =>
              arena_'[s].prev_ \in On(l)' /\ arena_'[arena_'[s].prev_].next_ = s
        <5> SUFFICES ASSUME arena_[s].prev_ # nullptr
                     PROVE  arena_[s].prev_ \in On(l)' /\ arena_'[arena_[s].prev_].next_ = s
          BY <1>9, <4>1
        <5>1. arena_[s].prev_ \in On(l) /\ arena_[arena_[s].prev_].next_ = s
          BY <4>2
        <5>2. arena_[s].prev_ # tail
          BY <5>1, <4>1, <1>0, <1>2, SMTT(30) DEF LinksAgree, tail
        <5> QED BY <5>1, <5>2, <4>1, <1>9, <1>10
      <4>5. arena_'[s].next_ # nullptr =>
              arena_'[s].next_ \in On(l)' /\ arena_'[arena_'[s].next_].prev_ = s
        BY <4>1, <4>2, <1>9, <1>10, SMTT(30)
      <4> QED BY <4>3, <4>4, <4>5
    <3> QED BY <3>1, <3>2
  <2> QED BY <2>1, <2>2, SMTT(30) DEF LinksAgree
<1>17. Joins(id, l, slot)
  BY <1>1, <1>9, <1>10, <1>11 DEF Joins, tail
<1> QED BY <1>7, <1>12, <1>13, <1>14, <1>15, <1>16, <1>17 DEF LInv, slot

(* unlink() and release(): the neighbours are linked to each other, and the *)
(* slot is nobody's any more.                                               *)
LEMMA UnlinkStep ==
  ASSUME LInv, NEW id \in OrderIds, unlink_release(id)
  PROVE  LInv' /\ Leaves(arena_[orders_[id]].level, orders_[id])
<1>s. PICK slot, l, p, n :
           /\ slot = orders_[id] /\ l = arena_[slot].level
           /\ p = arena_[slot].prev_ /\ n = arena_[slot].next_
  OBVIOUS
<1>0. Types /\ OrdersFound /\ LinksAgree /\ EndsAgree /\ SizesAgree /\ PoolAgrees
  BY DEF LInv
<1>1. /\ InUse \subseteq Slots /\ IsFiniteSet(Slots) /\ nullptr \notin Slots
      /\ \A k \in Levels : k # nullptr /\ On(k) \subseteq InUse /\ IsFiniteSet(On(k))
  BY InUseSlots, NullptrAssumption
<1>2. /\ slot \in InUse /\ slot \in Slots /\ slot # nullptr
      /\ l \in Levels /\ slot \in On(l)
  <2>1. slot \in InUse
    BY <1>s DEF unlink_release, InUse
  <2> QED BY <2>1, <1>s, <1>0, <1>1 DEF OrdersFound, On
<1>3. /\ p = nullptr <=> levels[l].head = slot
      /\ n = nullptr <=> levels[l].tail = slot
      /\ p # nullptr => p \in On(l) /\ arena_[p].next_ = slot
      /\ n # nullptr => n \in On(l) /\ arena_[n].prev_ = slot
  BY <1>s, <1>0, <1>2, SMTT(30) DEF LinksAgree
<1>4. p \in Ptr /\ n \in Ptr
  BY <1>s, <1>0, <1>2 DEF Types
<1>5. /\ orders_' = [orders_ EXCEPT ![id] = nullptr]
      /\ free_list_' = Append(free_list_, slot)
      /\ arena_' = remove(arena_, levels[l], slot).arena
      /\ levels' = [levels EXCEPT ![l] = remove(arena_, levels[l], slot).q]
  BY <1>s DEF unlink_release
<1>6. /\ arena_' = [s \in Slots |-> [arena_[s] EXCEPT
                      !.next_ = IF s = p THEN n ELSE @, !.prev_ = IF s = n THEN p ELSE @]]
      /\ levels' = [levels EXCEPT ![l] =
                      [head |-> IF p = nullptr THEN n ELSE levels[l].head,
                       tail |-> IF n = nullptr THEN p ELSE levels[l].tail,
                       size_ |-> levels[l].size_ - 1]]
  BY <1>s, <1>5 DEF remove
<1>7. \A s \in Slots :
        /\ arena_'[s] \in [id_ : OrderIds \cup {nullptr}, level : Levels \cup {nullptr},
                           prev_ : Ptr, next_ : Ptr]
        /\ arena_'[s].id_ = arena_[s].id_ /\ arena_'[s].level = arena_[s].level
        /\ arena_'[s].next_ = IF s = p THEN n ELSE arena_[s].next_
        /\ arena_'[s].prev_ = IF s = n THEN p ELSE arena_[s].prev_
  <2> TAKE s \in Slots
  <2>1. arena_[s] \in [id_ : OrderIds \cup {nullptr}, level : Levels \cup {nullptr},
                      prev_ : Ptr, next_ : Ptr]
    BY <1>0 DEF Types
  <2> QED BY <2>1, <1>4, <1>6
<1>8. /\ levels'[l].head = IF p = nullptr THEN n ELSE levels[l].head
      /\ levels'[l].tail = IF n = nullptr THEN p ELSE levels[l].tail
      /\ levels'[l].size_ = levels[l].size_ - 1
      /\ \A k \in Levels : k # l => levels'[k] = levels[k]
  BY <1>0, <1>2, <1>6 DEF Types
<1>9. InUse' = InUse \ {slot}
  <2>1. \A x \in OrderIds : x # id => orders_[x] # slot
    BY <1>s, <1>0, <1>2 DEF OrdersFound
  <2> QED BY <2>1, <1>s, <1>0, <1>2, <1>5, SMTT(30) DEF InUse, Types
<1>10. /\ On(l)' = On(l) \ {slot}
       /\ \A k \in Levels : k # l => On(k)' = On(k)
  <2>1. slot \notin On(l)' /\ \A k \in Levels : k # l => slot \notin On(k)
    BY <1>2, <1>9 DEF On
  <2> QED BY <2>1, <1>1, <1>2, <1>7, <1>9, SMTT(30) DEF On
<1>11. Cardinality(On(l) \ {slot}) = Cardinality(On(l)) - 1
       /\ Cardinality(On(l)) - 1 \in Nat
  <2>1. IsFiniteSet(On(l) \ {slot}) /\ Cardinality(On(l) \ {slot}) = Cardinality(On(l)) - 1
    BY <1>1, <1>2, FS_RemoveElement
  <2> QED BY <2>1, FS_CardinalityType
<1>12. Types'
  <2>1. arena_' \in [Slots -> [id_ : OrderIds \cup {nullptr}, level : Levels \cup {nullptr},
                              prev_ : Ptr, next_ : Ptr]]
    BY <1>6, <1>7
  <2>2. levels[l].size_ - 1 \in Nat
    BY <1>0, <1>2, <1>11 DEF SizesAgree
  <2>3. levels' \in [Levels -> [head : Ptr, tail : Ptr, size_ : Nat]]
    BY <2>2, <1>0, <1>2, <1>4, <1>6 DEF Types
  <2>4. orders_' \in [OrderIds -> Ptr]
    BY <1>0, <1>5 DEF Types, Ptr
  <2>5. free_list_' \in Seq(Slots)
    BY <1>0, <1>2, <1>5, AppendProperties DEF Types
  <2> QED BY <2>1, <2>3, <2>4, <2>5 DEF Types
<1>13. OrdersFound'
  <2>1. ASSUME NEW x \in OrderIds, orders_'[x] # nullptr PROVE arena_'[orders_'[x]].id_ = x
    <3>1. x # id /\ orders_'[x] = orders_[x]
      BY <2>1, <1>0, <1>5 DEF Types
    <3> QED BY <2>1, <3>1, <1>0, <1>1, <1>7, SMTT(30) DEF OrdersFound, Types, Ptr
  <2>2. ASSUME NEW s \in InUse' PROVE arena_'[s].level \in Levels
    BY <1>0, <1>1, <1>7, <1>9 DEF OrdersFound
  <2> QED BY <2>1, <2>2 DEF OrdersFound
<1>14. SizesAgree'
  BY <1>0, <1>2, <1>8, <1>10, <1>11 DEF SizesAgree
<1>15. PoolAgrees'
  <2>1. slot \notin Range(free_list_) /\ free_list_ \in Seq(Slots)
    BY <1>0, <1>2 DEF PoolAgrees, Types
  <2>2. \A i, j \in 1..Len(free_list_) : free_list_[i] = free_list_[j] => i = j
    BY <1>0 DEF PoolAgrees
  <2>3. /\ \A i, j \in 1..Len(free_list_') : free_list_'[i] = free_list_'[j] => i = j
        /\ Range(free_list_') = Range(free_list_) \cup {slot}
    BY <2>1, <2>2, <1>2, <1>5, PushFree
  <2> QED BY <2>3, <1>0, <1>1, <1>2, <1>9, SMTT(30) DEF PoolAgrees
<1>16. EndsAgree'
  <2>1. /\ levels[l].head # nullptr => levels[l].head \in On(l)
        /\ levels[l].tail # nullptr => levels[l].tail \in On(l)
        /\ levels[l].head = nullptr <=> levels[l].tail = nullptr
    BY <1>0, <1>2 DEF EndsAgree
  <2>2. p = slot <=> n = slot
    BY <1>s, <1>2, <1>3
  <2>3. /\ levels'[l].head # nullptr => levels'[l].head \in On(l)'
        /\ levels'[l].tail # nullptr => levels'[l].tail \in On(l)'
        /\ levels'[l].head = nullptr <=> levels'[l].tail = nullptr
    BY <2>1, <2>2, <1>2, <1>3, <1>8, <1>10
  <2> QED BY <2>3, <1>0, <1>8, <1>10 DEF EndsAgree
<1>17. LinksAgree'
  <2> SUFFICES ASSUME NEW k \in Levels, NEW s \in On(k)'
      PROVE  /\ arena_'[s].prev_ = nullptr <=> levels'[k].head = s
             /\ arena_'[s].next_ = nullptr <=> levels'[k].tail = s
             /\ arena_'[s].prev_ # nullptr =>
                  arena_'[s].prev_ \in On(k)' /\ arena_'[arena_'[s].prev_].next_ = s
             /\ arena_'[s].next_ # nullptr =>
                  arena_'[s].next_ \in On(k)' /\ arena_'[arena_'[s].next_].prev_ = s
    BY DEF LinksAgree
  <2>1. /\ s \in On(k) /\ s # slot
        /\ \A t \in On(k) : t \in Slots
    BY <1>1, <1>2, <1>9, <1>10 DEF On
  <2>2. \A t \in On(k) :
          /\ arena_[t].prev_ = nullptr <=> levels[k].head = t
          /\ arena_[t].next_ = nullptr <=> levels[k].tail = t
          /\ arena_[t].prev_ # nullptr =>
               arena_[t].prev_ \in On(k) /\ arena_[arena_[t].prev_].next_ = t
          /\ arena_[t].next_ # nullptr =>
               arena_[t].next_ \in On(k) /\ arena_[arena_[t].next_].prev_ = t
    BY <1>0 DEF LinksAgree
  <2>3. CASE k # l
    <3>1. \A t \in On(k) : t # p /\ t # n
      BY <2>3, <1>1, <1>3, <2>1 DEF On
    <3> QED BY <2>1, <2>2, <2>3, <3>1, <1>7, <1>8, <1>10, SMTT(30)
  <2>4. CASE k = l
    <3>1. arena_[slot].prev_ = p /\ arena_[slot].next_ = n /\ slot \in On(l)
      BY <1>s, <1>2
    <3>2. s = p \/ arena_[s].next_ # slot
      BY <2>1, <2>2, <2>4, <3>1, <1>2
    <3>3. s = n \/ arena_[s].prev_ # slot
      BY <2>1, <2>2, <2>4, <3>1, <1>2
    <3>4. /\ arena_'[s].prev_ = nullptr <=> levels'[l].head = s
          /\ arena_'[s].next_ = nullptr <=> levels'[l].tail = s
      BY <2>1, <2>2, <2>4, <3>1, <3>2, <3>3, <1>1, <1>2, <1>3, <1>7, <1>8, SMTT(30)
    <3>5. arena_'[s].prev_ # nullptr =>
            arena_'[s].prev_ \in On(l)' /\ arena_'[arena_'[s].prev_].next_ = s
      <4>1. CASE s = n
        BY <4>1, <2>1, <2>2, <2>4, <3>1, <1>1, <1>2, <1>3, <1>7, <1>10, SMTT(30)
      <4>2. CASE s # n
        BY <4>2, <2>1, <2>2, <2>4, <3>1, <3>3, <1>1, <1>2, <1>3, <1>7, <1>10, SMTT(30)
      <4> QED BY <4>1, <4>2
    <3>6. arena_'[s].next_ # nullptr =>
            arena_'[s].next_ \in On(l)' /\ arena_'[arena_'[s].next_].prev_ = s
      <4>1. CASE s = p
        BY <4>1, <2>1, <2>2, <2>4, <3>1, <1>1, <1>2, <1>3, <1>7, <1>10, SMTT(30)
      <4>2. CASE s # p
        BY <4>2, <2>1, <2>2, <2>4, <3>1, <3>2, <1>1, <1>2, <1>3, <1>7, <1>10, SMTT(30)
      <4> QED BY <4>1, <4>2
    <3> QED BY <2>4, <3>4, <3>5, <3>6
  <2> QED BY <2>3, <2>4
<1>18. Leaves(l, slot)
  BY <1>s, <1>1, <1>2, <1>7, <1>8, <1>10 DEF Leaves
<1> QED BY <1>s, <1>12, <1>13, <1>14, <1>15, <1>16, <1>17, <1>18 DEF LInv
-----------------------------------------------------------------------------
Longer(n, c, slot) == [i \in 1..(n + 1) |-> IF i = n + 1 THEN slot ELSE c[i]]
Shorter(n, c, k) == [i \in 1..(n - 1) |-> IF i < k THEN c[i] ELSE c[i + 1]]

(* The links after slot is put behind the tail. *)
Pushed(S, next, tail, slot, after) ==
  /\ nullptr \notin S /\ slot \notin S
  /\ \A s \in S : next[s] = nullptr <=> tail = s
  /\ after[slot] = nullptr
  /\ \A s \in S : after[s] = IF s = tail THEN slot ELSE next[s]

(* A list with a slot behind its tail. *)
LEMMA ListLonger ==
  ASSUME NEW n, NEW c, NEW S, NEW head, NEW next, List(n, c, S, head, next),
         NEW slot, NEW tail, NEW after, Pushed(S, next, tail, slot, after)
  PROVE  List(n + 1, Longer(n, c, slot), S \cup {slot},
              IF head = nullptr THEN slot ELSE head, after)
<1>0. /\ n \in Nat /\ c \in [1..n -> S]
      /\ head = IF n = 0 THEN nullptr ELSE c[1]
      /\ \A i \in 1..n : next[c[i]] = IF i = n THEN nullptr ELSE c[i + 1]
      /\ \A i, j \in 1..n : c[i] = c[j] => i = j
      /\ \A s \in S : \E i \in 1..n : c[i] = s
  BY DEF List
<1>s. /\ nullptr \notin S /\ slot \notin S
      /\ \A s \in S : next[s] = nullptr <=> tail = s
      /\ after[slot] = nullptr
      /\ \A s \in S : after[s] = IF s = tail THEN slot ELSE next[s]
  BY DEF Pushed
<1>n. /\ n + 1 \in Nat /\ n + 1 # 0 /\ n + 1 \in 1..(n + 1)
      /\ \A i \in 1..n : i \in 1..(n + 1) /\ i # n + 1 /\ i + 1 \in 1..(n + 1)
      /\ \A i \in 1..n : i + 1 = n + 1 <=> i = n
      /\ \A i \in 1..(n + 1) : i \in 1..n \/ i = n + 1
      /\ n = 0 => n + 1 = 1
      /\ n # 0 => 1 \in 1..n
      /\ \A i \in 1..n : i # n => i + 1 \in 1..n
  BY <1>0, SMTT(30)
<1>1. PICK d : d = Longer(n, c, slot)
  OBVIOUS
<1>2. /\ d \in [1..(n + 1) -> S \cup {slot}]
      /\ d[n + 1] = slot
      /\ \A i \in 1..n : d[i] = c[i] /\ d[i] \in S
  BY <1>0, <1>1, <1>n DEF Longer
<1>3. (IF head = nullptr THEN slot ELSE head) = IF n + 1 = 0 THEN nullptr ELSE d[1]
  BY <1>0, <1>2, <1>s, <1>n
<1>4. ASSUME NEW i \in 1..(n + 1)
      PROVE  after[d[i]] = IF i = n + 1 THEN nullptr ELSE d[i + 1]
  <2>1. CASE i = n + 1
    BY <2>1, <1>2, <1>s
  <2>2. CASE i # n + 1
    <3>1. i \in 1..n /\ d[i] = c[i] /\ c[i] \in S
      BY <2>2, <1>2, <1>n
    <3>2. next[c[i]] = IF i = n THEN nullptr ELSE c[i + 1]
      BY <3>1, <1>0
    <3>3. CASE i = n
      <4>1. c[i] = tail /\ after[c[i]] = slot
        BY <3>1, <3>2, <3>3, <1>s
      <4> QED BY <4>1, <2>2, <3>1, <3>3, <1>2
    <3>4. CASE i # n
      <4>1. i + 1 \in 1..n /\ d[i + 1] = c[i + 1] /\ c[i + 1] \in S
        BY <3>1, <3>4, <1>2, <1>n
      <4>2. c[i] # tail
        BY <4>1, <3>1, <3>2, <3>4, <1>s
      <4> QED BY <4>1, <4>2, <2>2, <3>1, <3>2, <3>4, <1>s
    <3> QED BY <3>3, <3>4
  <2> QED BY <2>1, <2>2
<1>5. ASSUME NEW i \in 1..(n + 1), NEW j \in 1..(n + 1), d[i] = d[j] PROVE i = j
  <2>1. (i \in 1..n \/ i = n + 1) /\ (j \in 1..n \/ j = n + 1)
    BY <1>n
  <2>2. (i \in 1..n => d[i] = c[i] /\ d[i] # slot) /\ (j \in 1..n => d[j] = c[j] /\ d[j] # slot)
    BY <1>2, <1>s
  <2>3. i \in 1..n /\ j \in 1..n /\ c[i] = c[j] => i = j
    BY <1>0
  <2> QED BY <2>1, <2>2, <2>3, <1>2, <1>5
<1>6. ASSUME NEW s \in S \cup {slot} PROVE \E i \in 1..(n + 1) : d[i] = s
  <2>1. CASE s = slot
    BY <2>1, <1>2, <1>n
  <2>2. CASE s \in S
    <3>1. PICK i \in 1..n : c[i] = s
      BY <2>2, <1>0
    <3>2. i \in 1..(n + 1) /\ d[i] = s
      BY <3>1, <1>2, <1>n
    <3> QED BY <3>2
  <2> QED BY <2>1, <2>2
<1> QED BY <1>1, <1>2, <1>3, <1>4, <1>5, <1>6, <1>n DEF List

(* A list without its k-th slot, once the neighbours are linked. *)
LEMMA ListShorter ==
  ASSUME NEW n, NEW c, NEW S, NEW head, NEW next, List(n, c, S, head, next),
         nullptr \notin S, NEW k \in 1..n,
         NEW prev, prev = nullptr <=> head = c[k],
         \A s \in S : next[s] = c[k] => prev = s,
         NEW after,
         \A s \in S : after[s] = IF s = prev THEN next[c[k]] ELSE next[s]
  PROVE  List(n - 1, Shorter(n, c, k), S \ {c[k]},
              IF prev = nullptr THEN next[c[k]] ELSE head, after)
<1>0. /\ n \in Nat /\ c \in [1..n -> S]
      /\ head = IF n = 0 THEN nullptr ELSE c[1]
      /\ \A i \in 1..n : next[c[i]] = IF i = n THEN nullptr ELSE c[i + 1]
      /\ \A i, j \in 1..n : c[i] = c[j] => i = j
      /\ \A s \in S : \E i \in 1..n : c[i] = s
  BY DEF List
<1>n. /\ n # 0 /\ n - 1 \in Nat /\ 1 \in 1..n /\ k \in Nat
      /\ \A i \in 1..(n - 1) : i \in 1..n /\ i + 1 \in 1..n /\ i # n
      /\ k # 1 => k - 1 \in 1..n /\ k - 1 # n /\ k - 1 + 1 = k
      /\ k # n => k \in 1..(n - 1) /\ k + 1 \in 1..n
      /\ n = 1 => k = 1 /\ n - 1 = 0
      /\ n # 1 => n - 1 # 0 /\ 1 \in 1..(n - 1)
      /\ ~ (k < k)
      /\ \A i \in 1..n : i < k => i \in 1..(n - 1) /\ i # k
      /\ \A i \in 1..n : i # k /\ ~ (i < k) => i - 1 \in 1..(n - 1) /\ ~ (i - 1 < k) /\ i - 1 + 1 = i
      /\ \A i \in 1..(n - 1) : ~ (i < k) => i + 1 # k
      /\ 1 # k => 1 < k
      /\ ~ (1 < 1) /\ 1 + 1 = 2
  BY <1>0, SMTT(30)
<1>1. PICK d : d = Shorter(n, c, k)
  OBVIOUS
<1>2. PICK S2 : S2 = S \ {c[k]}
  OBVIOUS
<1>3. \A i \in 1..(n - 1) : d[i] = IF i < k THEN c[i] ELSE c[i + 1]
  BY <1>1 DEF Shorter
<1>4. ASSUME NEW i \in 1..(n - 1)
      PROVE  (i < k => c[i] # c[k]) /\ (~ (i < k) => c[i + 1] # c[k])
  <2>1. i \in 1..n /\ i + 1 \in 1..n /\ (i < k => i # k) /\ (~ (i < k) => i + 1 # k)
    BY <1>n
  <2>2. (c[i] = c[k] => i = k) /\ (c[i + 1] = c[k] => i + 1 = k)
    BY <2>1, <1>0
  <2> QED BY <2>1, <2>2
<1>5. ASSUME NEW i \in 1..(n - 1) PROVE d[i] \in S2
  <2>1. i \in 1..n /\ i + 1 \in 1..n
    BY <1>n
  <2>2. c[i] \in S /\ c[i + 1] \in S
    BY <2>1, <1>0
  <2> QED BY <2>2, <1>2, <1>3, <1>4
<1>6. d \in [1..(n - 1) -> S2]
  BY <1>1, <1>5 DEF Shorter
<1>7. prev = IF k = 1 THEN nullptr ELSE c[k - 1]
  <2>1. head = c[1]
    BY <1>0, <1>n
  <2>2. CASE k = 1
    BY <2>1, <2>2
  <2>3. CASE k # 1
    <3>1. k - 1 \in 1..n /\ k - 1 # n /\ k - 1 + 1 = k
      BY <2>3, <1>n
    <3>2. next[c[k - 1]] = IF k - 1 = n THEN nullptr ELSE c[k - 1 + 1]
      BY <3>1, <1>0
    <3>3. c[k - 1] \in S /\ next[c[k - 1]] = c[k]
      BY <3>1, <3>2, <1>0
    <3> QED BY <2>3, <3>3
  <2> QED BY <2>2, <2>3
<1>8. next[c[k]] = IF k = n THEN nullptr ELSE c[k + 1]
  BY <1>0
<1>9. (IF prev = nullptr THEN next[c[k]] ELSE head) = IF n - 1 = 0 THEN nullptr ELSE d[1]
  <2>1. CASE k = 1
    BY <2>1, <1>3, <1>7, <1>8, <1>n
  <2>2. CASE k # 1
    <3>1. prev # nullptr /\ 1 < k /\ n # 1
      BY <2>2, <1>0, <1>7, <1>n
    <3> QED BY <3>1, <1>0, <1>3, <1>n
  <2> QED BY <2>1, <2>2
<1>10. ASSUME NEW i \in 1..(n - 1)
       PROVE  after[d[i]] = IF i = n - 1 THEN nullptr ELSE d[i + 1]
  <2>n. /\ i = n - 1 <=> i + 1 = n
        /\ i # n - 1 => i + 1 \in 1..(n - 1) /\ i + 1 + 1 \in 1..n
        /\ ~ (i < k) => ~ (i + 1 < k)
        /\ i < k /\ i # k - 1 => i + 1 < k /\ i # n - 1
        /\ i = k - 1 => i < k /\ k # 1 /\ i + 1 = k
        /\ i = k - 1 => (i = n - 1 <=> k = n)
        /\ ~ (i < k) => i + 1 # k - 1
    BY <1>0, <1>n, SMTT(30)
  <2>1. CASE i = k - 1
    <3>1. d[i] = c[k - 1] /\ c[k - 1] \in S /\ after[d[i]] = next[c[k]]
      BY <2>1, <2>n, <1>0, <1>3, <1>7, <1>n
    <3>2. k # n => d[i + 1] = c[k + 1]
      BY <2>1, <2>n, <1>3, <1>n
    <3> QED BY <2>1, <2>n, <3>1, <3>2, <1>8
  <2>2. CASE i < k /\ i # k - 1
    <3>1. d[i] = c[i] /\ c[i] \in S /\ next[c[i]] = c[i + 1]
      BY <2>2, <1>0, <1>3, <1>n
    <3>2. c[i] # prev
      BY <2>2, <3>1, <1>0, <1>7, <1>n
    <3>3. d[i + 1] = c[i + 1]
      BY <2>2, <2>n, <1>3
    <3> QED BY <2>2, <2>n, <3>1, <3>2, <3>3
  <2>3. CASE ~ (i < k)
    <3>1. /\ d[i] = c[i + 1] /\ c[i + 1] \in S
          /\ next[c[i + 1]] = IF i + 1 = n THEN nullptr ELSE c[i + 1 + 1]
      BY <2>3, <1>0, <1>3, <1>n
    <3>2. c[i + 1] # prev
      BY <2>3, <2>n, <3>1, <1>0, <1>7, <1>n
    <3>3. i # n - 1 => d[i + 1] = c[i + 1 + 1]
      BY <2>3, <2>n, <1>3
    <3> QED BY <2>n, <3>1, <3>2, <3>3
  <2> QED BY <2>1, <2>2, <2>3
<1>11. ASSUME NEW i \in 1..(n - 1), NEW j \in 1..(n - 1), d[i] = d[j] PROVE i = j
  <2>0. /\ d[i] = c[IF i < k THEN i ELSE i + 1]
        /\ d[j] = c[IF j < k THEN j ELSE j + 1]
    BY <1>3
  <2>1. (IF i < k THEN i ELSE i + 1) = (IF j < k THEN j ELSE j + 1)
    <3>1. PICK x, y : x = (IF i < k THEN i ELSE i + 1) /\ y = IF j < k THEN j ELSE j + 1
      OBVIOUS
    <3>2. x \in 1..n /\ y \in 1..n
      BY <3>1, <1>n
    <3>3. c[x] = c[y]
      BY <3>1, <2>0, <1>11
    <3>4. x = y
      BY <3>2, <3>3, <1>0
    <3> QED BY <3>1, <3>4
  <2> QED BY <2>1, <1>0, <1>n, SMTT(30)
<1>12. ASSUME NEW s \in S2 PROVE \E i \in 1..(n - 1) : d[i] = s
  <2>1. PICK i \in 1..n : c[i] = s /\ i # k
    BY <1>0, <1>2
  <2>2. CASE i < k
    BY <2>1, <2>2, <1>3, <1>n
  <2>3. CASE ~ (i < k)
    <3>1. i - 1 \in 1..(n - 1) /\ ~ (i - 1 < k) /\ i - 1 + 1 = i
      BY <2>1, <2>3, <1>n
    <3>2. d[i - 1] = s
      BY <3>1, <2>1, <1>3
    <3> QED BY <3>1, <3>2
  <2> QED BY <2>2, <2>3
<1> QED BY <1>1, <1>2, <1>6, <1>9, <1>10, <1>11, <1>12, <1>n DEF List
-----------------------------------------------------------------------------
(* A level that has not changed is found as it was. *)
LEMMA OthersListed ==
  ASSUME NEW k, NEW n, NEW c, Listed(k, n, c), On(k)' = On(k), levels'[k] = levels[k],
         \A s \in On(k) : arena_'[s].next_ = arena_[s].next_
  PROVE  Listed(k, n, c)'
<1>1. Nexts(k)' = Nexts(k)
  BY DEF Nexts
<1> QED BY <1>1 DEF Listed, List

(* The level an order joins has it behind the others, *)
LEMMA JoinLists ==
  ASSUME LInv, NEW id, NEW l \in Levels, NEW slot, Joins(id, l, slot), NEW n, NEW c
  PROVE  /\ Listed(l, n, c) => Listed(l, n + 1, Longer(n, c, slot))'
         /\ \A k \in Levels : k # l /\ Listed(k, n, c) => Listed(k, n, c)'
<1>0. /\ InUse \subseteq Slots /\ nullptr \notin Slots
      /\ \A k \in Levels : On(k) \subseteq InUse
  BY InUseSlots, NullptrAssumption
<1>1. ASSUME Listed(l, n, c) PROVE Listed(l, n + 1, Longer(n, c, slot))'
  <2>1. PICK S, head, next, tail, after :
          /\ S = On(l) /\ head = levels[l].head /\ next = Nexts(l)
          /\ tail = levels[l].tail /\ after = Nexts(l)'
    OBVIOUS
  <2>2. List(n, c, S, head, next)
    BY <1>1, <2>1 DEF Listed
  <2>3. nullptr \notin S /\ slot \notin S
    BY <2>1, <1>0 DEF Joins
  <2>4. \A s \in S : next[s] = nullptr <=> tail = s
    BY <2>1 DEF LInv, LinksAgree, Nexts
  <2>5. after[slot] = nullptr
    BY <2>1 DEF Joins, Nexts
  <2>6. \A s \in S : after[s] = IF s = tail THEN slot ELSE next[s]
    BY <2>1, <1>0 DEF Joins, Nexts
  <2>7. List(n + 1, Longer(n, c, slot), S \cup {slot}, IF head = nullptr THEN slot ELSE head, after)
    <3>1. Pushed(S, next, tail, slot, after)
      BY <2>3, <2>4, <2>5, <2>6 DEF Pushed
    <3> QED BY <2>2, <3>1, ListLonger
  <2>8. n + 1 = levels'[l].size_ /\ On(l)' = S \cup {slot}
        /\ levels'[l].head = IF head = nullptr THEN slot ELSE head
    BY <1>1, <2>1 DEF Listed, Joins
  <2>9. List(n + 1, Longer(n, c, slot), On(l)', levels'[l].head, after)
    BY <2>7, <2>8
  <2> QED BY <2>1, <2>8, <2>9 DEF Listed, List, Longer
<1>2. ASSUME NEW k \in Levels, k # l, Listed(k, n, c) PROVE Listed(k, n, c)'
  <2>1. \A s \in On(k) : s # levels[l].tail
    BY <1>2, <1>0 DEF LInv, EndsAgree, On
  <2>2. On(k)' = On(k) /\ levels'[k] = levels[k]
    BY <1>2 DEF Joins
  <2>3. \A s \in On(k) : arena_'[s].next_ = arena_[s].next_
    BY <2>1, <1>0 DEF Joins
  <2> QED BY <1>2, <2>2, <2>3, OthersListed
<1> QED BY <1>1, <1>2

(* and the one it leaves has the others. *)
LEMMA LeaveLists ==
  ASSUME LInv, NEW l \in Levels, NEW slot, Leaves(l, slot), NEW n, NEW c
  PROVE  /\ \A k \in 1..n : Listed(l, n, c) /\ c[k] = slot =>
              Listed(l, n - 1, Shorter(n, c, k))'
         /\ \A k \in Levels : k # l /\ Listed(k, n, c) => Listed(k, n, c)'
<1>0. /\ InUse \subseteq Slots /\ nullptr \notin Slots
      /\ \A k \in Levels : On(k) \subseteq InUse
      /\ l \in Levels /\ slot \in On(l)
  BY InUseSlots, NullptrAssumption DEF Leaves
<1>1. ASSUME NEW k \in 1..n, Listed(l, n, c), c[k] = slot
      PROVE  Listed(l, n - 1, Shorter(n, c, k))'
  <2>1. PICK S, head, next, prev, after :
          /\ S = On(l) /\ head = levels[l].head /\ next = Nexts(l)
          /\ prev = arena_[slot].prev_ /\ after = Nexts(l)'
    OBVIOUS
  <2>2. List(n, c, S, head, next)
    BY <1>1, <2>1 DEF Listed
  <2>3. nullptr \notin S
    BY <2>1, <1>0
  <2>4. prev = nullptr <=> head = c[k]
    BY <2>1, <1>0, <1>1 DEF LInv, LinksAgree
  <2>5. ASSUME NEW s \in S, next[s] = c[k] PROVE prev = s
    <3>1. arena_[s].next_ = slot /\ slot # nullptr
      BY <2>1, <2>5, <1>0, <1>1 DEF Nexts
    <3> QED BY <3>1, <2>1, <1>0 DEF LInv, LinksAgree
  <2>6. next[slot] = arena_[slot].next_
    BY <2>1, <1>0 DEF Nexts
  <2>7. PICK new : new = [s \in S |-> IF s = prev THEN next[c[k]] ELSE next[s]]
    OBVIOUS
  <2>8. List(n - 1, Shorter(n, c, k), S \ {c[k]}, IF prev = nullptr THEN next[c[k]] ELSE head, new)
    <3>1. \A s \in S : new[s] = IF s = prev THEN next[c[k]] ELSE next[s]
      BY <2>7
    <3> QED BY <3>1, <2>2, <2>3, <2>4, <2>5, ListShorter
  <2>9. \A s \in S \ {c[k]} : after[s] = new[s]
    BY <2>1, <2>6, <2>7, <1>0, <1>1 DEF Leaves, Nexts
  <2>10. /\ n - 1 = levels'[l].size_ /\ On(l)' = S \ {c[k]}
         /\ levels'[l].head = IF prev = nullptr THEN next[c[k]] ELSE head
    BY <1>1, <2>1, <2>6 DEF Listed, Leaves
  <2>11. PICK d : d = Shorter(n, c, k)
    OBVIOUS
  <2>12. List(n - 1, d, On(l)', levels'[l].head, new)
    BY <2>8, <2>10, <2>11
  <2>13. \A i \in 1..(n - 1) : after[d[i]] = new[d[i]]
    BY <2>9, <2>10, <2>12 DEF List
  <2>14. List(n - 1, d, On(l)', levels'[l].head, after)
    BY <2>12, <2>13 DEF List
  <2> QED BY <2>1, <2>10, <2>11, <2>14 DEF Listed, List, Shorter
<1>2. ASSUME NEW k \in Levels, k # l, Listed(k, n, c) PROVE Listed(k, n, c)'
  <2>1. ASSUME NEW s \in On(k) PROVE s # arena_[slot].prev_
    <3>1. arena_[slot].prev_ # nullptr => arena_[slot].prev_ \in On(l)
      BY <1>0 DEF LInv, LinksAgree
    <3>2. s # nullptr /\ s \notin On(l)
      BY <1>2, <1>0 DEF On
    <3> QED BY <3>1, <3>2
  <2>2. On(k)' = On(k) /\ levels'[k] = levels[k]
    BY <1>2 DEF Leaves
  <2>3. \A s \in On(k) : arena_'[s].next_ = arena_[s].next_
    BY <2>1, <1>0 DEF Leaves
  <2> QED BY <1>2, <2>2, <2>3, OthersListed
<1> QED BY <1>1, <1>2

LEMMA InitIInv == Init => IInv
<1> SUFFICES ASSUME Init PROVE IInv
  OBVIOUS
<1>1. PICK c : c = [i \in 1..0 |-> 0]
  OBVIOUS
<1>2. \A l \in Levels : On(l) = {}
  BY DEF Init, On, InUse
<1>3. 0 \in Nat /\ ~ \E i \in 1..0 : TRUE
  BY SMTT(30)
<1>4. \A l \in Levels : Listed(l, 0, c)
  <2>1. c \in [1..0 -> {}]
    BY <1>1, <1>3
  <2>2. \A l \in Levels : levels[l].head = nullptr /\ levels[l].size_ = 0
    BY DEF Init
  <2> QED BY <2>1, <2>2, <1>2, <1>3 DEF Listed, List
<1>5. Chained
  BY <1>4 DEF Chained
<1> QED BY <1>5, InitWellFormed DEF IInv

LEMMA RestKeeps ==
  ASSUME IInv, NEW id \in OrderIds, NEW l \in Levels, rest(id, l)
  PROVE  IInv'
<1>1. PICK slot : slot = Last(free_list_)
  OBVIOUS
<1>2. LInv /\ LInv' /\ Joins(id, l, slot)
  BY <1>1, RestStep DEF IInv
<1>3. ASSUME NEW k \in Levels PROVE \E n, c : Listed(k, n, c)'
  <2>1. PICK n, c : Listed(k, n, c)
    BY DEF IInv, Chained
  <2> QED BY <2>1, <1>2, JoinLists
<1>4. Chained'
  BY <1>3 DEF Chained
<1> QED BY <1>2, <1>4 DEF IInv

LEMMA UnlinkKeeps ==
  ASSUME IInv, NEW id \in OrderIds, unlink_release(id)
  PROVE  IInv'
<1>1. PICK slot, l : slot = orders_[id] /\ l = arena_[slot].level
  OBVIOUS
<1>s. LInv /\ LInv' /\ Leaves(l, slot)
  BY <1>1, UnlinkStep DEF IInv
<1>2. LInv /\ LInv' /\ Leaves(l, slot) /\ l \in Levels
  BY <1>s DEF Leaves
<1>3. ASSUME NEW k \in Levels PROVE \E n, c : Listed(k, n, c)'
  <2>1. PICK n, c : Listed(k, n, c)
    BY DEF IInv, Chained
  <2>2. CASE k = l
    <3>1. PICK i \in 1..n : c[i] = slot
      <4>1. slot \in On(l) /\ Listed(l, n, c)
        BY <2>1, <2>2, <1>2 DEF Leaves
      <4> QED BY <4>1 DEF Listed, List
    <3>2. Listed(l, n, c) /\ c[i] = slot => Listed(l, n - 1, Shorter(n, c, i))'
      BY <1>2, LeaveLists
    <3> QED BY <3>1, <3>2, <2>1, <2>2
  <2>3. CASE k # l
    <3>1. Listed(k, n, c) => Listed(k, n, c)'
      BY <2>3, <1>2, LeaveLists
    <3> QED BY <3>1, <2>1
  <2> QED BY <2>2, <2>3
<1>4. Chained'
  BY <1>3 DEF Chained
<1> QED BY <1>2, <1>4 DEF IInv

LEMMA StutterKeeps ==
  ASSUME IInv, UNCHANGED vars
  PROVE  IInv'
<1>1. InUse' = InUse /\ \A l : On(l)' = On(l)
  BY DEF vars, On, InUse
<1>2. Types' /\ OrdersFound' /\ PoolAgrees'
  BY <1>1 DEF vars, IInv, LInv, Types, OrdersFound, PoolAgrees
<1>3. LinksAgree'
  BY <1>1 DEF vars, IInv, LInv, LinksAgree
<1>4. EndsAgree' /\ SizesAgree'
  BY <1>1 DEF vars, IInv, LInv, EndsAgree, SizesAgree
<1>5. ASSUME NEW k \in Levels PROVE \E n, c : Listed(k, n, c)'
  <2>1. PICK n, c : Listed(k, n, c)
    BY DEF IInv, Chained
  <2>2. levels' = levels /\ arena_' = arena_
    BY DEF vars
  <2>3. Listed(k, n, c)'
    BY <1>1, <2>1, <2>2, OthersListed
  <2> QED BY <2>3
<1>6. Chained'
  BY <1>5 DEF Chained
<1> QED BY <1>2, <1>3, <1>4, <1>6 DEF IInv, LInv

LEMMA StepKeeps == IInv /\ [Next]_vars => IInv'
  BY RestKeeps, UnlinkKeeps, StutterKeeps DEF Next

(* Whatever is rested and unlinked, in any order: the links of every level *)
(* agree in both directions, with its ends and with its size, a level with *)
(* an order has a head, and no slot is handed out while an order still     *)
(* uses it.                                                                *)
THEOREM SpecListsWellFormed == Spec => []ListsWellFormed
<1>1. IInv => ListsWellFormed
  <2> SUFFICES ASSUME IInv PROVE ListsWellFormed
    OBVIOUS
  <2>1. ASSUME NEW l \in Levels, On(l) # {} PROVE levels[l].head # nullptr
    <3>1. PICK n, c : Listed(l, n, c)
      BY DEF IInv, Chained
    <3>2. PICK s \in On(l) : \E k \in 1..n : c[k] = s
      <4>1. PICK s \in On(l) : TRUE
        BY <2>1
      <4> QED BY <4>1, <3>1 DEF Listed, List
    <3>3. n # 0 /\ 1 \in 1..n
      BY <3>1, <3>2, SMTT(30) DEF Listed, List
    <3>4. levels[l].head \in On(l)
      BY <3>1, <3>3 DEF Listed, List
    <3> QED BY <3>4, InUseSlots DEF IInv
  <2>2. HeadsFound
    BY <2>1 DEF HeadsFound
  <2> QED BY <2>2 DEF IInv, LInv, ListsWellFormed
<1> QED BY <1>1, InitIInv, StepKeeps, PTL DEF Spec
-----------------------------------------------------------------------------
(* A level has no more orders than the pool has slots. *)
LEMMA SizeFits ==
  ASSUME IInv, NEW l \in Levels
  PROVE  levels[l].size_ <= capacity
<1>1. IsFiniteSet(Slots) /\ Cardinality(Slots) = capacity
  <2>1. 0 \in Int /\ capacity - 1 \in Int
    BY CapacityAssumption, SMTT(30)
  <2>2. /\ IsFiniteSet(Slots)
        /\ Cardinality(Slots) = IF 0 > capacity - 1 THEN 0 ELSE capacity - 1 - 0 + 1
    BY <2>1, FS_Interval DEF Slots
  <2> QED BY <2>2, CapacityAssumption, SMTT(30)
<1>2. On(l) \in SUBSET Slots
  BY InUseSlots DEF IInv
<1>3. Cardinality(On(l)) <= Cardinality(Slots)
  BY <1>1, <1>2, FS_Subset
<1> QED BY <1>1, <1>3 DEF IInv, LInv, SizesAgree

(* So the walk from the head ends, and has found the list of the level. *)
LEMMA ChainIs ==
  ASSUME IInv, NEW l \in Levels, NEW n, NEW c, Listed(l, n, c)
  PROVE  Chain(l) = c
<1>0. /\ n \in Nat /\ c \in [1..n -> On(l)]
      /\ levels[l].head = IF n = 0 THEN nullptr ELSE c[1]
      /\ \A i \in 1..n : arena_[c[i]].next_ = IF i = n THEN nullptr ELSE c[i + 1]
  BY DEF Listed, List, Nexts
<1>c. n <= capacity /\ capacity \in Nat
  BY SizeFits, CapacityAssumption DEF Listed
<1>n. \A i \in 1..n : c[i] # nullptr
  BY <1>0, InUseSlots DEF IInv
<1> DEFINE N == capacity + 1
           Walked(at, i) == IF i = 1 THEN levels[l].head
                            ELSE IF at[i - 1] = nullptr THEN nullptr ELSE arena_[at[i - 1]].next_
           f == CHOOSE at : at = [i \in 1..N |-> Walked(at, i)]
<1>2. Chain(l) = [i \in {j \in 1..N : f[j] # nullptr} |-> f[i]]
  BY DEF Chain
<1>3. PICK h : h = [i \in 1..N |-> IF i <= n THEN c[i] ELSE nullptr]
  OBVIOUS
<1>4. ASSUME NEW i \in 1..N PROVE h[i] = Walked(h, i)
  <2>1. CASE i = 1
    <3>1. i <= n <=> n # 0
      BY <2>1, <1>0, SMTT(30)
    <3> QED BY <2>1, <3>1, <1>0, <1>3
  <2>2. CASE i # 1
    <3>1. /\ i - 1 \in 1..N
          /\ i - 1 <= n => i - 1 \in 1..n /\ i - 1 + 1 = i /\ (i <= n <=> i - 1 # n)
          /\ ~ (i - 1 <= n) => ~ (i <= n)
      BY <2>2, <1>0, <1>c, SMTT(30)
    <3>2. h[i - 1] = IF i - 1 <= n THEN c[i - 1] ELSE nullptr
      BY <3>1, <1>3
    <3>3. i - 1 <= n => c[i - 1] # nullptr /\ arena_[c[i - 1]].next_ = IF i - 1 = n THEN nullptr ELSE c[i]
      BY <3>1, <1>0, <1>n
    <3>4. h[i] = IF i <= n THEN c[i] ELSE nullptr
      BY <1>3
    <3> QED BY <2>2, <3>1, <3>2, <3>3, <3>4
  <2> QED BY <2>1, <2>2
<1>5. h = [i \in 1..N |-> Walked(h, i)]
  BY <1>3, <1>4
<1>6. f = [i \in 1..N |-> Walked(f, i)]
  BY <1>5
<1> HIDE DEF f
<1>7. \A i \in 1..N : f[i] = h[i]
  <2> DEFINE bad == {i \in 1..N : f[i] # h[i]}
  <2> SUFFICES ASSUME bad # {} PROVE FALSE
    OBVIOUS
  <2>1. bad \in SUBSET Nat
    BY SMTT(30)
  <2>2. PICK p \in bad : \A q \in bad : p <= q
    <3> HIDE DEF bad
    <3> QED BY <2>1, LeastExists
  <2>3. p \in 1..N /\ f[p] = Walked(f, p) /\ h[p] = Walked(h, p) /\ f[p] # h[p]
    BY <1>4, <1>6
  <2>4. p # 1
    BY <2>3
  <2>5. p - 1 \in 1..N /\ ~ (p <= p - 1)
    BY <2>3, <2>4, <1>c, SMTT(30)
  <2>6. f[p - 1] = h[p - 1]
    BY <2>2, <2>5
  <2> QED BY <2>3, <2>6
<1>8. {j \in 1..N : f[j] # nullptr} = 1..n
  <2>1. ASSUME NEW j \in 1..N PROVE f[j] # nullptr <=> j \in 1..n
    <3>1. j <= n <=> j \in 1..n
      BY <1>0, <1>c, SMTT(30)
    <3> QED BY <3>1, <1>3, <1>7, <1>n
  <2>2. \A j \in 1..n : j \in 1..N
    BY <1>0, <1>c, SMTT(30)
  <2> QED BY <2>1, <2>2
<1>9. ASSUME NEW i \in 1..n PROVE f[i] = c[i]
  <2>1. i \in 1..N /\ i <= n
    BY <1>0, <1>c, SMTT(30)
  <2> QED BY <2>1, <1>3, <1>7
<1>10. Chain(l) = [i \in 1..n |-> c[i]]
  BY <1>2, <1>8, <1>9
<1> QED BY <1>10, <1>0

Ids(n, c) == [i \in 1..n |-> arena_[c[i]].id_]
QueuesShown == \A l \in Levels : \A n, c : Listed(l, n, c) => Queue(l) = Ids(n, c)

LEMMA QueueIs == IInv => QueuesShown
<1> SUFFICES ASSUME IInv, NEW l \in Levels, NEW n, NEW c, Listed(l, n, c)
             PROVE  Queue(l) = Ids(n, c)
  BY DEF QueuesShown
<1>1. Chain(l) = c
  BY ChainIs
<1>2. DOMAIN c = 1..n
  BY DEF Listed, List
<1> QED BY <1>1, <1>2 DEF Queue, Ids

LEMMA QueueIsAfter == IInv' => QueuesShown'
  BY QueueIs, PTL
-----------------------------------------------------------------------------
(* A level where nothing changes has the orders it had. *)
LEMMA SameQueue ==
  ASSUME IInv, IInv', NEW k \in Levels, NEW n, NEW c, Listed(k, n, c), Listed(k, n, c)',
         \A s \in On(k) : arena_'[s].id_ = arena_[s].id_
  PROVE  Queue(k)' = Queue(k)
<1>1. Queue(k) = [i \in 1..n |-> arena_[c[i]].id_]
  BY QueueIs DEF QueuesShown, Ids
<1>2. Queue(k)' = [i \in 1..n |-> arena_'[c[i]].id_]
  BY QueueIsAfter DEF QueuesShown, Ids
<1>3. \A i \in 1..n : c[i] \in On(k)
  BY DEF Listed, List
<1> QED BY <1>1, <1>2, <1>3

(* A sequence with one more element at its end. *)
LEMMA AppendIs ==
  ASSUME NEW X, NEW n \in Nat, NEW q \in [1..n -> X], NEW e \in X
  PROVE  Append(q, e) = [i \in 1..(n + 1) |-> IF i = n + 1 THEN e ELSE q[i]]
<1>1. q \in Seq(X) /\ Len(q) = n
  BY SMTT(30)
<1>2. PICK p : p = Append(q, e)
  OBVIOUS
<1>3. /\ p \in Seq(X) /\ Len(p) = n + 1
      /\ \A i \in 1..n : p[i] = q[i]
      /\ p[n + 1] = e
  BY <1>1, <1>2, SMTT(30)
<1>4. \A i \in 1..(n + 1) : i \in 1..n \/ i = n + 1
  BY SMTT(30)
<1>5. p \in [1..(n + 1) -> X]
  BY <1>3, LenProperties
<1>6. \A i \in 1..(n + 1) : p[i] = IF i = n + 1 THEN e ELSE q[i]
  BY <1>3, <1>4
<1> QED BY <1>2, <1>5, <1>6

(* rest() appends to the queue of the level. *)
LEMMA RestRefines ==
  ASSUME IInv, IInv', NEW id \in OrderIds, NEW l \in Levels, rest(id, l)
  PROVE  Abstract!Rest(id, l)
<1>1. PICK slot : slot = Last(free_list_)
  OBVIOUS
<1>2. LInv /\ Joins(id, l, slot)
  BY <1>1, RestStep DEF IInv
<1>3. PICK n, c : Listed(l, n, c)
  BY DEF IInv, Chained
<1>4. Listed(l, n + 1, Longer(n, c, slot))'
  BY <1>2, <1>3, JoinLists
<1>5. \A k \in Levels : On(k) \subseteq InUse
  BY DEF On
<1>6. ASSUME NEW k \in Levels, k # l PROVE Queue(k)' = Queue(k)
  <2>1. PICK m, d : Listed(k, m, d)
    BY DEF IInv, Chained
  <2>2. Listed(k, m, d)'
    BY <1>2, <1>6, <2>1, JoinLists
  <2>3. \A s \in On(k) : arena_'[s].id_ = arena_[s].id_
    BY <1>2, <1>5 DEF Joins
  <2> QED BY <2>1, <2>2, <2>3, SameQueue
<1>7. Queue(l)' = Append(Queue(l), id)
  <2>1. PICK q, r : q = Queue(l) /\ r = Queue(l)'
    OBVIOUS
  <2>2. n \in Nat /\ \A i \in 1..n : c[i] \in On(l) /\ c[i] \in InUse /\ c[i] \in Slots
    BY <1>2, <1>3, <1>5, InUseSlots DEF Listed, List
  <2>3. q = [i \in 1..n |-> arena_[c[i]].id_]
    <3>1. Queue(l) = Ids(n, c)
      BY <1>3, QueueIs DEF QueuesShown
    <3> QED BY <3>1, <2>1 DEF Ids
  <2>4. r = [i \in 1..(n + 1) |-> arena_'[Longer(n, c, slot)[i]].id_]
    BY <2>1, <1>4, QueueIsAfter DEF QueuesShown, Ids
  <2>5. /\ n + 1 \in 1..(n + 1)
        /\ \A i \in 1..n : i \in 1..(n + 1) /\ i # n + 1
        /\ \A i \in 1..(n + 1) : i \in 1..n \/ i = n + 1
    BY <2>2, SMTT(30)
  <2>6. r[n + 1] = id
    BY <2>4, <2>5, <1>2 DEF Longer, Joins
  <2>7. ASSUME NEW i \in 1..n PROVE r[i] = q[i]
    <3>1. Longer(n, c, slot)[i] = c[i]
      BY <2>5 DEF Longer
    <3>2. arena_'[c[i]].id_ = arena_[c[i]].id_
      BY <2>2, <1>2 DEF Joins
    <3> QED BY <3>1, <3>2, <2>3, <2>4, <2>5
  <2>8. PICK X : X = OrderIds \cup {nullptr}
    OBVIOUS
  <2>9. \A i \in 1..n : q[i] \in X
    BY <2>2, <2>3, <2>8, <1>2 DEF LInv, Types
  <2>10. q \in [1..n -> X] /\ id \in X
    BY <2>3, <2>8, <2>9
  <2>11. Append(q, id) = [i \in 1..(n + 1) |-> IF i = n + 1 THEN id ELSE q[i]]
    BY <2>2, <2>10, AppendIs, SMTT(30)
  <2>12. \A i \in 1..(n + 1) : r[i] = IF i = n + 1 THEN id ELSE q[i]
    BY <2>5, <2>6, <2>7
  <2>13. DOMAIN r = 1..(n + 1) /\ r = [i \in 1..(n + 1) |-> r[i]]
    BY <2>4
  <2>14. r = [i \in 1..(n + 1) |-> IF i = n + 1 THEN id ELSE q[i]]
    BY <2>12, <2>13
  <2> QED BY <2>1, <2>11, <2>14
<1>8. ASSUME NEW k \in Levels PROVE id \notin Range(Queue(k))
  <2>1. PICK m, d : Listed(k, m, d)
    BY DEF IInv, Chained
  <2>2. Queue(k) = [i \in 1..m |-> arena_[d[i]].id_]
    BY <2>1, QueueIs DEF QueuesShown, Ids
  <2>3. ASSUME NEW i \in 1..m PROVE arena_[d[i]].id_ # id
    <3>1. d[i] \in InUse
      BY <2>1, <1>5 DEF Listed, List
    <3>2. PICK x \in OrderIds : d[i] = orders_[x] /\ orders_[x] # nullptr
      BY <3>1 DEF InUse
    <3>3. arena_[d[i]].id_ = x
      BY <3>2 DEF IInv, LInv, OrdersFound
    <3> QED BY <3>2, <3>3 DEF rest
  <2> QED BY <2>2, <2>3 DEF Range
<1>9. Len(free_list_) > 0 /\ Len(free_list_)' = Len(free_list_) - 1
  <2>1. free_list_ \in Seq(Slots) /\ free_list_ # <<>> /\ free_list_' = Front(free_list_)
    BY DEF IInv, LInv, Types, rest
  <2>2. \A i, j \in 1..Len(free_list_) : free_list_[i] = free_list_[j] => i = j
    BY DEF IInv, LInv, PoolAgrees
  <2>3. Len(free_list_) > 0 /\ Len(Front(free_list_)) = Len(free_list_) - 1
    BY <2>1, <2>2, PopFree
  <2> QED BY <2>1, <2>3
<1>10. [k \in Levels |-> Queue(k)]' = [[k \in Levels |-> Queue(k)] EXCEPT ![l] = Append(@, id)]
  BY <1>6, <1>7
<1>11. id \notin Abstract!Resting
  <2> SUFFICES ASSUME id \in Abstract!Resting PROVE FALSE
    OBVIOUS
  <2>1. PICK k \in Levels : id \in Abstract!Range([j \in Levels |-> Queue(j)][k])
    BY DEF Abstract!Resting
  <2>2. id \in Range(Queue(k))
    BY <2>1 DEF Abstract!Range, Range
  <2> QED BY <2>2, <1>8
<1> QED BY <1>9, <1>10, <1>11 DEF Abstract!Rest

(* unlink() and release() take the order out of the queue of its level. *)
LEMMA UnlinkRefines ==
  ASSUME IInv, IInv', NEW id \in OrderIds, unlink_release(id)
  PROVE  Abstract!Leave(id)
<1>1. PICK slot, l : slot = orders_[id] /\ l = arena_[slot].level
  OBVIOUS
<1>s. LInv /\ Leaves(l, slot)
  BY <1>1, UnlinkStep DEF IInv
<1>2. LInv /\ Leaves(l, slot) /\ l \in Levels /\ slot \in On(l)
  BY <1>s DEF Leaves
<1>3. PICK n, c : Listed(l, n, c)
  BY <1>2 DEF IInv, Chained
<1>4. PICK k \in 1..n : c[k] = slot
  BY <1>2, <1>3 DEF Listed, List
<1>5. Listed(l, n - 1, Shorter(n, c, k))'
  BY <1>2, <1>3, <1>4, LeaveLists
<1>6. \A j \in Levels : On(j) \subseteq InUse
  BY DEF On
<1>7. ASSUME NEW j \in Levels, j # l PROVE Queue(j)' = Queue(j)
  <2>1. PICK m, d : Listed(j, m, d)
    BY DEF IInv, Chained
  <2>2. Listed(j, m, d)'
    BY <1>2, <1>7, <2>1, LeaveLists
  <2>3. \A s \in On(j) : arena_'[s].id_ = arena_[s].id_
    BY <1>2, <1>6 DEF Leaves
  <2> QED BY <2>1, <2>2, <2>3, SameQueue
<1>8. PICK q : q = Queue(l)
  OBVIOUS
<1>9. q = [i \in 1..n |-> arena_[c[i]].id_]
  BY <1>2, <1>3, <1>8, QueueIs DEF QueuesShown, Ids
<1>10. /\ n \in Nat /\ \A i \in 1..n : c[i] \in On(l) /\ c[i] \in InUse
       /\ \A i, j \in 1..n : c[i] = c[j] => i = j
  BY <1>2, <1>3, <1>6 DEF Listed, List
<1>11. ASSUME NEW i \in 1..n PROVE q[i] = id <=> i = k
  <2>1. PICK x \in OrderIds : c[i] = orders_[x] /\ orders_[x] # nullptr
    <3>1. c[i] \in InUse
      BY <1>10
    <3> QED BY <3>1 DEF InUse
  <2>2. q[i] = x
    BY <2>1, <1>9 DEF IInv, LInv, OrdersFound
  <2>3. arena_[slot].id_ = id
    BY <1>1 DEF IInv, LInv, OrdersFound, unlink_release
  <2> QED BY <2>1, <2>2, <2>3, <1>1, <1>4, <1>9, <1>10
<1>12. /\ DOMAIN q = 1..n /\ Len(q) = n
       /\ (CHOOSE i \in DOMAIN q : q[i] = id) = k
  <2>1. DOMAIN q = 1..n
    BY <1>9
  <2>2. Len(q) = n
    BY <1>9, <1>10, SMTT(30)
  <2> QED BY <2>1, <2>2, <1>11
<1>13. Abstract!remove(q, id) = [i \in 1..(n - 1) |-> IF i < k THEN q[i] ELSE q[i + 1]]
  BY <1>12 DEF Abstract!remove
<1>14. Queue(l)' = Abstract!remove(q, id)
  <2>1. PICK r : r = Queue(l)'
    OBVIOUS
  <2>2. r = [i \in 1..(n - 1) |-> arena_'[Shorter(n, c, k)[i]].id_]
    BY <2>1, <1>2, <1>5, QueueIsAfter DEF QueuesShown, Ids
  <2>3. ASSUME NEW i \in 1..(n - 1) PROVE r[i] = IF i < k THEN q[i] ELSE q[i + 1]
    <3>1. i \in 1..n /\ i + 1 \in 1..n
      BY <1>10, SMTT(30)
    <3>2. Shorter(n, c, k)[i] = IF i < k THEN c[i] ELSE c[i + 1]
      BY DEF Shorter
    <3>3. /\ arena_'[c[i]].id_ = arena_[c[i]].id_
          /\ arena_'[c[i + 1]].id_ = arena_[c[i + 1]].id_
      BY <3>1, <1>2, <1>10 DEF Leaves
    <3> QED BY <3>1, <3>2, <3>3, <2>2, <1>9
  <2> QED BY <2>1, <2>2, <2>3, <1>13
<1>15. id \in Range(q)
  BY <1>4, <1>11, <1>12 DEF Range
<1>16. Len(free_list_)' = Len(free_list_) + 1
  <2>1. free_list_ \in Seq(Slots) /\ slot \in Slots /\ free_list_' = Append(free_list_, slot)
    BY <1>1, <1>2, <1>6, InUseSlots DEF LInv, Types, unlink_release
  <2> QED BY <2>1, AppendProperties
<1>17. [j \in Levels |-> Queue(j)]' =
         [[j \in Levels |-> Queue(j)] EXCEPT ![l] = Abstract!remove(@, id)]
  BY <1>2, <1>7, <1>8, <1>14
<1>18. id \in Abstract!Range([j \in Levels |-> Queue(j)][l])
  BY <1>2, <1>8, <1>15 DEF Range, Abstract!Range
<1> QED BY <1>2, <1>16, <1>17, <1>18 DEF Abstract!Leave

LEMMA LevelsStep == IInv /\ IInv' /\ [Next]_vars => [Abstract!LNext]_(Abstract!lvars)
<1> SUFFICES ASSUME IInv, IInv', [Next]_vars PROVE [Abstract!LNext]_(Abstract!lvars)
  OBVIOUS
<1>1. ASSUME NEW id \in OrderIds, NEW l \in Levels, rest(id, l) PROVE Abstract!LNext
  BY <1>1, RestRefines DEF Abstract!LNext
<1>2. ASSUME NEW id \in OrderIds, unlink_release(id) PROVE Abstract!LNext
  BY <1>2, UnlinkRefines DEF Abstract!LNext
<1>3. CASE UNCHANGED vars
  <2>1. ASSUME NEW k \in Levels PROVE Queue(k)' = Queue(k)
    <3>1. PICK n, c : Listed(k, n, c)
      BY DEF IInv, Chained
    <3>2. levels' = levels /\ arena_' = arena_ /\ On(k)' = On(k)
      BY <1>3 DEF vars, On, InUse
    <3>3. Listed(k, n, c)'
      BY <3>1, <3>2, OthersListed
    <3> QED BY <3>1, <3>2, <3>3, SameQueue
  <2>2. free_list_' = free_list_
    BY <1>3 DEF vars
  <2>3. Abstract!lvars' = Abstract!lvars
    BY <2>1, <2>2 DEF Abstract!lvars
  <2> QED BY <2>3
<1> QED BY <1>1, <1>2, <1>3 DEF Next

(* The linked lists and the stack of free slots implement the sequences of *)
(* orders and the number of free slots that Orderbook is written with: the *)
(* queue of a level, as a walk from its head finds it, changes by rest()   *)
(* at its end and by unlink() where the order was, and in no other way.    *)
THEOREM ListsImplementLevels == Spec => LevelsSpec
<1>1. Init => Abstract!LInit
  <2> SUFFICES ASSUME Init PROVE Abstract!LInit
    OBVIOUS
  <2>1. IInv
    BY InitIInv
  <2>2. ASSUME NEW l \in Levels PROVE Queue(l) = <<>>
    <3>1. PICK n, c : Listed(l, n, c)
      BY <2>1 DEF IInv, Chained
    <3>2. n = 0
      BY <3>1 DEF Listed, Init
    <3>3. Queue(l) = [i \in 1..0 |-> arena_[c[i]].id_]
      BY <2>1, <3>1, <3>2, QueueIs DEF QueuesShown, Ids
    <3> QED BY <3>3, SMTT(30)
  <2>3. Len(free_list_) = capacity
    BY CapacityAssumption, SMTT(30) DEF Init
  <2> QED BY <2>2, <2>3 DEF Abstract!LInit
<1> QED BY <1>1, InitIInv, StepKeeps, LevelsStep, PTL DEF Spec, LevelsSpec, Abstract!LSpec
=============================================================================
