--------------------------- MODULE OrderbookProofs ---------------------------
(***************************************************************************)
(* The invariants of Orderbook hold in every reachable state, whatever the *)
(* number of clients, orders, prices and pool slots.                       *)
(*                                                                         *)
(* None of them is inductive alone.  That a handler keeps the indexes of   *)
(* the book in agreement needs a free slot and a free id for the order it  *)
(* rests (RestIsSafe); that the book is not crossed needs the agreement,   *)
(* since crosses() looks at the cached best price only; that no order of   *)
(* size 0 or beyond MaxQuantity rests needs LiabilityKept.  Their          *)
(* conjunction is inductive.                                               *)
(*                                                                         *)
(* A book is good when it has its type and its indexes agree; the three    *)
(* things the handlers do to a book (rest an order, remove one, change the *)
(* shares of one) keep it good.                                            *)
(***************************************************************************)
EXTENDS EngineContract, FiniteSetTheorems, TLAPS

(* The prover, where no other is named. *)
USE ZenonT(30)
-----------------------------------------------------------------------------
(* Lists of orders and of messages.                                        *)

(* What Len, Append, Head and Tail give for a list. *)
LEMMA ListLength ==
  ASSUME NEW S, NEW q \in Seq(S)
  PROVE  /\ Len(q) \in Nat /\ DOMAIN q = 1..Len(q)
         /\ \A i \in 1..Len(q) : q[i] \in S
  BY SMTT(30)
LEMMA ListOf ==
  ASSUME NEW S, NEW n \in Nat, NEW q \in [1..n -> S]
  PROVE  q \in Seq(S) /\ Len(q) = n
  BY SMTT(30)
LEMMA ListEmpty ==
  ASSUME NEW S, NEW q \in Seq(S)
  PROVE  q = << >> <=> Len(q) = 0
  BY SMTT(30)
LEMMA ListHead ==
  ASSUME NEW S, NEW q \in Seq(S), q # << >>
  PROVE  Head(q) = q[1] /\ Head(q) \in S /\ Tail(q) \in Seq(S)
  BY SMTT(30)
LEMMA ListPush ==
  ASSUME NEW S, NEW q \in Seq(S), NEW x \in S
  PROVE  /\ Append(q, x) \in Seq(S) /\ Len(Append(q, x)) = Len(q) + 1
         /\ \A i \in 1..Len(q) : Append(q, x)[i] = q[i]
         /\ Append(q, x)[Len(q) + 1] = x
  BY SMTT(30)

(* The book has its type and its indexes agree. *)
Good(b) == b \in Book /\ BookInv(b)
-----------------------------------------------------------------------------
(* Prices.                                                                 *)

(* The order of the natural numbers. *)
Below == {pair \in Nat \X Nat : pair[1] < pair[2]}

(* Descending from a natural number ends. *)
LEMMA BelowWellFounded == IsWellFoundedOn(Below, Nat)
  BY NatLessThanWellFounded DEF OpToRel, Below

(* A nonempty set of naturals has a least element. *)
LEMMA LeastExists ==
  ASSUME NEW S \in SUBSET Nat, S # {}
  PROVE  \E p \in S : \A q \in S : p <= q
<1>1. PICK p \in S : \A q \in S : ~ (<<q, p>> \in Below)
  BY BelowWellFounded, WFMin
<1>2. ASSUME NEW q \in S PROVE p <= q
  <2>1. <<q, p>> \in Nat \X Nat /\ <<q, p>>[1] = q /\ <<q, p>>[2] = p
    OBVIOUS
  <2>2. ~ (q < p)
    BY <1>1, <2>1 DEF Below
  <2> QED BY <2>1, <2>2, SMTT(30)
<1> QED BY <1>2

(* A set of prices has a best one for either side. *)
LEMMA BestExists ==
  ASSUME NEW S \in SUBSET Prices, S # {}, NEW side \in Sides
  PROVE  \E p \in S : \A q \in S : ~ Better(side, q, p)
<1>0. S \subseteq Nat /\ \A q \in S : q <= MAX_PRICE /\ q \in Nat
  BY PriceAssumption, SMTT(30) DEF Prices
<1>1. CASE side = "ASK"
  <2>1. PICK p \in S : \A q \in S : p <= q
    BY <1>0, LeastExists
  <2> QED BY <2>1, <1>1, <1>0, SMTT(30) DEF Better
<1>2. CASE side = "BID"
  <2> DEFINE T == {MAX_PRICE - q : q \in S}
  <2>1. \A q \in S : MAX_PRICE - q \in Nat
    BY PriceAssumption, <1>0, SMTT(30)
  <2>2. T \subseteq Nat /\ T # {}
    BY <2>1
  <2> HIDE DEF T
  <2>3. PICK t \in T : \A u \in T : t <= u
    BY <2>2, LeastExists
  <2>4. PICK p \in S : t = MAX_PRICE - p
    BY <2>3 DEF T
  <2>5. \A q \in S : MAX_PRICE - q \in T
    BY DEF T
  <2>6. \A q \in S : ~ (q > p)
    BY <2>3, <2>4, <2>5, <1>0, PriceAssumption, SMTT(30)
  <2> QED BY <2>6, <1>2 DEF Better
<1> QED BY <1>1, <1>2 DEF Sides
-----------------------------------------------------------------------------
(* Queues of a price level.                                                *)

(* An order is in a queue, and no order twice. *)
Distinct(q) == \A i, j \in DOMAIN q : q[i] = q[j] => i = j
In(q, id) == \E i \in DOMAIN q : q[i] = id

(* remove() takes out one order of a level of distinct orders. *)
LEMMA RemoveFromLevel ==
  ASSUME NEW q \in Seq(OrderIds), Distinct(q), NEW id \in OrderIds, In(q, id)
  PROVE  /\ remove(q, id) \in Seq(OrderIds)
         /\ Distinct(remove(q, id))
         /\ \A x \in OrderIds : In(remove(q, id), x) <=> (In(q, x) /\ x # id)
         /\ KeepsPriority(q, remove(q, id))
<1> DEFINE i == CHOOSE k \in DOMAIN q : q[k] = id
           r == remove(q, id)
<1>0. Len(q) \in Nat /\ DOMAIN q = 1..Len(q)
  BY ListLength
<1>1. i \in 1..Len(q) /\ q[i] = id
  BY <1>0 DEF In
<1>2. r = [j \in 1..(Len(q) - 1) |-> IF j < i THEN q[j] ELSE q[j + 1]]
  BY DEF remove
<1> HIDE DEF i, r
<1>3. /\ r \in Seq(OrderIds) /\ Len(r) = Len(q) - 1
      /\ \A j \in 1..(Len(q) - 1) : r[j] = IF j < i THEN q[j] ELSE q[j + 1]
  <2>1. \A j \in 1..Len(q) : q[j] \in OrderIds
    BY ListLength
  <2>2. Len(q) - 1 \in Nat
    BY <1>0, <1>1, SMTT(30)
  <2>3. r \in [1..(Len(q) - 1) -> OrderIds]
    BY <2>1, <1>0, <1>1, <1>2, SMTT(30)
  <2> QED BY <2>2, <2>3, <1>2, ListOf, ListLength, SMTT(30)
<1>4. DOMAIN r = 1..(Len(q) - 1)
  BY <1>3, ListLength
<1> DEFINE At(j) == IF j < i THEN j ELSE j + 1
<1>5. \A j \in 1..(Len(q) - 1) : At(j) \in 1..Len(q) /\ At(j) # i /\ r[j] = q[At(j)]
  BY <1>0, <1>1, <1>3, SMTT(30)
<1>6. \A j, k \in 1..(Len(q) - 1) : At(j) = At(k) => j = k
  BY <1>0, <1>1, SMTT(30)
<1>7. \A k \in 1..Len(q) : k # i => \E j \in 1..(Len(q) - 1) : At(j) = k
  <2> SUFFICES ASSUME NEW k \in 1..Len(q), k # i
               PROVE  \E j \in 1..(Len(q) - 1) : At(j) = k
    OBVIOUS
  <2>1. CASE k < i
    <3>1. k \in 1..(Len(q) - 1) /\ At(k) = k
      BY <2>1, <1>0, <1>1, SMTT(30)
    <3> QED BY <3>1
  <2>2. CASE ~ (k < i)
    <3>1. k - 1 \in 1..(Len(q) - 1) /\ At(k - 1) = k
      BY <2>2, <1>0, <1>1, SMTT(30)
    <3> QED BY <3>1
  <2> QED BY <2>1, <2>2
<1> HIDE DEF At
<1>8. Distinct(r)
  BY <1>0, <1>4, <1>5, <1>6, SMTT(30) DEF Distinct
<1>9. ASSUME NEW x \in OrderIds PROVE In(r, x) <=> (In(q, x) /\ x # id)
  <2>1. In(r, x) => In(q, x) /\ x # id
    BY <1>0, <1>1, <1>4, <1>5 DEF In, Distinct
  <2>2. In(q, x) /\ x # id => In(r, x)
    <3> SUFFICES ASSUME NEW k \in 1..Len(q), q[k] = x, x # id PROVE In(r, x)
      BY <1>0 DEF In
    <3>1. k # i
      BY <1>1
    <3> QED BY <3>1, <1>7, <1>5, <1>4 DEF In
  <2> QED BY <2>1, <2>2
<1>10. KeepsPriority(q, r)
  <2> SUFFICES ASSUME NEW m \in 1..Len(q), NEW j \in 1..(Len(q) - 1), q[m] = r[j],
                      NEW ahead \in 1..(j - 1)
               PROVE  \E k \in 1..(m - 1) : q[k] = r[ahead]
    BY <1>0, <1>4 DEF KeepsPriority
  <2>1. m = At(j) /\ ahead \in 1..(Len(q) - 1)
    BY <1>0, <1>5, SMTT(30) DEF Distinct
  <2>2. At(ahead) \in 1..(At(j) - 1)
    BY <1>0, <1>1, SMTT(30) DEF At
  <2> QED BY <2>1, <2>2, <1>5
<1> QED BY <1>3, <1>8, <1>9, <1>10 DEF r

(* A level is empty when no order is in it. *)
LEMMA EmptyLevel ==
  ASSUME NEW q \in Seq(OrderIds)
  PROVE  q = <<>> <=> \A x \in OrderIds : ~ In(q, x)
<1>0. Len(q) \in Nat /\ DOMAIN q = 1..Len(q) /\ \A j \in 1..Len(q) : q[j] \in OrderIds
  BY ListLength
<1>1. q = <<>> => \A x \in OrderIds : ~ In(q, x)
  BY <1>0, SMTT(30) DEF In
<1>2. ASSUME q # <<>> PROVE \E x \in OrderIds : In(q, x)
  <2>1. 1 \in 1..Len(q)
    BY <1>0, <1>2, ListEmpty, SMTT(30)
  <2> QED BY <2>1, <1>0 DEF In
<1> QED BY <1>1, <1>2

(* push(): the new order is at the back, the others are where they were. *)
LEMMA AppendToLevel ==
  ASSUME NEW q \in Seq(OrderIds), Distinct(q), NEW id \in OrderIds, ~ In(q, id)
  PROVE  /\ Append(q, id) \in Seq(OrderIds)
         /\ Distinct(Append(q, id))
         /\ \A x \in OrderIds : In(Append(q, id), x) <=> (In(q, x) \/ x = id)
         /\ KeepsPriority(q, Append(q, id))
<1>0. Len(q) \in Nat /\ DOMAIN q = 1..Len(q)
  BY ListLength
<1>1. /\ Append(q, id) \in Seq(OrderIds) /\ Len(Append(q, id)) = Len(q) + 1
      /\ \A i \in 1..Len(q) : Append(q, id)[i] = q[i]
      /\ Append(q, id)[Len(q) + 1] = id
  BY ListPush, SMTT(30)
<1>2. DOMAIN Append(q, id) = 1..(Len(q) + 1)
  BY <1>1, ListLength
<1>3. Distinct(Append(q, id))
  BY <1>0, <1>1, <1>2, SMTT(30) DEF Distinct, In
<1>4. ASSUME NEW x \in OrderIds PROVE In(Append(q, id), x) <=> (In(q, x) \/ x = id)
  BY <1>0, <1>1, <1>2, SMTT(30) DEF In
<1>5. KeepsPriority(q, Append(q, id))
  BY <1>0, <1>1, <1>2, SMTT(30) DEF KeepsPriority, Distinct, In
<1> QED BY <1>1, <1>3, <1>4, <1>5
-----------------------------------------------------------------------------
(* Books.                                                                  *)

(* The occupied levels of a side can be counted. *)
LEMMA LevelCount ==
  ASSUME NEW S \in SUBSET Prices
  PROVE  IsFiniteSet(S) /\ Cardinality(S) \in 0..(MAX_PRICE - MIN_PRICE + 1)
<1>1. /\ IsFiniteSet(Prices)
      /\ Cardinality(Prices) = MAX_PRICE - MIN_PRICE + 1
  BY FS_Interval, PriceAssumption, SMTT(30) DEF Prices
<1>2. IsFiniteSet(S) /\ Cardinality(S) <= Cardinality(Prices)
  BY <1>1, FS_Subset
<1>3. Cardinality(S) \in Nat
  BY <1>2, FS_CardinalityType
<1> QED BY <1>1, <1>2, <1>3, PriceAssumption, SMTT(30)

(* LevelsAgree, of queues: the orders of a level are distinct, and they    *)
(* are the live orders of its side and price.                              *)
LEMMA LevelsMeaning ==
  ASSUME NEW b
  PROVE  LevelsAgree(b) <=>
           \A s \in Sides, p \in Prices :
             /\ Distinct(b.levels[s][p])
             /\ \A id \in OrderIds : In(b.levels[s][p], id)
                  <=> (b.orders[id] # NoOrder /\ b.orders[id].side = s /\ b.orders[id].price = p)
  BY DEF LevelsAgree, Distinct, In, Queued

(* What a good book says of one of its orders. *)
LEMMA OrderOfBook ==
  ASSUME NEW b, Good(b), NEW id \in OrderIds, b.orders[id] # NoOrder
  PROVE  /\ b.orders[id] \in Order
         /\ b.orders[id].side \in Sides
         /\ b.orders[id].price \in Prices
         /\ b.levels[b.orders[id].side][b.orders[id].price] \in Seq(OrderIds)
         /\ Distinct(b.levels[b.orders[id].side][b.orders[id].price])
         /\ In(b.levels[b.orders[id].side][b.orders[id].price], id)
<1>1. b.orders[id] \in Order
  BY DEF Good, Book
<1>2. b.orders[id].side \in Sides /\ b.orders[id].price \in Prices
  BY <1>1 DEF Order
<1>3. b.levels[b.orders[id].side][b.orders[id].price] \in Seq(OrderIds)
  BY <1>2 DEF Good, Book
<1>4. Distinct(b.levels[b.orders[id].side][b.orders[id].price])
  BY <1>2, LevelsMeaning, SMTT(30) DEF Good, BookInv
<1>5. In(b.levels[b.orders[id].side][b.orders[id].price], id)
  BY <1>2, LevelsMeaning DEF Good, BookInv
<1> QED BY <1>1, <1>2, <1>3, <1>4, <1>5

(* An order taken out of orders_ is one live order less. *)
LEMMA LiveAfterRemoval ==
  ASSUME NEW b, NEW c, NEW id \in OrderIds, b.orders[id] # NoOrder,
         b.orders \in [OrderIds -> Order \cup {NoOrder}],
         c.orders = [b.orders EXCEPT ![id] = NoOrder]
  PROVE  Cardinality(Live(c)) = Cardinality(Live(b)) - 1
<1>1. Live(c) = Live(b) \ {id} /\ id \in Live(b)
  BY DEF Live
<1>2. IsFiniteSet(Live(b))
  BY FS_Subset, OrderIdAssumption DEF Live
<1> QED BY <1>1, <1>2, FS_RemoveElement

(* An order that rests is one live order more. *)
LEMMA LiveAfterRest ==
  ASSUME NEW b, NEW c, NEW id \in OrderIds, b.orders[id] = NoOrder,
         c.orders[id] # NoOrder,
         \A x \in OrderIds : x # id => c.orders[x] = b.orders[x]
  PROVE  Cardinality(Live(c)) = Cardinality(Live(b)) + 1
<1>1. Live(c) = Live(b) \cup {id} /\ id \notin Live(b)
  BY SMTT(30) DEF Live
<1>2. IsFiniteSet(Live(b))
  BY FS_Subset, OrderIdAssumption DEF Live
<1> QED BY <1>1, <1>2, FS_AddElement

(* The live orders can be counted. *)
LEMMA LiveCount ==
  ASSUME NEW b
  PROVE  IsFiniteSet(Live(b)) /\ Cardinality(Live(b)) \in Nat
<1>1. IsFiniteSet(Live(b))
  BY FS_Subset, OrderIdAssumption DEF Live
<1> QED BY <1>1, FS_CardinalityType

(* No order of the book gets ahead of one it was behind. *)
Steady(b, c) == \A s \in Sides, p \in Prices : KeepsPriority(b.levels[s][p], c.levels[s][p])

(* A queue of distinct orders that is left alone keeps its order. *)
LEMMA SameQueue ==
  ASSUME NEW q \in Seq(OrderIds), Distinct(q)
  PROVE  KeepsPriority(q, q)
<1>1. Len(q) \in Nat /\ DOMAIN q = 1..Len(q)
  BY ListLength
<1> QED BY <1>1 DEF KeepsPriority, Distinct

(* So does each level of a book whose levels are left alone. *)
LEMMA SteadyLevel ==
  ASSUME NEW b, Good(b), NEW t \in Sides, NEW x \in Prices
  PROVE  KeepsPriority(b.levels[t][x], b.levels[t][x])
<1>1. b.levels[t][x] \in Seq(OrderIds)
  BY DEF Good, Book
<1>2. Distinct(b.levels[t][x])
  BY LevelsMeaning DEF Good, BookInv
<1> QED BY <1>1, <1>2, SameQueue

(* Taking an order off its level and out of the pool: what the handlers do *)
(* to an order that is canceled, replaced or filled.                       *)
Removed(b, id) == release(unlink(b, id), id)

(* unlink() and release() keep a book good, with one slot more to allocate. *)
LEMMA RemovedIsGood ==
  ASSUME NEW b, Good(b), NEW id \in OrderIds, b.orders[id] # NoOrder
  PROVE  /\ Good(Removed(b, id))
         /\ Removed(b, id).orders = [b.orders EXCEPT ![id] = NoOrder]
         /\ Removed(b, id).available = b.available + 1
         /\ Steady(b, Removed(b, id))
<1> DEFINE s == b.orders[id].side
           p == b.orders[id].price
           q == remove(b.levels[s][p], id)
           levels == [b.levels EXCEPT ![s][p] = q]
           emptied == q = <<>>
           count == IF emptied THEN b.non_empty[s] - 1 ELSE b.non_empty[s]
           best == IF emptied /\ count = 0 THEN Worst(s)
                   ELSE IF emptied /\ p = b.best[s] THEN scan(levels, s, p)
                   ELSE b.best[s]
           r == Removed(b, id)
<1>1. b.orders[id] \in Order /\ s \in Sides /\ p \in Prices
  BY OrderOfBook
<1>2. /\ q \in Seq(OrderIds) /\ Distinct(q)
      /\ \A x \in OrderIds : In(q, x) <=> (In(b.levels[s][p], x) /\ x # id)
      /\ KeepsPriority(b.levels[s][p], q)
  BY <1>1, OrderOfBook, RemoveFromLevel
<1>3. /\ b \in Book
      /\ b.orders \in [OrderIds -> Order \cup {NoOrder}]
      /\ b.levels \in [Sides -> [Prices -> Seq(OrderIds)]]
      /\ b.best \in [Sides -> Prices]
      /\ b.non_empty \in [Sides -> 0..(MAX_PRICE - MIN_PRICE + 1)]
      /\ b.available \in 0..PREALLOCATION_COUNT
  BY DEF Good, Book
<1>4. levels[s][p] = q
  BY <1>1, <1>3
<1>5. r = [orders |-> [b.orders EXCEPT ![id] = NoOrder], levels |-> levels,
           best |-> [b.best EXCEPT ![s] = best],
           non_empty |-> [b.non_empty EXCEPT ![s] = count],
           available |-> b.available + 1]
  <2> DEFINE u == [b EXCEPT !.levels = levels, !.non_empty[s] = count, !.best[s] = best]
  <2>1. unlink(b, id) = u
    BY <1>4 DEF unlink
  <2> HIDE DEF levels, count, best, s
  <2>2. u = [orders |-> b.orders, levels |-> levels,
             best |-> [b.best EXCEPT ![s] = best],
             non_empty |-> [b.non_empty EXCEPT ![s] = count],
             available |-> b.available]
    <3>1. b = [orders |-> b.orders, levels |-> b.levels, best |-> b.best,
               non_empty |-> b.non_empty, available |-> b.available]
      BY <1>3 DEF Book
    <3> DEFINE v == [b EXCEPT !.levels = levels]
               w == [v EXCEPT !.non_empty[s] = count]
    <3>2. v = [orders |-> b.orders, levels |-> levels, best |-> b.best,
               non_empty |-> b.non_empty, available |-> b.available]
      BY <3>1, SMTT(30)
    <3> HIDE DEF v
    <3>3. w = [orders |-> b.orders, levels |-> levels, best |-> b.best,
               non_empty |-> [b.non_empty EXCEPT ![s] = count],
               available |-> b.available]
      BY <3>2, SMTT(30)
    <3>4. u = [w EXCEPT !.best[s] = best]
      BY DEF v
    <3> HIDE DEF w
    <3> QED BY <3>3, <3>4, SMTT(30)
  <2>3. r = [u EXCEPT !.orders[id] = NoOrder, !.available = @ + 1]
    BY <2>1 DEF Removed, release
  <2> HIDE DEF u, r
  <2> QED BY <2>2, <2>3
<1> HIDE DEF r, q, s, p
<1>6. /\ r.orders = [b.orders EXCEPT ![id] = NoOrder]
      /\ r.levels = levels
      /\ r.best = [b.best EXCEPT ![s] = best]
      /\ r.non_empty = [b.non_empty EXCEPT ![s] = count]
      /\ r.available = b.available + 1
  BY <1>5
<1>7. /\ levels \in [Sides -> [Prices -> Seq(OrderIds)]]
      /\ \A t \in Sides, x \in Prices :
           levels[t][x] = IF t = s /\ x = p THEN q ELSE b.levels[t][x]
  BY <1>1, <1>2, <1>3
<1> HIDE DEF levels, emptied
<1>8. /\ \A x \in OrderIds : r.orders[x] = IF x = id THEN NoOrder ELSE b.orders[x]
      /\ r.orders \in [OrderIds -> Order \cup {NoOrder}]
  BY <1>3, <1>6
<1>9. LevelsAgree(r)
  <2> SUFFICES ASSUME NEW t \in Sides, NEW x \in Prices
               PROVE  /\ Distinct(r.levels[t][x])
                      /\ \A o \in OrderIds : In(r.levels[t][x], o)
                           <=> (/\ r.orders[o] # NoOrder
                                /\ r.orders[o].side = t /\ r.orders[o].price = x)
    BY LevelsMeaning, SMTT(30)
  <2>1. /\ Distinct(b.levels[t][x])
        /\ \A o \in OrderIds : In(b.levels[t][x], o)
             <=> (b.orders[o] # NoOrder /\ b.orders[o].side = t /\ b.orders[o].price = x)
    BY LevelsMeaning DEF Good, BookInv
  <2>2. CASE t = s /\ x = p
    <3>1. r.levels[t][x] = q
      BY <2>2, <1>6, <1>7
    <3> QED BY <3>1, <2>1, <2>2, <1>2, <1>8
  <2>3. CASE ~ (t = s /\ x = p)
    <3>1. r.levels[t][x] = b.levels[t][x]
      BY <2>3, <1>6, <1>7
    <3>2. b.orders[id].side = s /\ b.orders[id].price = p
      BY DEF s, p
    <3> QED BY <3>1, <3>2, <2>1, <2>3, <1>8
  <2> QED BY <2>2, <2>3
<1>10. /\ \A t \in Sides : t # s => NonEmptyLevels(r, t) = NonEmptyLevels(b, t)
       /\ NonEmptyLevels(r, s) = IF emptied THEN NonEmptyLevels(b, s) \ {p}
                                 ELSE NonEmptyLevels(b, s)
       /\ p \in NonEmptyLevels(b, s)
  <2>1. b.levels[s][p] # <<>>
    BY OrderOfBook, EmptyLevel DEF s, p
  <2> QED BY <2>1, <1>1, <1>6, <1>7, SMTT(30) DEF NonEmptyLevels, emptied
<1>11. /\ b.non_empty[s] = Cardinality(NonEmptyLevels(b, s))
       /\ b.best[s] \in NonEmptyLevels(b, s)
       /\ \A x \in NonEmptyLevels(b, s) : ~ Better(s, x, b.best[s])
  BY <1>1, <1>10 DEF Good, BookInv, LadderAgrees
<1>12. \A t \in Sides : /\ IsFiniteSet(NonEmptyLevels(r, t))
                        /\ Cardinality(NonEmptyLevels(r, t)) \in 0..(MAX_PRICE - MIN_PRICE + 1)
                        /\ IsFiniteSet(NonEmptyLevels(b, t))
                        /\ Cardinality(NonEmptyLevels(b, t)) \in Nat
  <2> SUFFICES ASSUME NEW t \in Sides
               PROVE  /\ IsFiniteSet(NonEmptyLevels(r, t))
                      /\ Cardinality(NonEmptyLevels(r, t)) \in 0..(MAX_PRICE - MIN_PRICE + 1)
                      /\ IsFiniteSet(NonEmptyLevels(b, t))
                      /\ Cardinality(NonEmptyLevels(b, t)) \in Nat
    OBVIOUS
  <2>1. NonEmptyLevels(r, t) \in SUBSET Prices /\ NonEmptyLevels(b, t) \in SUBSET Prices
    BY DEF NonEmptyLevels
  <2> QED BY <2>1, LevelCount, SMTT(30)
<1>13. count = Cardinality(NonEmptyLevels(r, s))
  <2>1. CASE emptied
    BY <2>1, <1>1, <1>10, <1>11, <1>12, FS_RemoveElement
  <2>2. CASE ~ emptied
    BY <2>2, <1>10, <1>11
  <2> QED BY <2>1, <2>2
<1>14. /\ best \in Prices
       /\ NonEmptyLevels(r, s) = {} => best = Worst(s)
       /\ NonEmptyLevels(r, s) # {} => best \in NonEmptyLevels(r, s)
       /\ \A x \in NonEmptyLevels(r, s) : ~ Better(s, x, best)
  <2>0. b.best[s] \in Prices /\ Worst(s) \in Prices
    BY <1>1, <1>3, PriceAssumption, SMTT(30) DEF Worst, Prices
  <2>1. CASE ~ emptied
    BY <2>0, <2>1, <1>10, <1>11
  <2>2. CASE emptied /\ count = 0
    <3>1. NonEmptyLevels(r, s) = {}
      BY <2>2, <1>1, <1>12, <1>13, FS_EmptySet
    <3> QED BY <3>1, <2>0, <2>2
  <2>3. CASE emptied /\ count # 0
    <3>1. NonEmptyLevels(r, s) # {}
      BY <2>3, <1>13, FS_EmptySet
    <3>2. CASE p = b.best[s]
      <4> DEFINE occupied == {x \in Prices : ~ Better(s, x, p) /\ levels[s][x] # <<>>}
      <4>1. occupied = NonEmptyLevels(r, s)
        BY <1>6, <1>10, <1>11, <3>2 DEF NonEmptyLevels
      <4>2. best = CHOOSE x \in occupied : \A y \in occupied : ~ Better(s, y, x)
        BY <2>3, <3>1, <3>2, <4>1 DEF scan
      <4>3. \E x \in occupied : \A y \in occupied : ~ Better(s, y, x)
        <5>1. occupied \in SUBSET Prices /\ occupied # {}
          BY <3>1, <4>1
        <5> HIDE DEF occupied
        <5> QED BY <5>1, <1>1, BestExists
      <4> HIDE DEF occupied, best
      <4>4. best \in occupied /\ \A y \in occupied : ~ Better(s, y, best)
        BY <4>2, <4>3
      <4>5. occupied \subseteq Prices
        BY DEF occupied
      <4> QED BY <4>1, <4>4, <4>5, <3>1
    <3>3. CASE p # b.best[s]
      BY <2>0, <2>3, <3>1, <3>3, <1>10, <1>11
    <3> QED BY <3>2, <3>3
  <2> QED BY <2>1, <2>2, <2>3
<1> HIDE DEF count, best
<1>15. LadderAgrees(r)
  <2> SUFFICES ASSUME NEW t \in Sides
               PROVE  /\ r.non_empty[t] = Cardinality(NonEmptyLevels(r, t))
                      /\ NonEmptyLevels(r, t) = {} => r.best[t] = Worst(t)
                      /\ NonEmptyLevels(r, t) # {} => r.best[t] \in NonEmptyLevels(r, t)
                      /\ \A x \in NonEmptyLevels(r, t) : ~ Better(t, x, r.best[t])
    BY DEF LadderAgrees
  <2>1. CASE t = s
    <3>1. r.non_empty[t] = count /\ r.best[t] = best
      BY <2>1, <1>3, <1>6
    <3> QED BY <3>1, <2>1, <1>13, <1>14
  <2>2. CASE t # s
    <3>1. r.non_empty[t] = b.non_empty[t] /\ r.best[t] = b.best[t]
      BY <2>2, <1>3, <1>6
    <3> QED BY <3>1, <2>2, <1>10 DEF Good, BookInv, LadderAgrees
  <2> QED BY <2>1, <2>2
<1>16. PoolAgrees(r) /\ r.available \in 0..PREALLOCATION_COUNT
  <2>1. Cardinality(Live(r)) = Cardinality(Live(b)) - 1
    BY <1>3, <1>6, LiveAfterRemoval
  <2>2. Cardinality(Live(r)) \in Nat /\ Cardinality(Live(b)) \in Nat
    BY LiveCount
  <2>3. b.available + Cardinality(Live(b)) = PREALLOCATION_COUNT
    BY DEF Good, BookInv, PoolAgrees
  <2>4. b.available \in Nat
    BY <1>3, PoolAssumption, SMTT(30)
  <2>5. (b.available + 1) + (Cardinality(Live(b)) - 1) = PREALLOCATION_COUNT
    BY <2>2, <2>3, <2>4, SMTT(30)
  <2>6. b.available + 1 \in 0..PREALLOCATION_COUNT
    BY <2>1, <2>2, <2>3, <2>4, PoolAssumption, SMTT(30)
  <2> QED BY <2>1, <2>5, <2>6, <1>6 DEF PoolAgrees
<1>17. r \in Book
  <2>1. r.non_empty \in [Sides -> 0..(MAX_PRICE - MIN_PRICE + 1)]
    BY <1>1, <1>3, <1>6, <1>12, <1>13, SMTT(30)
  <2>2. r.best \in [Sides -> Prices]
    BY <1>1, <1>3, <1>6, <1>14
  <2>3. r.levels \in [Sides -> [Prices -> Seq(OrderIds)]]
    BY <1>6, <1>7
  <2>4. r = [orders |-> r.orders, levels |-> r.levels, best |-> r.best,
             non_empty |-> r.non_empty, available |-> r.available]
    BY <1>5, <1>6
  <2> QED BY <2>1, <2>2, <2>3, <2>4, <1>8, <1>16 DEF Book
<1>18. Steady(b, r)
  <2> SUFFICES ASSUME NEW t \in Sides, NEW x \in Prices
               PROVE  KeepsPriority(b.levels[t][x], r.levels[t][x])
    BY DEF Steady
  <2>1. KeepsPriority(b.levels[t][x], b.levels[t][x])
    BY SteadyLevel
  <2>2. r.levels[t][x] = IF t = s /\ x = p THEN q ELSE b.levels[t][x]
    BY <1>6, <1>7
  <2> QED BY <2>1, <2>2, <1>2
<1> QED BY <1>6, <1>9, <1>15, <1>16, <1>17, <1>18 DEF Good, BookInv, r

(* rest() keeps a book good when a slot is free and the id is not taken. *)
LEMMA RestIsGood ==
  ASSUME NEW b, Good(b), NEW id \in OrderIds, b.orders[id] = NoOrder,
         NEW order \in Order, b.available > 0
  PROVE  /\ Good(rest(b, id, order))
         /\ rest(b, id, order).orders = [b.orders EXCEPT ![id] = order]
         /\ Steady(b, rest(b, id, order))
<1> DEFINE s == order.side
           p == order.price
           q == Append(b.levels[s][p], id)
           levels == [b.levels EXCEPT ![s][p] = q]
           count == IF b.levels[s][p] = <<>> THEN b.non_empty[s] + 1 ELSE b.non_empty[s]
           best == IF Better(s, p, b.best[s]) THEN p ELSE b.best[s]
           r == rest(b, id, order)
<1>1. s \in Sides /\ p \in Prices /\ order # NoOrder
  BY NoOrderAssumption DEF Order
<1>2. /\ b.orders \in [OrderIds -> Order \cup {NoOrder}]
      /\ b.levels \in [Sides -> [Prices -> Seq(OrderIds)]]
      /\ b.best \in [Sides -> Prices]
      /\ b.non_empty \in [Sides -> 0..(MAX_PRICE - MIN_PRICE + 1)]
      /\ b.available \in 0..PREALLOCATION_COUNT
  BY DEF Good, Book
<1>3. /\ b.levels[s][p] \in Seq(OrderIds) /\ Distinct(b.levels[s][p])
      /\ ~ In(b.levels[s][p], id)
  <2>1. b.levels[s][p] \in Seq(OrderIds)
    BY <1>1, <1>2
  <2>2. LevelsAgree(b)
    BY DEF Good, BookInv
  <2> QED BY <1>1, <2>1, <2>2, LevelsMeaning
<1>4. /\ q \in Seq(OrderIds) /\ Distinct(q)
      /\ \A x \in OrderIds : In(q, x) <=> (In(b.levels[s][p], x) \/ x = id)
      /\ KeepsPriority(b.levels[s][p], q)
  BY <1>3, AppendToLevel
<1>5. r = [orders |-> [b.orders EXCEPT ![id] = order], levels |-> levels,
           best |-> [b.best EXCEPT ![s] = best],
           non_empty |-> [b.non_empty EXCEPT ![s] = count],
           available |-> b.available - 1]
  BY <1>1, <1>2 DEF rest
<1> HIDE DEF r, q, s, p
<1>6. /\ r.orders = [b.orders EXCEPT ![id] = order]
      /\ r.levels = levels
      /\ r.best = [b.best EXCEPT ![s] = best]
      /\ r.non_empty = [b.non_empty EXCEPT ![s] = count]
      /\ r.available = b.available - 1
  BY <1>5
<1>7. /\ levels \in [Sides -> [Prices -> Seq(OrderIds)]]
      /\ \A t \in Sides, x \in Prices :
           levels[t][x] = IF t = s /\ x = p THEN q ELSE b.levels[t][x]
  BY <1>1, <1>2, <1>4
<1> HIDE DEF levels
<1>8. /\ \A x \in OrderIds : r.orders[x] = IF x = id THEN order ELSE b.orders[x]
      /\ r.orders \in [OrderIds -> Order \cup {NoOrder}]
  BY <1>2, <1>6, SMTT(30)
<1>9. LevelsAgree(r)
  <2> SUFFICES ASSUME NEW t \in Sides, NEW x \in Prices
               PROVE  /\ Distinct(r.levels[t][x])
                      /\ \A o \in OrderIds : In(r.levels[t][x], o)
                           <=> (/\ r.orders[o] # NoOrder
                                /\ r.orders[o].side = t /\ r.orders[o].price = x)
    BY LevelsMeaning, SMTT(30)
  <2>1. /\ Distinct(b.levels[t][x])
        /\ \A o \in OrderIds : In(b.levels[t][x], o)
             <=> (b.orders[o] # NoOrder /\ b.orders[o].side = t /\ b.orders[o].price = x)
    BY LevelsMeaning DEF Good, BookInv
  <2>2. order.side = s /\ order.price = p
    BY DEF s, p
  <2>3. CASE t = s /\ x = p
    <3>1. r.levels[t][x] = q
      BY <2>3, <1>6, <1>7
    <3> QED BY <3>1, <2>1, <2>2, <2>3, <1>1, <1>4, <1>8
  <2>4. CASE ~ (t = s /\ x = p)
    <3>1. r.levels[t][x] = b.levels[t][x]
      BY <2>4, <1>6, <1>7
    <3> QED BY <3>1, <2>1, <2>2, <2>4, <1>8
  <2> QED BY <2>3, <2>4
<1>10. /\ \A t \in Sides : t # s => NonEmptyLevels(r, t) = NonEmptyLevels(b, t)
       /\ NonEmptyLevels(r, s) = NonEmptyLevels(b, s) \cup {p}
       /\ p \in NonEmptyLevels(b, s) <=> b.levels[s][p] # <<>>
  <2>1. q # <<>>
    BY <1>4, EmptyLevel
  <2> QED BY <2>1, <1>1, <1>6, <1>7, SMTT(30) DEF NonEmptyLevels
<1>11. /\ b.non_empty[s] = Cardinality(NonEmptyLevels(b, s))
       /\ NonEmptyLevels(b, s) = {} => b.best[s] = Worst(s)
       /\ NonEmptyLevels(b, s) # {} => b.best[s] \in NonEmptyLevels(b, s)
       /\ \A x \in NonEmptyLevels(b, s) : ~ Better(s, x, b.best[s])
  BY <1>1 DEF Good, BookInv, LadderAgrees
<1>12. \A t \in Sides : /\ Cardinality(NonEmptyLevels(r, t)) \in 0..(MAX_PRICE - MIN_PRICE + 1)
                        /\ IsFiniteSet(NonEmptyLevels(b, t))
  <2> SUFFICES ASSUME NEW t \in Sides
               PROVE  /\ Cardinality(NonEmptyLevels(r, t)) \in 0..(MAX_PRICE - MIN_PRICE + 1)
                      /\ IsFiniteSet(NonEmptyLevels(b, t))
    OBVIOUS
  <2>1. NonEmptyLevels(r, t) \in SUBSET Prices /\ NonEmptyLevels(b, t) \in SUBSET Prices
    BY DEF NonEmptyLevels
  <2> QED BY <2>1, LevelCount
<1>13. count = Cardinality(NonEmptyLevels(r, s))
  <2>1. CASE b.levels[s][p] = <<>>
    <3>1. p \notin NonEmptyLevels(b, s) /\ NonEmptyLevels(r, s) = NonEmptyLevels(b, s) \cup {p}
      BY <2>1, <1>10
    <3>2. Cardinality(NonEmptyLevels(r, s)) = Cardinality(NonEmptyLevels(b, s)) + 1
      BY <3>1, <1>1, <1>12, FS_AddElement
    <3> QED BY <2>1, <3>2, <1>11
  <2>2. CASE b.levels[s][p] # <<>>
    <3>1. NonEmptyLevels(r, s) = NonEmptyLevels(b, s)
      BY <2>2, <1>10
    <3> QED BY <3>1, <2>2, <1>11
  <2> QED BY <2>1, <2>2
<1>14. /\ best \in Prices
       /\ best \in NonEmptyLevels(r, s)
       /\ \A x \in NonEmptyLevels(r, s) : ~ Better(s, x, best)
  <2>0. /\ b.best[s] \in Prices /\ best \in Prices
        /\ NonEmptyLevels(b, s) \subseteq Nat /\ Prices \subseteq Nat
        /\ \A x \in Prices : ~ Better(s, Worst(s), x)
    BY <1>1, <1>2, PriceAssumption, SMTT(30) DEF Worst, Better, Prices, NonEmptyLevels
  <2>1. CASE NonEmptyLevels(b, s) = {}
    <3>1. best = p
      BY <2>0, <2>1, <1>1, <1>11, PriceAssumption, SMTT(30) DEF Worst, Better, Prices, Sides
    <3>2. NonEmptyLevels(r, s) = {p}
      BY <2>1, <1>10
    <3>3. ~ Better(s, p, p)
      BY <1>1, <2>0, SMTT(30) DEF Better
    <3> QED BY <3>1, <3>2, <3>3, <2>0
  <2>2. CASE NonEmptyLevels(b, s) # {}
    <3>1. best \in NonEmptyLevels(r, s)
      BY <2>2, <1>10, <1>11
    <3>2. ASSUME NEW x \in NonEmptyLevels(b, s) PROVE ~ Better(s, x, best)
      <4>1. PICK old \in Nat : old = b.best[s]
        BY <2>0
      <4>2. x \in Nat /\ p \in Nat /\ ~ Better(s, x, old)
        BY <4>1, <2>0, <1>1, <1>11
      <4>3. CASE Better(s, p, old)
        <5>1. ~ Better(s, x, p)
          BY <4>2, <4>3, SMTT(30) DEF Better
        <5> QED BY <5>1, <4>1, <4>3
      <4>4. CASE ~ Better(s, p, old)
        BY <4>1, <4>2, <4>4
      <4> QED BY <4>3, <4>4
    <3>3. ~ Better(s, p, best)
      <4>1. p \in Nat
        BY <2>0, <1>1
      <4>2. ~ Better(s, p, p)
        BY <4>1, SMTT(30) DEF Better
      <4>3. CASE Better(s, p, b.best[s])
        BY <4>2, <4>3
      <4>4. CASE ~ Better(s, p, b.best[s])
        BY <4>4
      <4> QED BY <4>3, <4>4
    <3> QED BY <3>1, <3>2, <3>3, <2>0, <1>10
  <2> QED BY <2>1, <2>2
<1> HIDE DEF count, best
<1>15. LadderAgrees(r)
  <2> SUFFICES ASSUME NEW t \in Sides
               PROVE  /\ r.non_empty[t] = Cardinality(NonEmptyLevels(r, t))
                      /\ NonEmptyLevels(r, t) = {} => r.best[t] = Worst(t)
                      /\ NonEmptyLevels(r, t) # {} => r.best[t] \in NonEmptyLevels(r, t)
                      /\ \A x \in NonEmptyLevels(r, t) : ~ Better(t, x, r.best[t])
    BY DEF LadderAgrees
  <2>1. CASE t = s
    <3>1. r.non_empty[t] = count /\ r.best[t] = best
      BY <2>1, <1>2, <1>6
    <3> QED BY <3>1, <2>1, <1>13, <1>14
  <2>2. CASE t # s
    <3>1. r.non_empty[t] = b.non_empty[t] /\ r.best[t] = b.best[t]
      BY <2>2, <1>2, <1>6
    <3> QED BY <3>1, <2>2, <1>10 DEF Good, BookInv, LadderAgrees
  <2> QED BY <2>1, <2>2
<1>16. PoolAgrees(r) /\ r.available \in 0..PREALLOCATION_COUNT
  <2>1. Cardinality(Live(r)) = Cardinality(Live(b)) + 1
    <3>1. r.orders[id] # NoOrder /\ \A x \in OrderIds : x # id => r.orders[x] = b.orders[x]
      BY <1>1, <1>8
    <3> QED BY <3>1, LiveAfterRest
  <2>2. Cardinality(Live(r)) \in Nat /\ Cardinality(Live(b)) \in Nat
    BY LiveCount
  <2>3. b.available + Cardinality(Live(b)) = PREALLOCATION_COUNT
    BY DEF Good, BookInv, PoolAgrees
  <2>4. b.available \in Nat /\ b.available <= PREALLOCATION_COUNT /\ b.available > 0
    BY <1>2, PoolAssumption, SMTT(30)
  <2>5. (b.available - 1) + (Cardinality(Live(b)) + 1) = PREALLOCATION_COUNT
    BY <2>2, <2>3, <2>4, SMTT(30)
  <2>6. b.available - 1 \in 0..PREALLOCATION_COUNT
    BY <2>4, PoolAssumption, SMTT(30)
  <2> QED BY <2>1, <2>5, <2>6, <1>6 DEF PoolAgrees
<1>17. r \in Book
  <2>1. r.non_empty \in [Sides -> 0..(MAX_PRICE - MIN_PRICE + 1)]
    <3>1. count \in 0..(MAX_PRICE - MIN_PRICE + 1)
      BY <1>1, <1>12, <1>13
    <3> DEFINE M == 0..(MAX_PRICE - MIN_PRICE + 1)
    <3>2. b.non_empty \in [Sides -> M] /\ count \in M
      BY <1>2, <3>1
    <3> HIDE DEF M
    <3>3. [b.non_empty EXCEPT ![s] = count] \in [Sides -> M]
      BY <3>2
    <3> QED BY <1>6, <3>3 DEF M
  <2>2. r.best \in [Sides -> Prices]
    BY <1>2, <1>6, <1>14
  <2>3. r.levels \in [Sides -> [Prices -> Seq(OrderIds)]]
    BY <1>6, <1>7
  <2>4. r = [orders |-> r.orders, levels |-> r.levels, best |-> r.best,
             non_empty |-> r.non_empty, available |-> r.available]
    BY <1>5, <1>6
  <2> QED BY <2>1, <2>2, <2>3, <2>4, <1>8, <1>16 DEF Book
<1>18. Steady(b, r)
  <2> SUFFICES ASSUME NEW t \in Sides, NEW x \in Prices
               PROVE  KeepsPriority(b.levels[t][x], r.levels[t][x])
    BY DEF Steady
  <2>1. KeepsPriority(b.levels[t][x], b.levels[t][x])
    BY SteadyLevel
  <2>2. r.levels[t][x] = IF t = s /\ x = p THEN q ELSE b.levels[t][x]
    BY <1>6, <1>7
  <2> QED BY <2>1, <2>2, <1>4
<1> QED BY <1>6, <1>9, <1>15, <1>16, <1>17, <1>18 DEF Good, BookInv, r

(* Priority is kept by two changes in a row, if no order leaves with the   *)
(* first and comes back with the second.                                   *)
LEMMA KeepsPriorityTwice ==
  ASSUME NEW q \in Seq(OrderIds), NEW r \in Seq(OrderIds), NEW u \in Seq(OrderIds),
         KeepsPriority(q, r), KeepsPriority(r, u),
         \A x \in OrderIds : In(q, x) /\ In(u, x) => In(r, x)
  PROVE  KeepsPriority(q, u)
<1>0. /\ Len(q) \in Nat /\ DOMAIN q = 1..Len(q) /\ \A i \in 1..Len(q) : q[i] \in OrderIds
      /\ Len(r) \in Nat /\ DOMAIN r = 1..Len(r)
      /\ Len(u) \in Nat /\ DOMAIN u = 1..Len(u)
  BY ListLength
<1> SUFFICES ASSUME NEW i \in 1..Len(q), NEW j \in 1..Len(u), q[i] = u[j],
                    NEW ahead \in 1..(j - 1)
             PROVE  \E k \in 1..(i - 1) : q[k] = u[ahead]
  BY <1>0 DEF KeepsPriority
<1>1. PICK m \in 1..Len(r) : r[m] = q[i]
  BY <1>0 DEF In
<1>2. PICK l \in 1..(m - 1) : r[l] = u[ahead]
  BY <1>0, <1>1 DEF KeepsPriority
<1>3. \E k \in 1..(i - 1) : q[k] = r[l]
  BY <1>0, <1>1, <1>2 DEF KeepsPriority
<1> QED BY <1>2, <1>3

(* replace(): the replacement of an order queues behind everyone else. *)
LEMMA SteadyReplaced ==
  ASSUME NEW b, Good(b), NEW id \in OrderIds, b.orders[id] # NoOrder,
         NEW new \in OrderIds, b.orders[new] = NoOrder,
         NEW order \in Order
  PROVE  Steady(b, rest(Removed(b, id), new, order))
<1> DEFINE m == Removed(b, id)
           c == rest(m, new, order)
<1>1. /\ Good(m) /\ m.orders = [b.orders EXCEPT ![id] = NoOrder]
      /\ m.available = b.available + 1 /\ Steady(b, m)
  BY RemovedIsGood
<1> HIDE DEF m
<1>2. b.available \in Nat /\ b.orders \in [OrderIds -> Order \cup {NoOrder}]
  BY PoolAssumption, SMTT(30) DEF Good, Book
<1>3. m.available > 0 /\ m.orders[new] = NoOrder
  BY <1>1, <1>2, SMTT(30)
<1>4. /\ Good(c) /\ c.orders = [m.orders EXCEPT ![new] = order] /\ Steady(m, c)
  <2>1. /\ Good(m) /\ m.available > 0 /\ m.orders[new] = NoOrder
    BY <1>1, <1>3
  <2> QED BY <2>1, RestIsGood, SMTT(30)
<1> HIDE DEF c
<1> SUFFICES ASSUME NEW t \in Sides, NEW x \in Prices
             PROVE  KeepsPriority(b.levels[t][x], c.levels[t][x])
  BY DEF Steady, c, m
<1>5. /\ b.levels[t][x] \in Seq(OrderIds) /\ m.levels[t][x] \in Seq(OrderIds)
      /\ c.levels[t][x] \in Seq(OrderIds)
  BY <1>1, <1>4, SMTT(30) DEF Good, Book
<1>6. ASSUME NEW y \in OrderIds, In(b.levels[t][x], y), In(c.levels[t][x], y)
      PROVE  In(m.levels[t][x], y)
  <2>1. b.orders[y] # NoOrder
    BY <1>6, LevelsMeaning DEF Good, BookInv
  <2>2. c.orders[y] # NoOrder /\ c.orders[y].side = t /\ c.orders[y].price = x
    <3>1. LevelsAgree(c)
      BY <1>4 DEF Good, BookInv
    <3> QED BY <3>1, <1>6, LevelsMeaning
  <2>3. m.orders[y] = c.orders[y]
    BY <1>1, <1>2, <1>4, <2>1
  <2>4. LevelsAgree(m)
    BY <1>1 DEF Good, BookInv
  <2>5. m.orders[y] # NoOrder /\ m.orders[y].side = t /\ m.orders[y].price = x
    BY <2>2, <2>3
  <2> QED BY <2>4, <2>5, LevelsMeaning
<1>7. KeepsPriority(b.levels[t][x], m.levels[t][x]) /\ KeepsPriority(m.levels[t][x], c.levels[t][x])
  BY <1>1, <1>4 DEF Steady
<1> QED BY <1>5, <1>6, <1>7, KeepsPriorityTwice

(* Changing the shares of a resting order keeps the book good. *)
LEMMA SharesAreGood ==
  ASSUME NEW b, Good(b), NEW id \in OrderIds, b.orders[id] # NoOrder,
         NEW order \in Order, order.side = b.orders[id].side,
         order.price = b.orders[id].price
  PROVE  /\ Good([b EXCEPT !.orders[id] = order])
         /\ [b EXCEPT !.orders[id] = order].orders = [b.orders EXCEPT ![id] = order]
<1> DEFINE r == [b EXCEPT !.orders[id] = order]
<1>1. b \in Book
  BY DEF Good
<1>2. /\ r \in Book
      /\ r.orders = [b.orders EXCEPT ![id] = order]
      /\ r.levels = b.levels /\ r.best = b.best
      /\ r.non_empty = b.non_empty /\ r.available = b.available
  BY <1>1 DEF Book
<1>3. /\ b.orders \in [OrderIds -> Order \cup {NoOrder}] /\ order # NoOrder
  BY <1>1, NoOrderAssumption DEF Book
<1> HIDE DEF r
<1>4. LevelsAgree(r)
  <2> SUFFICES ASSUME NEW t \in Sides, NEW x \in Prices
               PROVE  /\ Distinct(r.levels[t][x])
                      /\ \A o \in OrderIds : In(r.levels[t][x], o)
                           <=> (/\ r.orders[o] # NoOrder
                                /\ r.orders[o].side = t /\ r.orders[o].price = x)
    BY LevelsMeaning, SMTT(30)
  <2>1. /\ Distinct(b.levels[t][x])
        /\ \A o \in OrderIds : In(b.levels[t][x], o)
             <=> (b.orders[o] # NoOrder /\ b.orders[o].side = t /\ b.orders[o].price = x)
    BY LevelsMeaning DEF Good, BookInv
  <2>2. ASSUME NEW o \in OrderIds
        PROVE  /\ r.orders[o] # NoOrder <=> b.orders[o] # NoOrder
               /\ r.orders[o].side = b.orders[o].side
               /\ r.orders[o].price = b.orders[o].price
    <3>1. CASE o = id
      BY <1>2, <1>3, <3>1
    <3>2. CASE o # id
      BY <1>2, <1>3, <3>2
    <3> QED BY <3>1, <3>2
  <2>3. r.levels[t][x] = b.levels[t][x]
    BY <1>2
  <2> QED BY <2>1, <2>2, <2>3
<1>5. LadderAgrees(r)
  <2>1. \A t \in Sides : NonEmptyLevels(r, t) = NonEmptyLevels(b, t)
    BY <1>2 DEF NonEmptyLevels
  <2>2. LadderAgrees(b)
    BY DEF Good, BookInv
  <2> QED BY <2>1, <2>2, <1>2 DEF LadderAgrees
<1>6. Live(r) = Live(b)
  BY <1>2, <1>3 DEF Live
<1> QED BY <1>2, <1>4, <1>5, <1>6 DEF Good, BookInv, PoolAgrees, r
-----------------------------------------------------------------------------
(* What is good about a book and the orders in it, and how the handlers    *)
(* keep it.                                                                *)

(* No bid at or above an ask; no order with more shares than may be; and   *)
(* both of a good book.                                                    *)
Uncrossed(b) ==
  \A i, j \in Live(b) :
    (b.orders[i].side = "BID" /\ b.orders[j].side = "ASK")
      => b.orders[i].price < b.orders[j].price
Liable(b) == \A id \in Live(b) : b.orders[id].open + b.orders[id].executed <= MaxQuantity
Sound(b) == Good(b) /\ Uncrossed(b) /\ Liable(b)

(* Removing an order keeps the book sound. *)
LEMMA RemovedIsSound ==
  ASSUME NEW b, Sound(b), NEW id \in OrderIds, b.orders[id] # NoOrder
  PROVE  /\ Sound(Removed(b, id))
         /\ Removed(b, id).orders = [b.orders EXCEPT ![id] = NoOrder]
         /\ Removed(b, id).available = b.available + 1
<1> DEFINE r == Removed(b, id)
<1>1. /\ Good(r) /\ r.orders = [b.orders EXCEPT ![id] = NoOrder]
      /\ r.available = b.available + 1
  BY RemovedIsGood DEF Sound
<1>2. b.orders \in [OrderIds -> Order \cup {NoOrder}]
  BY DEF Sound, Good, Book
<1> HIDE DEF r
<1>3. \A x \in Live(r) : x \in Live(b) /\ r.orders[x] = b.orders[x]
  BY <1>1, <1>2 DEF Live
<1>4. Uncrossed(r)
  BY <1>3 DEF Sound, Uncrossed
<1>5. Liable(r)
  BY <1>3 DEF Sound, Liable
<1> QED BY <1>1, <1>4, <1>5 DEF Sound, r

(* Changing the shares of an order within its liability keeps it sound. *)
LEMMA SharesAreSound ==
  ASSUME NEW b, Sound(b), NEW id \in OrderIds, b.orders[id] # NoOrder,
         NEW order \in Order, order.side = b.orders[id].side,
         order.price = b.orders[id].price, order.open + order.executed <= MaxQuantity
  PROVE  /\ Sound([b EXCEPT !.orders[id] = order])
         /\ [b EXCEPT !.orders[id] = order].orders = [b.orders EXCEPT ![id] = order]
<1> DEFINE r == [b EXCEPT !.orders[id] = order]
<1>1. Good(r) /\ r.orders = [b.orders EXCEPT ![id] = order]
  BY SharesAreGood, SMTT(30) DEF Sound
<1>2. b.orders \in [OrderIds -> Order \cup {NoOrder}]
  BY DEF Sound, Good, Book
<1> HIDE DEF r
<1>3. \A x \in Live(r) : /\ x \in Live(b)
                         /\ r.orders[x] = IF x = id THEN order ELSE b.orders[x]
  BY <1>1, <1>2 DEF Live
<1>4. \A x \in Live(r) : /\ r.orders[x].side = b.orders[x].side
                         /\ r.orders[x].price = b.orders[x].price
                         /\ x # id => r.orders[x] = b.orders[x]
  BY <1>3
<1>5. Uncrossed(r)
  BY <1>3, <1>4 DEF Sound, Uncrossed
<1>6. Liable(r)
  BY <1>3 DEF Sound, Liable
<1> QED BY <1>1, <1>5, <1>6 DEF Sound, r

(* What crosses() denies: the limit is worse than every opposite order. *)
LEMMA NoCross ==
  ASSUME NEW b, Good(b), NEW side \in Sides, NEW price \in Prices,
         ~ crosses(b, side, "LIMIT", price),
         NEW j \in Live(b), b.orders[j].side = Opposite(side)
  PROVE  Better(Opposite(side), price, b.orders[j].price)
<1> DEFINE o == Opposite(side)
           p == b.orders[j].price
<1>1. o \in Sides
  BY DEF Opposite, Sides
<1>2. p \in Prices /\ b.levels[o][p] # <<>>
  BY OrderOfBook, EmptyLevel DEF Live
<1>3. p \in NonEmptyLevels(b, o)
  BY <1>2 DEF NonEmptyLevels
<1>4. b.non_empty[o] = Cardinality(NonEmptyLevels(b, o)) /\ ~ Better(o, p, b.best[o])
  BY <1>1, <1>3 DEF Good, BookInv, LadderAgrees
<1>5. b.non_empty[o] # 0
  <2>1. IsFiniteSet(NonEmptyLevels(b, o))
    BY LevelCount DEF NonEmptyLevels
  <2> QED BY <2>1, <1>3, <1>4, FS_EmptySet
<1>6. Better(o, price, b.best[o])
  BY <1>5 DEF crosses
<1>7. b.best[o] \in Prices
  BY <1>1 DEF Good, Book
<1>8. p \in Nat /\ price \in Nat /\ b.best[o] \in Nat
  BY <1>2, <1>7, PriceAssumption, SMTT(30) DEF Prices
<1> HIDE DEF o, p
<1>9. Better(o, price, p)
  BY <1>4, <1>6, <1>8, SMTT(30) DEF Better
<1> QED BY <1>9 DEF o, p

(* Resting an order that does not cross keeps the book sound. *)
LEMMA RestIsSound ==
  ASSUME NEW b, Sound(b), NEW id \in OrderIds, b.orders[id] = NoOrder,
         NEW order \in Order, b.available > 0,
         ~ crosses(b, order.side, "LIMIT", order.price),
         order.open + order.executed <= MaxQuantity
  PROVE  Sound(rest(b, id, order))
<1> DEFINE r == rest(b, id, order)
<1>1. Good(r) /\ r.orders = [b.orders EXCEPT ![id] = order]
  BY RestIsGood DEF Sound
<1>2. b.orders \in [OrderIds -> Order \cup {NoOrder}]
  BY DEF Sound, Good, Book
<1>3. order.side \in Sides /\ order.price \in Prices
  BY DEF Order
<1> HIDE DEF r
<1>4. \A x \in Live(r) : x # id => x \in Live(b) /\ r.orders[x] = b.orders[x]
  BY <1>1, <1>2 DEF Live
<1>5. r.orders[id] = order
  BY <1>1, <1>2
<1>6. \A x \in Live(b) : b.orders[x].side = Opposite(order.side)
                           => Better(Opposite(order.side), order.price, b.orders[x].price)
  BY <1>3, NoCross DEF Sound
<1>7. Uncrossed(r)
  <2> SUFFICES ASSUME NEW i \in Live(r), NEW j \in Live(r),
                      r.orders[i].side = "BID", r.orders[j].side = "ASK"
               PROVE  r.orders[i].price < r.orders[j].price
    BY DEF Uncrossed
  <2>1. CASE i # id /\ j # id
    BY <2>1, <1>4 DEF Sound, Uncrossed
  <2>2. CASE i = id
    <3>1. j # id /\ order.side = "BID"
      BY <2>2, <1>5
    <3> QED BY <3>1, <2>2, <1>4, <1>5, <1>6 DEF Opposite, Better
  <2>3. CASE j = id
    <3>1. i # id /\ order.side = "ASK"
      BY <2>3, <1>5
    <3>2. b.orders[i].price \in Prices /\ b.orders[i].side = "BID"
      BY <3>1, <1>4, OrderOfBook DEF Live, Sound
    <3>3. order.price > b.orders[i].price
      BY <3>1, <3>2, <1>4, <1>6 DEF Opposite, Better
    <3> QED BY <3>1, <3>2, <3>3, <2>3, <1>3, <1>4, <1>5, PriceAssumption DEF Prices
  <2> QED BY <2>1, <2>2, <2>3
<1>8. Liable(r)
  BY <1>4, <1>5 DEF Sound, Liable
<1> QED BY <1>1, <1>7, <1>8 DEF Sound, r
-----------------------------------------------------------------------------
(* The invariant.                                                          *)

(* The part of the invariant that is about the incoming order alone. *)
AggressorOK ==
  match # NoRequest =>
    /\ match \in Aggressor
    /\ match.filled <= match.quantity
    /\ match.executed + match.quantity <= MaxQuantity

(* The invariant in the terms of the lemmas. *)
LEMMA InvParts ==
  IInv <=> /\ Sound(book) /\ AggressorOK /\ RestIsSafe
           /\ next_match_number \in 0..(MatchNumbers - 1)
           /\ out \in Seq(EngineEvent \cup ITCH)
           /\ market_data \in Seq(ITCH)
           /\ market_data_drops \in 0..MaxDrops
  BY DEF IInv, TypeOK, BookConsistent, NotCrossed, LiabilityKept, AggressorOK,
         Sound, Good, Uncrossed, Liable

(* The same of the state a step leads to. *)
LEMMA InvPartsAfter ==
  IInv' <=> /\ Sound(book') /\ AggressorOK' /\ RestIsSafe'
            /\ next_match_number' \in 0..(MatchNumbers - 1)
            /\ out' \in Seq(EngineEvent \cup ITCH)
            /\ market_data' \in Seq(ITCH)
            /\ market_data_drops' \in 0..MaxDrops
  BY DEF IInv, TypeOK, BookConsistent, NotCrossed, LiabilityKept, AggressorOK,
         Sound, Good, Uncrossed, Liable

(* An event, and a sequence of one, two or three of them. *)
LEMMA OutTypes ==
  ASSUME NEW x \in EngineEvent \cup ITCH, NEW y \in EngineEvent \cup ITCH,
         NEW z \in EngineEvent \cup ITCH
  PROVE  /\ <<x>> \in Seq(EngineEvent \cup ITCH)
         /\ <<x, y>> \in Seq(EngineEvent \cup ITCH)
         /\ <<x, y, z>> \in Seq(EngineEvent \cup ITCH)
  BY SMTT(30)

(* What a handler puts into an event has the types of its fields. *)
LEMMA EventType ==
  ASSUME NEW type \in EngineEventTypes, NEW id \in OrderIds, NEW client \in Clients,
         NEW price \in Prices \cup {0}, NEW quantity \in 0..MaxQuantity,
         NEW reason \in {"none", "F", "U", "I", "R", "A"},
         NEW orig_id \in OrderIds, NEW number \in 0..(MatchNumbers - 1)
  PROVE  /\ Event(type, id, client, price, quantity, reason) \in EngineEvent
         /\ [Event(type, id, client, price, quantity, reason) EXCEPT !.orig_id = orig_id]
              \in EngineEvent
         /\ [Event(type, id, client, price, quantity, reason)
               EXCEPT !.match_number = number] \in EngineEvent
<1>1. 0 \in 0..(MatchNumbers - 1)
  BY MatchAssumption, SMTT(30)
<1> QED BY <1>1 DEF Event, EngineEvent

(* The initial book is empty and in agreement. *)
LEMMA InitIsSound ==
  ASSUME Init PROVE Sound(book)
<1>1. book \in Book
  <2>1. <<>> \in Seq(OrderIds)
    BY SMTT(30)
  <2> QED BY <2>1, PriceAssumption, PoolAssumption, SMTT(30) DEF Init, Book, Prices
<1>2. /\ \A id \in OrderIds : book.orders[id] = NoOrder
      /\ \A s \in Sides, p \in Prices : book.levels[s][p] = <<>>
      /\ \A s \in Sides : book.non_empty[s] = 0 /\ book.best[s] = Worst(s)
      /\ book.available = PREALLOCATION_COUNT
  BY DEF Init, Worst
<1>3. Live(book) = {} /\ \A s \in Sides : NonEmptyLevels(book, s) = {}
  BY <1>2 DEF Live, NonEmptyLevels
<1>4. Cardinality({}) = 0
  BY FS_EmptySet
<1>5. LevelsAgree(book)
  BY <1>2, SMTT(30) DEF LevelsAgree, Queued
<1>6. LadderAgrees(book)
  BY <1>2, <1>3, <1>4 DEF LadderAgrees
<1>7. PoolAgrees(book)
  BY <1>2, <1>3, <1>4, PoolAssumption, SMTT(30) DEF PoolAgrees
<1> QED BY <1>1, <1>3, <1>5, <1>6, <1>7 DEF Sound, Good, BookInv, Uncrossed, Liable

(* The initial state satisfies the invariant. *)
LEMMA InitInv == Init => IInv
<1> SUFFICES ASSUME Init PROVE IInv
  OBVIOUS
<1>1. Sound(book)
  BY InitIsSound
<1>2. AggressorOK /\ RestIsSafe
  BY DEF Init, AggressorOK, RestIsSafe
<1>3. next_match_number \in 0..(MatchNumbers - 1)
  BY MatchAssumption, SMTT(30) DEF Init
<1> QED BY <1>1, <1>2, <1>3, InvParts, MarketDataAssumption, SMTT(30) DEF Init
-----------------------------------------------------------------------------
(* The requests, by their type.                                            *)

(* A NEW request is one the gateway let through. *)
LEMMA NewFields ==
  ASSUME NEW req \in Request, req.type = "NEW"
  PROVE  /\ req.id \in OrderIds /\ req.client \in Clients /\ req.side \in Sides
         /\ req.order_type \in {"LIMIT", "MARKET"} /\ req.price \in Prices \cup {0}
         /\ req.order_type = "LIMIT" => req.price \in Prices
         /\ req.quantity \in Quantities
  BY DEF Request, NewRequest, MarketRequest, CancelRequest, ReplaceRequest

(* The size of a cancel is any natural number. *)
LEMMA CancelFields ==
  ASSUME NEW req \in Request, req.type = "CANCEL"
  PROVE  /\ req.id \in OrderIds /\ req.client \in Clients /\ req.quantity \in Nat
<1>1. req \in CancelRequest
  BY DEF Request, NewRequest, MarketRequest, CancelRequest, ReplaceRequest
<1> QED BY <1>1, QuantityAssumption DEF CancelRequest

(* A REPLACE is priced on the ladder and has a valid size. *)
LEMMA ReplaceFields ==
  ASSUME NEW req \in Request, req.type = "REPLACE"
  PROVE  /\ req.id \in OrderIds /\ req.new_id \in OrderIds /\ req.client \in Clients
         /\ req.price \in Prices /\ req.quantity \in Quantities /\ req.tif \in {"DAY", "IOC"}
  BY DEF Request, NewRequest, MarketRequest, CancelRequest, ReplaceRequest

(* The fields of a live order, as numbers. *)
LEMMA OrderFields ==
  ASSUME NEW b, Sound(b), NEW id \in OrderIds, b.orders[id] # NoOrder
  PROVE  /\ b.orders[id] \in Order
         /\ b.orders[id].client \in Clients /\ b.orders[id].side \in Sides
         /\ b.orders[id].price \in Prices
         /\ b.orders[id].open \in Nat /\ b.orders[id].open > 0
         /\ b.orders[id].open \in Quantities
         /\ b.orders[id].executed \in Nat /\ b.orders[id].executed \in 0..MaxQuantity
         /\ b.orders[id].open + b.orders[id].executed <= MaxQuantity
<1>1. b.orders[id] \in Order
  BY OrderOfBook DEF Sound
<1>2. id \in Live(b)
  BY DEF Live
<1> QED BY <1>1, <1>2, QuantityAssumption, SMTT(30) DEF Order, Quantities, Sound, Liable

-----------------------------------------------------------------------------
(* One step per handler.                                                   *)

(* A rejected order leaves an event behind. *)
LEMMA EnterRejectedStep ==
  ASSUME IInv, NEW req \in Request, enter_rejected(req) PROVE IInv'
<1>1. out' \in Seq(EngineEvent \cup ITCH)
  <2>1. Event("REJECTED", req.id, req.client, 0, 0, "F") \in EngineEvent
    <3>1. 0 \in 0..MaxQuantity /\ 0 \in 0..(MatchNumbers - 1)
      BY QuantityAssumption, MatchAssumption, SMTT(30)
    <3>2. req.id \in OrderIds /\ req.client \in Clients
      BY NewFields DEF enter_rejected
    <3> QED BY <3>1, <3>2, EventType DEF EngineEventTypes
  <2> QED BY <2>1, OutTypes DEF enter_rejected
<1>2. AggressorOK' /\ RestIsSafe'
  BY InvParts DEF enter_rejected, AggressorOK, RestIsSafe
<1> QED BY <1>1, <1>2, InvParts, InvPartsAfter DEF enter_rejected

(* An order that is entered has its slot and its id to itself. *)
LEMMA EnterStep ==
  ASSUME IInv, NEW req \in Request, enter(req) PROVE IInv' /\ match' \in Aggressor
<1>0. /\ req.id \in OrderIds /\ req.client \in Clients /\ req.side \in Sides
      /\ req.order_type \in {"LIMIT", "MARKET"} /\ req.price \in Prices \cup {0}
      /\ req.order_type = "LIMIT" => req.price \in Prices
      /\ req.quantity \in Quantities
  BY NewFields DEF enter
<1>1. out' \in Seq(EngineEvent \cup ITCH)
  <2>1. Event("ACCEPTED", req.id, req.client, req.price, req.quantity, "none") \in EngineEvent
    <3>1. req.quantity \in 0..MaxQuantity /\ 0 \in 0..(MatchNumbers - 1)
      BY <1>0, QuantityAssumption, MatchAssumption, SMTT(30) DEF Quantities
    <3> QED BY <3>1, <1>0, EventType DEF EngineEventTypes
  <2> QED BY <2>1, OutTypes DEF enter
<1>2. match' = [id |-> req.id, client |-> req.client, side |-> req.side,
                order_type |-> req.order_type, price |-> req.price,
                quantity |-> req.quantity, filled |-> 0, executed |-> 0,
                may_rest |-> may_rest(req)]
  BY DEF enter
<1>3. match' \in Aggressor
  <2>1. may_rest(req) \in BOOLEAN /\ 0 \in 0..MaxQuantity
    BY QuantityAssumption, SMTT(30) DEF may_rest
  <2> QED BY <2>1, <1>0, <1>2 DEF Aggressor
<1>4. AggressorOK'
  <2>1. 0 <= req.quantity /\ 0 + req.quantity <= MaxQuantity
    BY <1>0, QuantityAssumption, SMTT(30) DEF Quantities
  <2> QED BY <2>1, <1>2, <1>3 DEF AggressorOK
<1>5. RestIsSafe'
  <2>1. book.available \in Nat
    BY InvParts, PoolAssumption, SMTT(30) DEF Sound, Good, Book
  <2>2. /\ book'.orders[req.id] = NoOrder /\ book'.available = book.available
        /\ may_rest(req) => book.available # 0 /\ req.order_type = "LIMIT"
    BY DEF enter, may_rest
  <2>3. /\ match'.id = req.id /\ match'.may_rest = may_rest(req)
        /\ match'.order_type = req.order_type /\ match'.price = req.price
    BY <1>2
  <2> QED BY <2>1, <2>2, <2>3, <1>0, SMTT(30) DEF RestIsSafe
<1>6. IInv'
  BY <1>1, <1>4, <1>5, InvParts, InvPartsAfter DEF enter
<1> QED BY <1>3, <1>6

(* What stays open is a size, and with what is executed the whole of it. *)
LEMMA OpenAfter ==
  ASSUME NEW total \in Nat, NEW executed \in Nat
  PROVE  /\ open_after(total, executed) \in Nat
         /\ open_after(total, executed) <= total
         /\ open_after(total, executed) # 0 => open_after(total, executed) + executed = total
  BY SMTT(30) DEF open_after

(* Between two requests nothing is said of an incoming order. *)
LEMMA NoAggressor ==
  match' = NoRequest => AggressorOK' /\ RestIsSafe'
  BY DEF AggressorOK, RestIsSafe

(* A cancel removes the order or leaves it with fewer shares. *)
LEMMA CancelStep ==
  ASSUME IInv, NEW req \in Request, cancel(req) PROVE IInv'
<1> DEFINE order == book.orders[req.id]
           target == open_after(req.quantity, order.executed)
           decrement == order.open - target
           canceled == Event("CANCELED", req.id, order.client, order.price, decrement, "U")
<1>0. /\ req.type = "CANCEL" /\ order # NoOrder /\ target < order.open
      /\ match' = NoRequest
      /\ \/ /\ target = 0
            /\ book' = Removed(book, req.id)
            /\ out' = <<canceled, ItchDelete(req.id)>>
         \/ /\ target # 0
            /\ book' = [book EXCEPT !.orders[req.id].open = target]
            /\ out' = <<canceled, [type |-> "Cancel", id |-> req.id, shares |-> decrement]>>
      /\ UNCHANGED <<next_match_number, market_data, market_data_drops>>
  BY DEF cancel, Idle, Owned, Removed
<1>1. req.id \in OrderIds /\ req.quantity \in Nat
  BY <1>0, CancelFields
<1>2. Sound(book)
  BY InvParts
<1>3. /\ order \in Order /\ order.client \in Clients /\ order.price \in Prices
      /\ order.open \in Nat /\ order.open \in Quantities /\ order.executed \in Nat
      /\ order.open + order.executed <= MaxQuantity
  BY <1>0, <1>1, <1>2, OrderFields
<1>4. target \in Nat
  BY <1>1, <1>3, OpenAfter
<1> HIDE DEF target
<1>5. decrement \in Quantities /\ decrement \in 0..MaxQuantity
  BY <1>0, <1>3, <1>4, QuantityAssumption, SMTT(30) DEF Quantities
<1> HIDE DEF decrement
<1>6. canceled \in EngineEvent
  <2>1. 0 \in 0..(MatchNumbers - 1)
    BY MatchAssumption, SMTT(30)
  <2> QED BY <2>1, <1>1, <1>3, <1>5, EventType DEF EngineEventTypes
<1>7. out' \in Seq(EngineEvent \cup ITCH)
  <2>1. /\ ItchDelete(req.id) \in ITCH
        /\ [type |-> "Cancel", id |-> req.id, shares |-> decrement] \in ITCH
    BY <1>1, <1>5 DEF ITCH, ItchDelete
  <2>2. \/ out' = <<canceled, ItchDelete(req.id)>>
        \/ out' = <<canceled, [type |-> "Cancel", id |-> req.id, shares |-> decrement]>>
    BY <1>0 DEF decrement
  <2> HIDE DEF canceled
  <2> QED BY <2>1, <2>2, <1>6, OutTypes
<1>8. Sound(book')
  <2>1. CASE target = 0
    <3>1. book' = Removed(book, req.id)
      BY <2>1, <1>0
    <3> QED BY <3>1, <1>0, <1>1, <1>2, RemovedIsSound
  <2>2. CASE target # 0
    <3> DEFINE reduced == [order EXCEPT !.open = target]
    <3>1. reduced \in Order
      BY <2>2, <1>0, <1>3, <1>4, QuantityAssumption, SMTT(30) DEF Order, Quantities
    <3>2. /\ reduced.side = order.side /\ reduced.price = order.price
          /\ reduced.open = target /\ reduced.executed = order.executed
      BY <1>3 DEF Order
    <3>3. reduced.open + reduced.executed <= MaxQuantity
      BY <3>2, <1>0, <1>3, <1>4, QuantityAssumption, SMTT(30)
    <3>4. book' = [book EXCEPT !.orders[req.id] = reduced]
      BY <2>2, <1>0
    <3> HIDE DEF reduced
    <3> QED BY <3>1, <3>2, <3>3, <3>4, <1>0, <1>1, <1>2, SharesAreSound
  <2> QED BY <2>1, <2>2
<1> QED BY <1>0, <1>7, <1>8, NoAggressor, InvParts, InvPartsAfter

(* What the three ends of replace() start from. *)
LEMMA ReplaceStart ==
  ASSUME IInv, NEW req \in Request, Idle, Replaceable(req)
  PROVE  /\ req.id \in OrderIds /\ req.new_id \in OrderIds /\ req.client \in Clients
         /\ req.price \in Prices /\ req.tif \in {"DAY", "IOC"}
         /\ req.id # req.new_id
         /\ Sound(book) /\ book.orders[req.id] # NoOrder
         /\ book.orders[req.id].client \in Clients /\ book.orders[req.id].side \in Sides
         /\ book.orders[req.id].price \in Prices
         /\ book.orders[req.id].open \in Quantities
         /\ book.orders[req.id].open \in 0..MaxQuantity
         /\ book.orders[req.id].executed \in 0..MaxQuantity
         /\ ReplaceOpen(req) \in 0..MaxQuantity
         /\ ReplaceOpen(req) # 0 =>
              /\ ReplaceOpen(req) \in Quantities
              /\ ReplaceOpen(req) + book.orders[req.id].executed <= MaxQuantity
         /\ Sound(Removed(book, req.id))
         /\ Removed(book, req.id).orders[req.new_id] = NoOrder
         /\ Removed(book, req.id).available > 0
         /\ match = NoRequest
<1>1. /\ req.type = "REPLACE" /\ book.orders[req.id] # NoOrder
      /\ book.orders[req.new_id] = NoOrder /\ match = NoRequest
  BY DEF Replaceable, Owned, Idle
<1>2. /\ req.id \in OrderIds /\ req.new_id \in OrderIds /\ req.client \in Clients
      /\ req.price \in Prices /\ req.quantity \in Quantities /\ req.tif \in {"DAY", "IOC"}
  BY <1>1, ReplaceFields
<1>3. Sound(book)
  BY InvParts
<1>4. /\ book.orders[req.id].client \in Clients /\ book.orders[req.id].side \in Sides
      /\ book.orders[req.id].price \in Prices
      /\ book.orders[req.id].open \in Quantities
      /\ book.orders[req.id].executed \in Nat
      /\ book.orders[req.id].executed \in 0..MaxQuantity
  BY <1>1, <1>2, <1>3, OrderFields
<1>5. /\ ReplaceOpen(req) \in 0..MaxQuantity
      /\ ReplaceOpen(req) # 0 =>
           /\ ReplaceOpen(req) \in Quantities
           /\ ReplaceOpen(req) + book.orders[req.id].executed <= MaxQuantity
  <2>1. req.quantity \in Nat /\ req.quantity <= MaxQuantity
    BY <1>2, QuantityAssumption, SMTT(30) DEF Quantities
  <2>2. /\ ReplaceOpen(req) \in Nat /\ ReplaceOpen(req) <= req.quantity
        /\ ReplaceOpen(req) # 0
             => ReplaceOpen(req) + book.orders[req.id].executed = req.quantity
    BY <2>1, <1>4, OpenAfter DEF ReplaceOpen
  <2> HIDE DEF ReplaceOpen
  <2> QED BY <2>1, <2>2, QuantityAssumption, SMTT(30) DEF Quantities
<1>6. /\ Sound(Removed(book, req.id))
      /\ Removed(book, req.id).orders = [book.orders EXCEPT ![req.id] = NoOrder]
      /\ Removed(book, req.id).available = book.available + 1
  BY <1>1, <1>2, <1>3, RemovedIsSound
<1>7. book.available \in Nat /\ book.orders \in [OrderIds -> Order \cup {NoOrder}]
  BY <1>3, PoolAssumption, SMTT(30) DEF Sound, Good, Book
<1>8. book.orders[req.id].open \in 0..MaxQuantity
  BY <1>4, QuantityAssumption, SMTT(30) DEF Quantities
<1>9. Removed(book, req.id).orders[req.new_id] = NoOrder /\ Removed(book, req.id).available > 0
  BY <1>1, <1>2, <1>6, <1>7, SMTT(30)
<1> QED BY <1>1, <1>2, <1>3, <1>4, <1>5, <1>6, <1>8, <1>9

(* A replace that asks for no more than is executed removes the order. *)
LEMMA ReplaceAsCancelStep ==
  ASSUME IInv, NEW req \in Request, replace_as_cancel(req) PROVE IInv'
<1> DEFINE orig == book.orders[req.id]
           canceled == Event("CANCELED", req.id, orig.client, orig.price, orig.open, "U")
<1>0. /\ Idle /\ Replaceable(req)
      /\ book' = Removed(book, req.id) /\ match' = match
      /\ out' = <<canceled, ItchDelete(req.id)>>
      /\ UNCHANGED <<next_match_number, market_data, market_data_drops>>
  BY DEF replace_as_cancel, Removed
<1>1. /\ req.id \in OrderIds /\ orig.client \in Clients /\ orig.price \in Prices
      /\ orig.open \in 0..MaxQuantity /\ Sound(Removed(book, req.id)) /\ match = NoRequest
  BY <1>0, ReplaceStart
<1>2. canceled \in EngineEvent /\ ItchDelete(req.id) \in ITCH
  <2>1. 0 \in 0..(MatchNumbers - 1)
    BY MatchAssumption, SMTT(30)
  <2>2. ItchDelete(req.id) \in ITCH
    BY <1>1 DEF ITCH, ItchDelete
  <2> QED BY <2>1, <2>2, <1>1, EventType DEF EngineEventTypes
<1> HIDE DEF canceled
<1>3. out' \in Seq(EngineEvent \cup ITCH)
  BY <1>0, <1>2, OutTypes
<1> QED BY <1>0, <1>1, <1>3, NoAggressor, InvParts, InvPartsAfter

(* The REPLACED event of a replace that leaves shares open. *)
LEMMA ReplacedType ==
  ASSUME NEW req, req.id \in OrderIds, req.new_id \in OrderIds, req.client \in Clients,
         req.price \in Prices, ReplaceOpen(req) \in 0..MaxQuantity
  PROVE  Replaced(req) \in EngineEvent
<1>1. 0 \in 0..(MatchNumbers - 1)
  BY MatchAssumption, SMTT(30)
<1> HIDE DEF ReplaceOpen
<1> QED BY <1>1, EventType DEF Replaced, EngineEventTypes

(* A replacement that does not cross rests in the slot of the original. *)
LEMMA ReplaceRestingStep ==
  ASSUME IInv, NEW req \in Request, replace_resting(req) PROVE IInv'
<1> DEFINE orig == book.orders[req.id]
           without == Removed(book, req.id)
           order == [client |-> req.client, side |-> orig.side, price |-> req.price,
                     open |-> ReplaceOpen(req), executed |-> orig.executed]
           itch == [type |-> "Replace", orig_id |-> req.id, id |-> req.new_id,
                    shares |-> ReplaceOpen(req), price |-> req.price]
<1>0. /\ Idle /\ Replaceable(req) /\ ReplaceOpen(req) # 0 /\ match' = match
      /\ ~ crosses(without, orig.side, "LIMIT", req.price)
      /\ book' = rest(without, req.new_id, order)
      /\ out' = <<Replaced(req), itch>>
      /\ UNCHANGED <<next_match_number, market_data, market_data_drops>>
  BY DEF replace_resting, Removed
<1>1. /\ req.id \in OrderIds /\ req.new_id \in OrderIds /\ req.client \in Clients
      /\ req.price \in Prices /\ orig.side \in Sides /\ orig.executed \in 0..MaxQuantity
      /\ ReplaceOpen(req) \in 0..MaxQuantity /\ ReplaceOpen(req) \in Quantities
      /\ ReplaceOpen(req) + orig.executed <= MaxQuantity
      /\ Sound(without) /\ without.orders[req.new_id] = NoOrder /\ without.available > 0
      /\ match = NoRequest
  BY <1>0, ReplaceStart
<1>2. Sound(book')
  <2>1. /\ order \in Order /\ order.side = orig.side /\ order.price = req.price
        /\ order.open + order.executed <= MaxQuantity
    BY <1>1 DEF Order
  <2> HIDE DEF order, without
  <2> QED BY <2>1, <1>0, <1>1, RestIsSound
<1>3. out' \in Seq(EngineEvent \cup ITCH)
  <2>1. Replaced(req) \in EngineEvent
    BY <1>1, ReplacedType
  <2>2. itch \in ITCH
    BY <1>1 DEF ITCH
  <2> HIDE DEF itch
  <2> QED BY <2>1, <2>2, <1>0, OutTypes
<1> QED BY <1>0, <1>1, <1>2, <1>3, NoAggressor, InvParts, InvPartsAfter

(* A replacement that crosses is matched with a slot to spare. *)
LEMMA ReplaceMatchingStep ==
  ASSUME IInv, NEW req \in Request, replace_matching(req)
  PROVE  IInv' /\ match' \in Aggressor
<1> DEFINE orig == book.orders[req.id]
           without == Removed(book, req.id)
<1>0. /\ Idle /\ Replaceable(req) /\ ReplaceOpen(req) # 0
      /\ book' = without
      /\ out' = <<Replaced(req), ItchDelete(req.id)>>
      /\ match' = [id |-> req.new_id, client |-> req.client, side |-> orig.side,
                   order_type |-> "LIMIT", price |-> req.price,
                   quantity |-> ReplaceOpen(req), filled |-> 0,
                   executed |-> orig.executed, may_rest |-> req.tif = "DAY"]
      /\ UNCHANGED <<next_match_number, market_data, market_data_drops>>
  BY DEF replace_matching, Removed
<1>1. /\ req.id \in OrderIds /\ req.new_id \in OrderIds /\ req.client \in Clients
      /\ req.price \in Prices /\ orig.side \in Sides /\ orig.executed \in 0..MaxQuantity
      /\ ReplaceOpen(req) \in 0..MaxQuantity /\ ReplaceOpen(req) \in Quantities
      /\ ReplaceOpen(req) + orig.executed <= MaxQuantity
      /\ Sound(without) /\ without.orders[req.new_id] = NoOrder /\ without.available > 0
  BY <1>0, ReplaceStart
<1>2. out' \in Seq(EngineEvent \cup ITCH)
  <2>1. Replaced(req) \in EngineEvent
    BY <1>1, ReplacedType
  <2>2. ItchDelete(req.id) \in ITCH
    BY <1>1 DEF ITCH, ItchDelete
  <2> QED BY <2>1, <2>2, <1>0, OutTypes
<1> HIDE DEF without, orig, ReplaceOpen
<1>3. match' \in Aggressor
  <2>1. (req.tif = "DAY") \in BOOLEAN /\ 0 \in 0..MaxQuantity
    BY QuantityAssumption, SMTT(30)
  <2> QED BY <2>1, <1>0, <1>1 DEF Aggressor
<1>4. AggressorOK'
  <2>1. 0 <= ReplaceOpen(req) /\ orig.executed + ReplaceOpen(req) <= MaxQuantity
    BY <1>1, QuantityAssumption, SMTT(30)
  <2> QED BY <2>1, <1>0, <1>3 DEF AggressorOK
<1>5. RestIsSafe'
  BY <1>0, <1>1 DEF RestIsSafe
<1>6. IInv'
  BY <1>0, <1>1, <1>2, <1>4, <1>5, InvParts, InvPartsAfter
<1> QED BY <1>3, <1>6
-----------------------------------------------------------------------------
(* One step per iteration of match(), its end, and the output.             *)

(* The incoming order while there is one, as numbers. *)
LEMMA AggressorFields ==
  ASSUME IInv, match # NoRequest
  PROVE  /\ match \in Aggressor
         /\ match.id \in OrderIds /\ match.client \in Clients /\ match.side \in Sides
         /\ match.order_type \in {"LIMIT", "MARKET"} /\ match.price \in Prices \cup {0}
         /\ match.quantity \in Nat /\ match.filled \in Nat /\ match.executed \in Nat
         /\ match.may_rest \in BOOLEAN
         /\ match.filled <= match.quantity
         /\ match.executed + match.quantity <= MaxQuantity
         /\ book.orders[match.id] = NoOrder
         /\ match.may_rest => /\ book.available > 0
                              /\ match.order_type = "LIMIT" /\ match.price \in Prices
<1>1. match \in Aggressor /\ match.filled <= match.quantity
      /\ match.executed + match.quantity <= MaxQuantity
  BY InvParts DEF AggressorOK
<1>2. /\ book.orders[match.id] = NoOrder
      /\ match.may_rest => /\ book.available > 0
                           /\ match.order_type = "LIMIT" /\ match.price \in Prices
  BY InvParts DEF RestIsSafe
<1>3. match.quantity \in Nat /\ match.filled \in Nat /\ match.executed \in Nat
  BY <1>1, QuantityAssumption, SMTT(30) DEF Aggressor, Quantities
<1> QED BY <1>1, <1>2, <1>3 DEF Aggressor

(* The front of the best level is a live order of the opposite side. *)
LEMMA BestFront ==
  ASSUME NEW b, Sound(b), NEW s \in Sides, b.non_empty[s] # 0
  PROVE  /\ b.best[s] \in Prices
         /\ Head(b.levels[s][b.best[s]]) \in OrderIds
         /\ b.orders[Head(b.levels[s][b.best[s]])] # NoOrder
<1> DEFINE p == b.best[s]
           q == b.levels[s][p]
<1>1. NonEmptyLevels(b, s) # {}
  BY FS_EmptySet DEF Sound, Good, BookInv, LadderAgrees
<1>2. p \in Prices /\ q # <<>> /\ q \in Seq(OrderIds)
  BY <1>1 DEF Sound, Good, Book, BookInv, LadderAgrees, NonEmptyLevels
<1>3. Head(q) \in OrderIds /\ Head(q) = q[1] /\ 1 \in DOMAIN q
  <2>1. Len(q) \in Nat /\ DOMAIN q = 1..Len(q)
    BY <1>2, ListLength
  <2>2. Len(q) # 0
    BY <1>2, ListEmpty
  <2>3. 1 \in 1..Len(q)
    BY <2>1, <2>2, SMTT(30)
  <2>4. Head(q) \in OrderIds /\ Head(q) = q[1]
    BY <1>2, ListHead
  <2> QED BY <2>1, <2>3, <2>4
<1>4. Queued(b, s, p, Head(q))
  BY <1>3 DEF Queued
<1>5. LevelsAgree(b)
  BY DEF Sound, Good, BookInv
<1> HIDE DEF p, q
<1>6. b.orders[Head(q)] # NoOrder
  BY <1>2, <1>3, <1>4, <1>5, SMTT(30) DEF LevelsAgree
<1> QED BY <1>2, <1>3, <1>6 DEF p, q

(* What a trade does to the resting order. *)
Traded(order, fill) == [order EXCEPT !.open = @ - fill, !.executed = @ + fill]

(* Its shares go from open to executed. *)
LEMMA TradedFields ==
  ASSUME NEW order \in Order, NEW fill \in Nat, fill > 0, fill < order.open,
         order.open + order.executed <= MaxQuantity
  PROVE  /\ Traded(order, fill) \in Order
         /\ Traded(order, fill).open = order.open - fill
         /\ Traded(order, fill).executed = order.executed + fill
         /\ Traded(order, fill).client = order.client
         /\ Traded(order, fill).side = order.side /\ Traded(order, fill).price = order.price
<1>1. order.open \in Nat /\ order.executed \in Nat
  BY QuantityAssumption, SMTT(30) DEF Order, Quantities
<1>2. order.open - fill \in Quantities /\ order.executed + fill \in 0..MaxQuantity
  BY <1>1, QuantityAssumption, SMTT(30) DEF Quantities
<1>3. /\ Traded(order, fill).open = order.open - fill
      /\ Traded(order, fill).executed = order.executed + fill
      /\ Traded(order, fill).client = order.client
      /\ Traded(order, fill).side = order.side /\ Traded(order, fill).price = order.price
  BY DEF Traded, Order
<1>4. Traded(order, fill) \in Order
  BY <1>2 DEF Traded, Order
<1> QED BY <1>3, <1>4

(* A book in which an order traded, and one with another order in its place. *)
Filled(b, id, fill) ==
  [b EXCEPT !.orders[id].open = @ - fill, !.orders[id].executed = @ + fill]
Put(b, id, order) == [b EXCEPT !.orders[id] = order]

(* The first is an instance of the second. *)
LEMMA TradedBook ==
  ASSUME NEW b \in Book, NEW id \in OrderIds, b.orders[id] \in Order, NEW fill
  PROVE  Filled(b, id, fill) = Put(b, id, Traded(b.orders[id], fill))
<1> DEFINE order == Traded(b.orders[id], fill)
           first == [b EXCEPT !.orders[id].open = @ - fill]
           reduced == [b.orders[id] EXCEPT !.open = @ - fill]
           last == Filled(b, id, fill)
<1>0. /\ b.orders \in [OrderIds -> Order \cup {NoOrder}]
      /\ b = [orders |-> b.orders, levels |-> b.levels, best |-> b.best,
              non_empty |-> b.non_empty, available |-> b.available]
  BY DEF Book
<1>1. last = [first EXCEPT !.orders[id].executed = @ + fill]
  BY DEF Filled
<1>2. first = [b EXCEPT !.orders[id] = reduced]
  OBVIOUS
<1>3. order = [reduced EXCEPT !.executed = @ + fill]
  BY DEF Traded, Order
<1> HIDE DEF first, reduced, order, last
<1>4. /\ first.orders = [b.orders EXCEPT ![id] = reduced]
      /\ first = [orders |-> first.orders, levels |-> b.levels, best |-> b.best,
                  non_empty |-> b.non_empty, available |-> b.available]
  BY <1>0, <1>2
<1>5. first.orders[id] = reduced
  BY <1>0, <1>4
<1>6. last = [first EXCEPT !.orders[id] = order]
  BY <1>1, <1>3, <1>5
<1>7. [first.orders EXCEPT ![id] = order] = [b.orders EXCEPT ![id] = order]
  BY <1>0, <1>4
<1>8. last = [first EXCEPT !.orders = [b.orders EXCEPT ![id] = order]]
  BY <1>6, <1>7
<1>9. [b EXCEPT !.orders[id] = order]
        = [orders |-> [b.orders EXCEPT ![id] = order], levels |-> b.levels, best |-> b.best,
           non_empty |-> b.non_empty, available |-> b.available]
  BY <1>0, SMTT(30)
<1>10. last = [b EXCEPT !.orders[id] = order]
  BY <1>4, <1>8, <1>9, SMTT(30)
<1> QED BY <1>10 DEF last, order, Put

(* An iteration fills shares of both orders and removes a filled one. *)
LEMMA MatchStep ==
  ASSUME IInv, match_step PROVE IInv'
<1> DEFINE s == Opposite(match.side)
           level_price == book.best[s]
           id == Head(book.levels[s][level_price])
           resting == book.orders[id]
           wanted == match.quantity - match.filled
           fill == IF wanted < resting.open THEN wanted ELSE resting.open
           trade(of, client, flag) ==
             [Event("EXECUTED", of, client, level_price, fill, flag)
                EXCEPT !.match_number = next_match_number]
           itch == [type |-> "Executed", id |-> id, shares |-> fill]
<1>0. /\ match # NoRequest /\ match.filled < match.quantity /\ book.non_empty[s] # 0
      /\ match' = [match EXCEPT !.filled = @ + fill]
      /\ next_match_number' = (next_match_number + 1) % MatchNumbers
      /\ out' = <<trade(match.id, match.client, "R"), trade(id, resting.client, "A"), itch>>
      /\ UNCHANGED <<market_data, market_data_drops>>
  BY DEF match_step, Matching, StillCrosses, crosses
<1>1. /\ fill = resting.open => book' = Removed(book, id)
      /\ fill # resting.open => book' = [book EXCEPT !.orders[id].open = @ - fill,
                                                     !.orders[id].executed = @ + fill]
  BY DEF match_step, Removed
<1>2. /\ match \in Aggressor
      /\ match.id \in OrderIds /\ match.client \in Clients /\ match.side \in Sides
      /\ match.quantity \in Nat /\ match.filled \in Nat /\ match.executed \in Nat
      /\ match.executed + match.quantity <= MaxQuantity
      /\ book.orders[match.id] = NoOrder
      /\ match.may_rest => /\ book.available > 0
                           /\ match.order_type = "LIMIT" /\ match.price \in Prices
  BY <1>0, AggressorFields
<1>3. Sound(book) /\ RestIsSafe /\ next_match_number \in 0..(MatchNumbers - 1)
  BY InvParts
<1>4. level_price \in Prices /\ id \in OrderIds /\ resting # NoOrder
  <2>1. s \in Sides
    BY DEF Opposite, Sides
  <2> HIDE DEF s
  <2> QED BY <2>1, <1>0, <1>3, BestFront
<1> HIDE DEF s, level_price, id
<1>5. /\ resting \in Order /\ resting.client \in Clients
      /\ resting.open \in Nat /\ resting.open > 0 /\ resting.executed \in Nat
      /\ resting.open + resting.executed <= MaxQuantity
  BY <1>3, <1>4, OrderFields
<1>6. /\ fill \in Nat /\ fill > 0 /\ fill <= resting.open
      /\ match.filled + fill <= match.quantity
      /\ fill \in Quantities /\ fill \in 0..MaxQuantity
  BY <1>0, <1>2, <1>5, QuantityAssumption, SMTT(30) DEF Quantities
<1> HIDE DEF fill
<1>7. next_match_number' \in 0..(MatchNumbers - 1)
  <2>1. next_match_number + 1 \in Nat
    BY <1>3, MatchAssumption, SMTT(30)
  <2>2. (next_match_number + 1) % MatchNumbers \in 0..(MatchNumbers - 1)
    BY <2>1, MatchAssumption, SMTT(30)
  <2> QED BY <2>2, <1>0
<1>8. out' \in Seq(EngineEvent \cup ITCH)
  <2>1. trade(match.id, match.client, "R") \in EngineEvent
    BY <1>2, <1>3, <1>4, <1>6, EventType DEF EngineEventTypes
  <2>2. trade(id, resting.client, "A") \in EngineEvent
    <3> HIDE DEF resting
    <3> QED BY <1>3, <1>4, <1>5, <1>6, EventType DEF EngineEventTypes
  <2>3. itch \in ITCH
    BY <1>4, <1>6 DEF ITCH
  <2> HIDE DEF trade, itch
  <2> QED BY <2>1, <2>2, <2>3, <1>0, OutTypes
<1>9. /\ Sound(book') /\ book'.orders[match.id] = NoOrder
      /\ book'.available >= book.available
  <2>0. /\ book.orders \in [OrderIds -> Order \cup {NoOrder}]
        /\ book.available \in Nat /\ book \in Book
    BY <1>3, PoolAssumption, SMTT(30) DEF Sound, Good, Book
  <2>1. CASE fill = resting.open
    <3>1. book' = Removed(book, id)
      BY <2>1, <1>1
    <3>2. /\ Sound(book') /\ book'.orders = [book.orders EXCEPT ![id] = NoOrder]
          /\ book'.available = book.available + 1
      BY <3>1, <1>3, <1>4, RemovedIsSound
    <3> QED BY <3>2, <2>0, <1>2, <1>4, SMTT(30)
  <2>2. CASE fill # resting.open
    <3> DEFINE order == Traded(resting, fill)
    <3>1. /\ order \in Order /\ order.side = resting.side /\ order.price = resting.price
          /\ order.open = resting.open - fill /\ order.executed = resting.executed + fill
      <4>1. fill < resting.open
        BY <2>2, <1>5, <1>6, SMTT(30)
      <4> HIDE DEF resting
      <4> QED BY <4>1, <1>5, <1>6, TradedFields
    <3>4. order.open + order.executed <= MaxQuantity
      <4> HIDE DEF order
      <4> QED BY <3>1, <1>5, <1>6, SMTT(30)
    <3>5. book' = [book EXCEPT !.orders[id] = order]
      <4>1. book' = Filled(book, id, fill)
        BY <2>2, <1>1 DEF Filled
      <4>2. book' = Put(book, id, order)
        BY <4>1, <2>0, <1>4, <1>5, TradedBook
      <4> QED BY <4>2 DEF Put
    <3> HIDE DEF order
    <3>6. Sound(book') /\ book'.orders = [book.orders EXCEPT ![id] = order]
      BY <3>1, <3>4, <3>5, <1>3, <1>4, SharesAreSound, SMTT(30)
    <3>7. book'.available = book.available
      BY <3>5, <2>0 DEF Book
    <3>8. match.id # id
      BY <1>2, <1>4
    <3> QED BY <3>6, <3>7, <3>8, <2>0, <1>2, <1>4, SMTT(30)
  <2> QED BY <2>1, <2>2
<1>10. /\ match' \in Aggressor /\ match'.filled = match.filled + fill
       /\ match'.id = match.id /\ match'.price = match.price
       /\ match'.order_type = match.order_type /\ match'.may_rest = match.may_rest
       /\ match'.quantity = match.quantity /\ match'.executed = match.executed
  <2>1. match.filled + fill \in 0..MaxQuantity
    BY <1>2, <1>6, QuantityAssumption, SMTT(30)
  <2> QED BY <2>1, <1>0, <1>2 DEF Aggressor
<1>11. AggressorOK'
  BY <1>2, <1>6, <1>10 DEF AggressorOK
<1>12. RestIsSafe'
  <2>1. book.available \in Nat /\ book'.available \in Nat
    BY <1>3, <1>9, PoolAssumption, SMTT(30) DEF Sound, Good, Book
  <2> QED BY <2>1, <1>0, <1>2, <1>3, <1>9, <1>10, SMTT(30) DEF RestIsSafe
<1> QED BY <1>0, <1>7, <1>8, <1>9, <1>11, <1>12, InvParts, InvPartsAfter

(* The end of match(): a remainder rests uncrossed, or is canceled. *)
LEMMA MatchDone ==
  ASSUME IInv, match_done PROVE IInv'
<1> DEFINE remaining == match.quantity - match.filled
           order == [client |-> match.client, side |-> match.side, price |-> match.price,
                     open |-> remaining, executed |-> match.executed + match.filled]
           itch == [type |-> "Add", id |-> match.id, side |-> match.side,
                    shares |-> remaining, price |-> match.price]
           canceled == Event("CANCELED", match.id, match.client, match.price, remaining, "I")
<1>0. /\ match # NoRequest /\ out = <<>> /\ ~ StillCrosses /\ match' = NoRequest
      /\ \/ remaining = 0 /\ UNCHANGED <<book, out>>
         \/ /\ remaining # 0 /\ match.may_rest
            /\ book' = rest(book, match.id, order)
            /\ out' = <<itch>>
         \/ /\ remaining # 0 /\ ~ match.may_rest
            /\ out' = <<canceled>>
            /\ UNCHANGED book
      /\ UNCHANGED <<next_match_number, market_data, market_data_drops>>
  BY DEF match_done, Matching
<1>1. /\ match.id \in OrderIds /\ match.client \in Clients /\ match.side \in Sides
      /\ match.price \in Prices \cup {0}
      /\ match.quantity \in Nat /\ match.filled \in Nat /\ match.executed \in Nat
      /\ match.filled <= match.quantity /\ match.executed + match.quantity <= MaxQuantity
      /\ book.orders[match.id] = NoOrder
      /\ match.may_rest => /\ book.available > 0
                           /\ match.order_type = "LIMIT" /\ match.price \in Prices
  BY <1>0, AggressorFields
<1>2. /\ remaining \in 0..MaxQuantity
      /\ remaining # 0 => remaining \in Quantities /\ match.filled < match.quantity
      /\ match.executed + match.filled \in 0..MaxQuantity
      /\ remaining + (match.executed + match.filled) <= MaxQuantity
  BY <1>1, QuantityAssumption, SMTT(30) DEF Quantities
<1> HIDE DEF remaining
<1>3. Sound(book) /\ out \in Seq(EngineEvent \cup ITCH)
  BY InvParts
<1>4. CASE remaining = 0
  BY <1>0, <1>3, <1>4, NoAggressor, InvParts, InvPartsAfter
<1>5. CASE remaining # 0 /\ match.may_rest
  <2>1. book' = rest(book, match.id, order) /\ out' = <<itch>>
    BY <1>0, <1>5
  <2>2. /\ order \in Order /\ order.side = match.side /\ order.price = match.price
        /\ order.open + order.executed <= MaxQuantity
    BY <1>1, <1>2, <1>5 DEF Order
  <2>3. ~ crosses(book, match.side, "LIMIT", match.price)
    BY <1>0, <1>1, <1>2, <1>5 DEF StillCrosses
  <2>4. itch \in ITCH
    BY <1>1, <1>2, <1>5 DEF ITCH
  <2> HIDE DEF order, itch
  <2>5. Sound(book')
    BY <2>1, <2>2, <2>3, <1>1, <1>3, <1>5, RestIsSound
  <2>6. out' \in Seq(EngineEvent \cup ITCH)
    BY <2>1, <2>4, OutTypes
  <2> QED BY <2>5, <2>6, <1>0, NoAggressor, InvParts, InvPartsAfter
<1>6. CASE remaining # 0 /\ ~ match.may_rest
  <2>1. book' = book /\ out' = <<canceled>>
    BY <1>0, <1>6
  <2>2. canceled \in EngineEvent
    <3>1. 0 \in 0..(MatchNumbers - 1)
      BY MatchAssumption, SMTT(30)
    <3> QED BY <3>1, <1>1, <1>2, EventType DEF EngineEventTypes
  <2> HIDE DEF canceled
  <2>3. out' \in Seq(EngineEvent \cup ITCH)
    BY <2>1, <2>2, OutTypes
  <2> QED BY <2>1, <2>3, <1>0, <1>3, NoAggressor, InvParts, InvPartsAfter
<1> QED BY <1>4, <1>5, <1>6

(* A step that leaves the book and the incoming order alone. *)
LEMMA BookUntouched ==
  ASSUME IInv, UNCHANGED <<book, match, next_match_number>>,
         out' \in Seq(EngineEvent \cup ITCH),
         market_data' \in Seq(ITCH), market_data_drops' \in 0..MaxDrops
  PROVE  IInv'
<1>1. AggressorOK' /\ RestIsSafe'
  BY InvParts DEF AggressorOK, RestIsSafe
<1> QED BY <1>1, InvParts, InvPartsAfter

(* An event leaves for the outbound ring. *)
LEMMA EmitStep ==
  ASSUME IInv, emit PROVE IInv'
<1>1. out' \in Seq(EngineEvent \cup ITCH)
  BY InvParts, ListHead DEF emit
<1> QED BY <1>1, InvParts, BookUntouched DEF emit

(* A message leaves for the market data ring, or is dropped. *)
LEMMA PublishStep ==
  ASSUME IInv, publish PROVE IInv'
<1>1. /\ out # <<>> /\ out \in Seq(EngineEvent \cup ITCH)
      /\ market_data \in Seq(ITCH) /\ market_data_drops \in 0..MaxDrops
  BY InvParts DEF publish
<1>2. out' \in Seq(EngineEvent \cup ITCH) /\ Head(out) \in EngineEvent \cup ITCH
  BY <1>1, ListHead DEF publish
<1>3. Head(out) \in ITCH
  BY <1>2 DEF publish, EngineEvent
<1>4. market_data' \in Seq(ITCH) /\ market_data_drops' \in 0..MaxDrops
  <2>1. CASE Len(market_data) < MarketDataCapacity /\ market_data' = Append(market_data, Head(out))
             /\ UNCHANGED market_data_drops
    BY <2>1, <1>1, <1>3, ListPush
  <2>2. CASE /\ market_data_drops' = IF market_data_drops < MaxDrops
                                       THEN market_data_drops + 1 ELSE market_data_drops
             /\ UNCHANGED market_data
    BY <2>2, <1>1, MarketDataAssumption, SMTT(30)
  <2> QED BY <2>1, <2>2 DEF publish
<1> QED BY <1>2, <1>4, BookUntouched DEF publish
-----------------------------------------------------------------------------
(* Every step of the engine keeps the invariant. *)
LEMMA NextInv == IInv /\ [Next]_vars => IInv'
<1> SUFFICES ASSUME IInv, [Next]_vars PROVE IInv'
  OBVIOUS
<1>1. CASE UNCHANGED vars
  BY <1>1, InvParts, BookUntouched DEF vars
<1>2. ASSUME NEW req \in Request, process(req) PROVE IInv'
  <2>1. CASE ignore(req)
    BY <2>1, InvParts, BookUntouched DEF ignore, vars
  <2>2. CASE enter_rejected(req)
    BY <2>2, EnterRejectedStep
  <2>3. CASE enter(req)
    BY <2>3, EnterStep
  <2>4. CASE cancel(req)
    BY <2>4, CancelStep
  <2>5. CASE replace_as_cancel(req)
    BY <2>5, ReplaceAsCancelStep
  <2>6. CASE replace_resting(req)
    BY <2>6, ReplaceRestingStep
  <2>7. CASE replace_matching(req)
    BY <2>7, ReplaceMatchingStep
  <2> QED BY <1>2, <2>1, <2>2, <2>3, <2>4, <2>5, <2>6, <2>7 DEF process
<1>3. CASE Work
  BY <1>3, MatchStep, MatchDone, EmitStep, PublishStep DEF Work
<1> QED BY <1>1, <1>2, <1>3 DEF Next

(* The inductive invariant holds throughout. *)
THEOREM BookInvariant == Spec => []IInv
<1>1. Init => IInv
  BY InitInv
<1>2. IInv /\ [Next]_vars => IInv'
  BY NextInv
<1> QED BY <1>1, <1>2, PTL DEF Spec

(* The members of the order book always have their types: no order of size *)
(* 0 rests, and no counter wraps below 0 or beyond its bound.              *)
THEOREM TypeCorrect == Spec => []TypeOK
<1>1. IInv => TypeOK
  BY DEF IInv
<1> QED BY <1>1, BookInvariant, PTL

(* orders_, the price levels, the level counters, the cached best prices   *)
(* and the pool agree after every step of every handler.                   *)
THEOREM IndexesAgree == Spec => []BookConsistent
<1>1. IInv => BookConsistent
  BY DEF IInv
<1> QED BY <1>1, BookInvariant, PTL

(* The book is never crossed. *)
THEOREM NeverCrossed == Spec => []NotCrossed
<1>1. IInv => NotCrossed
  BY DEF IInv
<1> QED BY <1>1, BookInvariant, PTL

(* rest() always finds a slot, a free id and a price of the ladder. *)
THEOREM RestAlwaysSafe == Spec => []RestIsSafe
<1>1. IInv => RestIsSafe
  BY DEF IInv
<1> QED BY <1>1, BookInvariant, PTL

(* Executed and open shares of an order never exceed the gateway's limit. *)
THEOREM LiabilityBounded == Spec => []LiabilityKept
<1>1. IInv => LiabilityKept
  BY DEF IInv
<1> QED BY <1>1, BookInvariant, PTL
-----------------------------------------------------------------------------
(* An iteration of match() fills shares, and no more than are wanted. *)
LEMMA MatchFills ==
  ASSUME IInv, match_step
  PROVE  match'.filled > match.filled /\ match'.filled <= match.quantity
<1> DEFINE s == Opposite(match.side)
           id == Head(book.levels[s][book.best[s]])
           resting == book.orders[id]
           wanted == match.quantity - match.filled
           fill == IF wanted < resting.open THEN wanted ELSE resting.open
<1>1. /\ match # NoRequest /\ match.filled < match.quantity /\ book.non_empty[s] # 0
      /\ match' = [match EXCEPT !.filled = @ + fill]
  BY DEF match_step, Matching, StillCrosses, crosses
<1>2. match \in Aggressor /\ match.quantity \in Nat /\ match.filled \in Nat
  BY <1>1, AggressorFields
<1>3. Sound(book)
  BY InvParts
<1>4. id \in OrderIds /\ resting # NoOrder
  <2>1. s \in Sides
    BY DEF Opposite, Sides
  <2> HIDE DEF s
  <2> QED BY <2>1, <1>1, <1>3, BestFront
<1> HIDE DEF s, id
<1>5. resting.open \in Nat /\ resting.open > 0
  BY <1>3, <1>4, OrderFields
<1> HIDE DEF resting
<1>6. fill \in Nat /\ fill > 0 /\ match.filled + fill <= match.quantity
  BY <1>1, <1>2, <1>5, SMTT(30)
<1> HIDE DEF fill
<1>7. match'.filled = match.filled + fill
  BY <1>1, <1>2 DEF Aggressor
<1> QED BY <1>2, <1>6, <1>7, SMTT(30)

(* match() ends for every book and every order: filled grows with every    *)
(* iteration and is bounded by the size of the order.                      *)
THEOREM MatchEnds == Spec => MatchGetsOn
<1> DEFINE GetsOn == (Matching /\ match' # NoRequest) =>
                       match'.filled > match.filled /\ match'.filled <= match.quantity
<1>1. IInv /\ [Next]_vars => [GetsOn]_<<book, match, out>>
  <2> SUFFICES ASSUME IInv, Next, match # NoRequest, out = <<>>, match' # NoRequest
               PROVE  match'.filled > match.filled /\ match'.filled <= match.quantity
    BY DEF Matching, vars
  <2>1. ASSUME NEW req \in Request, process(req) PROVE FALSE
    <3>1. Idle
      BY <2>1 DEF process, ignore, enter_rejected, enter, cancel, replace_as_cancel,
                  replace_resting, replace_matching
    <3> QED BY <3>1 DEF Idle
  <2>2. Work
    BY <2>1 DEF Next
  <2>3. match_step
    BY <2>2 DEF Work, match_done, emit, publish
  <2> QED BY <2>3, MatchFills
<1>2. Spec => [][GetsOn]_<<book, match, out>>
  BY <1>1, BookInvariant, PTL DEF Spec
<1> QED BY <1>2 DEF MatchGetsOn
-----------------------------------------------------------------------------
(* Time priority.                                                          *)

(* Changing the shares of an order leaves the levels alone. *)
LEMMA SteadyShares ==
  ASSUME Good(book), book'.levels = book.levels
  PROVE  Steady(book, book')
<1> SUFFICES ASSUME NEW t \in Sides, NEW x \in Prices
             PROVE  KeepsPriority(book.levels[t][x], book'.levels[t][x])
  BY DEF Steady
<1> QED BY SteadyLevel

(* The handlers take an order off its level, or put one at the back. *)
LEMMA ProcessSteady ==
  ASSUME IInv, NEW req \in Request, process(req)
  PROVE  Steady(book, book')
<1>0. Good(book) /\ book \in Book
  BY InvParts DEF Sound, Good
<1>1. CASE ignore(req) \/ enter_rejected(req) \/ enter(req)
  BY <1>0, <1>1, SteadyShares DEF ignore, enter_rejected, enter, vars
<1>2. CASE cancel(req)
  <2>1. req.id \in OrderIds /\ book.orders[req.id] # NoOrder
    BY <1>2, CancelFields DEF cancel, Owned
  <2>2. CASE book' = Removed(book, req.id)
    BY <2>1, <2>2, <1>0, RemovedIsGood
  <2>3. ASSUME NEW open, book' = [book EXCEPT !.orders[req.id].open = open]
        PROVE  Steady(book, book')
    BY <2>3, <1>0, SteadyShares DEF Book
  <2> QED BY <2>2, <2>3, <1>2 DEF cancel, Removed
<1>3. CASE replace_as_cancel(req) \/ replace_matching(req)
  <2>1. Idle /\ Replaceable(req) /\ book' = Removed(book, req.id)
    BY <1>3 DEF replace_as_cancel, replace_matching, Removed
  <2> QED BY <2>1, <1>0, ReplaceStart, RemovedIsGood
<1>4. CASE replace_resting(req)
  <2> DEFINE order == [client |-> req.client, side |-> book.orders[req.id].side,
                       price |-> req.price, open |-> ReplaceOpen(req),
                       executed |-> book.orders[req.id].executed]
  <2>1. /\ Idle /\ Replaceable(req) /\ ReplaceOpen(req) # 0
        /\ book' = rest(Removed(book, req.id), req.new_id, order)
    BY <1>4 DEF replace_resting, Removed
  <2>2. /\ req.id \in OrderIds /\ req.new_id \in OrderIds
        /\ book.orders[req.id] # NoOrder /\ book.orders[req.new_id] = NoOrder
    BY <2>1, ReplaceStart DEF Replaceable
  <2>3. order \in Order
    BY <2>1, ReplaceStart DEF Order
  <2> HIDE DEF order
  <2> QED BY <2>1, <2>2, <2>3, <1>0, SteadyReplaced
<1> QED BY <1>1, <1>2, <1>3, <1>4 DEF process

(* match() takes orders off the front, and its remainder goes to the back. *)
LEMMA WorkSteady ==
  ASSUME IInv, Work
  PROVE  Steady(book, book')
<1>0. Good(book) /\ book \in Book /\ Sound(book)
  BY InvParts DEF Sound, Good
<1>1. CASE publish \/ emit
  BY <1>0, <1>1, SteadyShares DEF publish, emit
<1>2. CASE match_step
  <2> DEFINE s == Opposite(match.side)
             id == Head(book.levels[s][book.best[s]])
             wanted == match.quantity - match.filled
             fill == IF wanted < book.orders[id].open THEN wanted ELSE book.orders[id].open
  <2>1. /\ book.non_empty[s] # 0
        /\ \/ book' = Removed(book, id)
           \/ book' = [book EXCEPT !.orders[id].open = @ - fill,
                                   !.orders[id].executed = @ + fill]
    BY <1>2 DEF match_step, Matching, StillCrosses, crosses, Removed
  <2>2. id \in OrderIds /\ book.orders[id] # NoOrder
    <3>1. s \in Sides
      BY DEF Opposite, Sides
    <3> HIDE DEF s
    <3> QED BY <3>1, <2>1, <1>0, BestFront
  <2> HIDE DEF s, id, fill
  <2>3. CASE book' = Removed(book, id)
    BY <2>2, <2>3, <1>0, RemovedIsGood
  <2>4. CASE book' = [book EXCEPT !.orders[id].open = @ - fill,
                                  !.orders[id].executed = @ + fill]
    BY <2>4, <1>0, SteadyShares DEF Book
  <2> QED BY <2>1, <2>3, <2>4
<1>3. CASE match_done
  <2> DEFINE order == [client |-> match.client, side |-> match.side, price |-> match.price,
                       open |-> match.quantity - match.filled,
                       executed |-> match.executed + match.filled]
  <2>1. CASE book' = book
    BY <2>1, <1>0, SteadyShares
  <2>2. CASE /\ match.quantity - match.filled # 0 /\ match.may_rest
             /\ book' = rest(book, match.id, order)
    <3>1. /\ match.id \in OrderIds /\ match.client \in Clients /\ match.side \in Sides
          /\ match.price \in Prices
          /\ match.quantity \in Nat /\ match.filled \in Nat /\ match.executed \in Nat
          /\ match.filled <= match.quantity /\ match.executed + match.quantity <= MaxQuantity
          /\ book.orders[match.id] = NoOrder /\ book.available > 0
      BY <2>2, <1>3, AggressorFields DEF match_done, Matching
    <3>2. order \in Order
      <4>1. /\ match.quantity - match.filled \in Quantities
            /\ match.executed + match.filled \in 0..MaxQuantity
        BY <2>2, <3>1, QuantityAssumption, SMTT(30) DEF Quantities
      <4> QED BY <3>1, <4>1 DEF Order
    <3> HIDE DEF order
    <3> QED BY <3>1, <3>2, <2>2, <1>0, RestIsGood
  <2> QED BY <2>1, <2>2, <1>3 DEF match_done
<1> QED BY <1>1, <1>2, <1>3 DEF Work

(* Time priority: an order that rests is never overtaken by one that was   *)
(* behind it or came later; the order of a level changes only by orders    *)
(* leaving it.                                                             *)
THEOREM PriorityKept == Spec => PriorityStable
<1>1. IInv /\ [Next]_vars =>
        [\A s \in Sides, p \in Prices :
           KeepsPriority(book.levels[s][p], book'.levels[s][p])]_vars
  BY ProcessSteady, WorkSteady DEF Next, Steady
<1> QED BY <1>1, BookInvariant, PTL DEF Spec, PriorityStable

-----------------------------------------------------------------------------
(* What a step of the engine adds to the book.                             *)

(* Taking an order out adds none. *)
LEMMA RemovingAdds ==
  ASSUME Sound(book), NEW id \in OrderIds, book.orders[id] # NoOrder,
         book' = Removed(book, id)
  PROVE  AddsNone
<1>1. book'.orders = [book.orders EXCEPT ![id] = NoOrder]
  BY RemovedIsGood DEF Sound
<1>2. DOMAIN book.orders = OrderIds
  BY DEF Sound, Good, Book
<1> QED BY <1>1, <1>2 DEF AddsNone, Kept

(* Resting an order adds that order. *)
LEMMA RestingAdds ==
  ASSUME NEW b, NEW id, NEW order, b.orders \in [OrderIds -> Order \cup {NoOrder}],
         NEW x \in OrderIds
  PROVE  rest(b, id, order).orders[x] = IF x = id THEN order ELSE b.orders[x]
  BY DEF rest

(* So does changing the shares of one. *)
LEMMA ReducingAdds ==
  ASSUME Sound(book), NEW id \in OrderIds, book.orders[id] # NoOrder, NEW open,
         book' = [book EXCEPT !.orders[id].open = open]
  PROVE  AddsNone
<1>1. book \in Book /\ book.orders \in [OrderIds -> Order \cup {NoOrder}]
  BY DEF Sound, Good, Book
<1>2. book.orders[id] \in Order
  BY <1>1
<1>3. [book.orders[id] EXCEPT !.open = open].client = book.orders[id].client
  BY <1>2 DEF Order
<1>4. book'.orders = [book.orders EXCEPT ![id] = [book.orders[id] EXCEPT !.open = open]]
  BY <1>1 DEF Book
<1> QED BY <1>1, <1>3, <1>4 DEF AddsNone, Kept

(* A trade adds no order. *)
LEMMA TradingAdds ==
  ASSUME Sound(book), NEW id \in OrderIds, book.orders[id] # NoOrder, NEW fill,
         book' = [book EXCEPT !.orders[id].open = @ - fill, !.orders[id].executed = @ + fill]
  PROVE  AddsNone
<1>1. /\ book \in Book /\ book.orders \in [OrderIds -> Order \cup {NoOrder}]
      /\ book.orders[id] \in Order
  BY DEF Sound, Good, Book
<1>2. PICK order : order = Traded(book.orders[id], fill)
  OBVIOUS
<1>3. order.client = book.orders[id].client
  BY <1>1, <1>2 DEF Order, Traded
<1>4. book' = [book EXCEPT !.orders[id] = order]
  <2>1. book' = Filled(book, id, fill)
    BY DEF Filled
  <2>2. book' = Put(book, id, order)
    BY <2>1, <1>1, <1>2, TradedBook
  <2> QED BY <2>2 DEF Put
<1>5. book'.orders = [book.orders EXCEPT ![id] = order]
  BY <1>1, <1>4 DEF Book
<1> QED BY <1>1, <1>3, <1>5 DEF AddsNone, Kept

(* A handler adds the order the request asks for, or none; match() works   *)
(* on that order.                                                          *)
LEMMA ProcessAdds ==
  ASSUME IInv, NEW req \in Request, process(req)
  PROVE  /\ req.type = "CANCEL" => AddsNone /\ match' = NoRequest
         /\ req.type # "CANCEL" =>
              /\ AddsOnly(NewId(req), req.client)
              /\ match' # NoRequest => match'.id = NewId(req) /\ match'.client = req.client
<1>0. Sound(book) /\ book.orders \in [OrderIds -> Order \cup {NoOrder}]
  BY InvParts DEF Sound, Good, Book
<1>1. req.type \in {"NEW", "CANCEL", "REPLACE"} /\ req.id \in OrderIds
  BY DEF Request, NewRequest, MarketRequest, CancelRequest, ReplaceRequest
<1>2. AddsNone => AddsOnly(NewId(req), req.client)
  BY DEF AddsNone, AddsOnly
<1>3. book' = book => AddsNone
  BY DEF AddsNone, Kept
<1>4. CASE ignore(req)
  BY <1>2, <1>3, <1>4 DEF ignore, vars, Idle
<1>5. CASE enter_rejected(req)
  BY <1>2, <1>3, <1>5 DEF enter_rejected, Idle
<1>6. CASE enter(req)
  BY <1>2, <1>3, <1>6 DEF enter, NewId
<1>7. CASE cancel(req)
  <2>1. req.type = "CANCEL" /\ match' = NoRequest /\ book.orders[req.id] # NoOrder
    BY <1>7 DEF cancel, Idle, Owned
  <2>2. \/ book' = Removed(book, req.id)
        \/ \E open : book' = [book EXCEPT !.orders[req.id].open = open]
    BY <1>7 DEF cancel, Removed
  <2> QED BY <2>1, <2>2, <1>0, <1>1, RemovingAdds, ReducingAdds
<1>8. CASE replace_as_cancel(req)
  <2>1. /\ req.type = "REPLACE" /\ match' = NoRequest /\ book.orders[req.id] # NoOrder
        /\ book' = Removed(book, req.id)
    BY <1>8 DEF replace_as_cancel, Idle, Replaceable, Owned, Removed
  <2> QED BY <2>1, <1>0, <1>1, <1>2, RemovingAdds
<1>9. CASE replace_matching(req)
  <2>1. /\ req.type = "REPLACE" /\ book.orders[req.id] # NoOrder
        /\ book' = Removed(book, req.id)
        /\ match'.id = req.new_id /\ match'.client = req.client
    BY <1>9 DEF replace_matching, Replaceable, Owned, Removed
  <2> QED BY <2>1, <1>0, <1>1, <1>2, RemovingAdds DEF NewId
<1>10. CASE replace_resting(req)
  <2> DEFINE without == Removed(book, req.id)
             order == [client |-> req.client, side |-> book.orders[req.id].side,
                       price |-> req.price, open |-> ReplaceOpen(req),
                       executed |-> book.orders[req.id].executed]
  <2>1. /\ req.type = "REPLACE" /\ match' = NoRequest /\ book.orders[req.id] # NoOrder
        /\ book' = rest(without, req.new_id, order)
    BY <1>10 DEF replace_resting, Idle, Replaceable, Owned, Removed
  <2>2. /\ without.orders = [book.orders EXCEPT ![req.id] = NoOrder]
        /\ without.orders \in [OrderIds -> Order \cup {NoOrder}]
    BY <2>1, <1>0, <1>1, RemovedIsGood DEF Sound, Good, Book
  <2>3. order.client = req.client
    OBVIOUS
  <2> HIDE DEF without, order
  <2>4. \A x \in OrderIds : book'.orders[x] =
          IF x = req.new_id THEN order ELSE without.orders[x]
    BY <2>1, <2>2, RestingAdds, SMTT(30)
  <2>5. AddsOnly(req.new_id, req.client)
    BY <2>2, <2>3, <2>4, <1>0 DEF AddsOnly, Kept
  <2> QED BY <2>1, <2>5 DEF NewId
<1> QED BY <1>4, <1>5, <1>6, <1>7, <1>8, <1>9, <1>10 DEF process

(* The rest of the thread's work adds the order match() works on, or none. *)
LEMMA WorkAdds ==
  ASSUME IInv, match_step \/ match_done \/ publish \/ emit
  PROVE  /\ match = NoRequest => AddsNone /\ match' = NoRequest
         /\ match # NoRequest =>
              /\ AddsOnly(match.id, match.client)
              /\ match' # NoRequest => match'.id = match.id /\ match'.client = match.client
<1>0. Sound(book) /\ book.orders \in [OrderIds -> Order \cup {NoOrder}]
  BY InvParts DEF Sound, Good, Book
<1>1. AddsNone => AddsOnly(match.id, match.client)
  BY DEF AddsNone, AddsOnly
<1>2. book' = book => AddsNone
  BY DEF AddsNone, Kept
<1>3. CASE publish \/ emit
  BY <1>1, <1>2, <1>3 DEF publish, emit
<1>4. CASE match_step
  <2> DEFINE s == Opposite(match.side)
             id == Head(book.levels[s][book.best[s]])
             wanted == match.quantity - match.filled
             fill == IF wanted < book.orders[id].open THEN wanted ELSE book.orders[id].open
  <2>1. /\ match # NoRequest /\ book.non_empty[s] # 0
        /\ match' = [match EXCEPT !.filled = @ + fill]
        /\ \/ book' = Removed(book, id)
           \/ book' = [book EXCEPT !.orders[id].open = @ - fill,
                                   !.orders[id].executed = @ + fill]
    BY <1>4 DEF match_step, Matching, StillCrosses, crosses, Removed
  <2>2. id \in OrderIds /\ book.orders[id] # NoOrder
    <3>1. s \in Sides
      BY DEF Opposite, Sides
    <3> HIDE DEF s
    <3> QED BY <3>1, <2>1, <1>0, BestFront
  <2> HIDE DEF s, id, fill
  <2>3. AddsNone
    BY <2>1, <2>2, <1>0, RemovingAdds, TradingAdds
  <2>4. match'.id = match.id /\ match'.client = match.client
    BY <2>1, AggressorFields DEF Aggressor
  <2> QED BY <2>1, <2>3, <2>4, <1>1
<1>5. CASE match_done
  <2> DEFINE order == [client |-> match.client, side |-> match.side, price |-> match.price,
                       open |-> match.quantity - match.filled,
                       executed |-> match.executed + match.filled]
  <2>1. /\ match # NoRequest /\ match' = NoRequest
        /\ book' = book \/ book' = rest(book, match.id, order)
    BY <1>5 DEF match_done, Matching
  <2>2. order.client = match.client
    OBVIOUS
  <2> HIDE DEF order
  <2>3. book' = rest(book, match.id, order) => AddsOnly(match.id, match.client)
    BY <2>2, <1>0, RestingAdds, SMTT(30) DEF AddsOnly, Kept
  <2> QED BY <2>1, <2>3, <1>1, <1>2
<1> QED BY <1>3, <1>4, <1>5

(* The clients of the engine's orders. *)
LEMMA OrderClients ==
  ASSUME IInv
  PROVE  /\ \A id \in OrderIds : book.orders[id] # NoOrder => book.orders[id].client \in Clients
         /\ match # NoRequest => match.client \in Clients /\ match.id \in OrderIds
<1>1. ASSUME NEW id \in OrderIds, book.orders[id] # NoOrder
      PROVE  book.orders[id].client \in Clients
  <2>1. book.orders[id] \in Order
    BY <1>1 DEF IInv, TypeOK, Book
  <2> QED BY <2>1 DEF Order
<1> QED BY <1>1, AggressorFields
-----------------------------------------------------------------------------
(* What the engine says of the shares of its orders.                       *)

(* The open shares between two requests and while match() works, before    *)
(* and after a step.                                                       *)
LEMMA OpensIdle ==
  match = NoRequest =>
    \A id \in OrderIds :
      Opens[id] = IF book.orders[id] = NoOrder THEN 0 ELSE book.orders[id].open
  BY DEF Opens, OpenShares

LEMMA OpensIdleAfter ==
  match' = NoRequest =>
    \A id \in OrderIds :
      Opens'[id] = IF book'.orders[id] = NoOrder THEN 0 ELSE book'.orders[id].open
  BY DEF Opens, OpenShares

LEMMA OpensMatching ==
  match # NoRequest =>
    \A id \in OrderIds :
      Opens[id] = IF id = match.id THEN match.quantity - match.filled
                  ELSE IF book.orders[id] = NoOrder THEN 0 ELSE book.orders[id].open
  BY DEF Opens, OpenShares

LEMMA OpensMatchingAfter ==
  match' # NoRequest =>
    \A id \in OrderIds :
      Opens'[id] = IF id = match'.id THEN match'.quantity - match'.filled
                   ELSE IF book'.orders[id] = NoOrder THEN 0 ELSE book'.orders[id].open
  BY DEF Opens, OpenShares

LEMMA OpensSame == UNCHANGED <<book, match>> => Opens' = Opens
  BY DEF Opens, OpenShares

(* An event that names one order. *)
LEMMA PlainEvent ==
  ASSUME NEW type \in EngineEventTypes, NEW id \in OrderIds, NEW client \in Clients,
         NEW price \in Prices \cup {0}, NEW quantity \in 0..MaxQuantity,
         NEW reason \in {"none", "F", "U", "I", "R", "A"}
  PROVE  Event(type, id, client, price, quantity, reason) \in EngineEvent
<1>1. 0 \in 0..(MatchNumbers - 1)
  BY MatchAssumption, SMTT(30)
<1> QED BY <1>1, EventType

(* enter() gives the order its shares, or none. *)
LEMMA EnterReports ==
  ASSUME IInv, NEW req \in Request, enter_rejected(req) \/ enter(req)
  PROVE  \E ev : /\ Reports(ev, Opens, Opens', {req.id}) /\ out' = <<ev>>
                 /\ ev.id = req.id /\ ev.orig_id = req.id /\ ev.client = req.client
<1>0. /\ req.type = "NEW" /\ book.orders[req.id] = NoOrder /\ match = NoRequest /\ book' = book
  BY DEF enter_rejected, enter, Idle
<1>1. req.id \in OrderIds /\ req.client \in Clients /\ req.quantity \in Quantities
      /\ req.price \in Prices \cup {0}
  BY <1>0, NewFields
<1>2. /\ req.quantity \in 0..MaxQuantity /\ req.quantity # 0 /\ 0 \in 0..MaxQuantity
      /\ 0 \in 0..(MatchNumbers - 1)
  BY <1>1, QuantityAssumption, MatchAssumption, SMTT(30) DEF Quantities
<1>3. \A id \in OrderIds :
        Opens[id] = IF book.orders[id] = NoOrder THEN 0 ELSE book.orders[id].open
  BY <1>0, OpensIdle
<1>4. CASE enter_rejected(req)
  <2>1. PICK ev : ev = Event("REJECTED", req.id, req.client, 0, 0, "F")
    OBVIOUS
  <2>2. out' = <<ev>> /\ match' = match
    BY <1>4, <2>1 DEF enter_rejected
  <2>3. ev \in EngineEvent
    <3>1. "REJECTED" \in EngineEventTypes
      BY DEF EngineEventTypes
    <3> QED BY <2>1, <3>1, <1>1, <1>2, PlainEvent
  <2>4. /\ ev.type = "REJECTED" /\ ev.id = req.id
        /\ ev.orig_id = req.id /\ ev.client = req.client
    BY <2>1 DEF Event
  <2>5. Opens' = Opens
    BY <2>2, <1>0, OpensSame
  <2>6. Reports(ev, Opens, Opens', {req.id})
    BY <2>3, <2>4, <2>5, <1>0, <1>1, <1>3 DEF Reports, LeftOpen
  <2> QED BY <2>2, <2>4, <2>6
<1>5. CASE enter(req)
  <2>1. PICK ev : ev = Event("ACCEPTED", req.id, req.client, req.price, req.quantity, "none")
    OBVIOUS
  <2>2. out' = <<ev>> /\ match' # NoRequest /\ match'.id = req.id
        /\ match'.quantity = req.quantity /\ match'.filled = 0
    <3>1. out' = <<ev>> /\ match' \in Aggressor
      BY <1>5, <2>1, EnterStep DEF enter
    <3>2. match' = [id |-> req.id, client |-> req.client, side |-> req.side,
                    order_type |-> req.order_type, price |-> req.price,
                    quantity |-> req.quantity, filled |-> 0, executed |-> 0,
                    may_rest |-> may_rest(req)]
      BY <1>5 DEF enter
    <3> QED BY <3>1, <3>2, NoRequestAssumption
  <2>3. ev \in EngineEvent
    <3>1. "ACCEPTED" \in EngineEventTypes
      BY DEF EngineEventTypes
    <3> QED BY <2>1, <3>1, <1>1, <1>2, PlainEvent
  <2>4. /\ ev.type = "ACCEPTED" /\ ev.id = req.id
        /\ ev.orig_id = req.id /\ ev.client = req.client /\ ev.quantity = req.quantity
    BY <2>1 DEF Event
  <2>5. \A id \in OrderIds :
          Opens'[id] = IF id = req.id THEN req.quantity ELSE Opens[id]
    BY <2>2, <1>0, <1>2, <1>3, OpensMatchingAfter, SMTT(30)
  <2>6. Reports(ev, Opens, Opens', {req.id})
    BY <2>3, <2>4, <2>5, <1>1, <1>2 DEF Reports, LeftOpen
  <2> QED BY <2>2, <2>4, <2>6
<1> QED BY <1>4, <1>5

(* The order leaves the book. *)
LEMMA OpensWithout ==
  ASSUME Sound(book), match = NoRequest, match' = NoRequest,
         NEW id \in OrderIds, book.orders[id] # NoOrder, book' = Removed(book, id)
  PROVE  \A x \in OrderIds : Opens'[x] = IF x = id THEN 0 ELSE Opens[x]
<1>1. book'.orders = [book.orders EXCEPT ![id] = NoOrder]
      /\ book.orders \in [OrderIds -> Order \cup {NoOrder}]
  BY RemovedIsSound DEF Sound, Good, Book
<1>2. \A x \in OrderIds : book'.orders[x] = IF x = id THEN NoOrder ELSE book.orders[x]
  BY <1>1
<1> QED BY <1>2, OpensIdle, OpensIdleAfter, SMTT(30)

(* Its shares are changed. *)
LEMMA OpensReduced ==
  ASSUME Sound(book), match = NoRequest, match' = NoRequest,
         NEW id \in OrderIds, book.orders[id] # NoOrder, NEW open \in Quantities,
         book' = [book EXCEPT !.orders[id].open = open]
  PROVE  \A x \in OrderIds : Opens'[x] = IF x = id THEN open ELSE Opens[x]
<1>1. book \in Book /\ book.orders \in [OrderIds -> Order \cup {NoOrder}]
  BY DEF Sound, Good, Book
<1>2. PICK order : order = [book.orders[id] EXCEPT !.open = open]
  OBVIOUS
<1>3. order.open = open /\ order # NoOrder
  <2>1. book.orders[id] \in Order
    BY <1>1
  <2>2. order.open = open /\ order \in Order
    BY <2>1, <1>2 DEF Order
  <2> QED BY <2>2, NoOrderAssumption
<1>4. book'.orders = [book.orders EXCEPT ![id] = order]
  BY <1>1, <1>2 DEF Book
<1>5. \A x \in OrderIds : book'.orders[x] = IF x = id THEN order ELSE book.orders[x]
  BY <1>1, <1>4
<1> QED BY <1>3, <1>5, OpensIdle, OpensIdleAfter, SMTT(30)

(* cancel() tells the owner how many shares go. *)
LEMMA CancelReports ==
  ASSUME IInv, NEW req \in Request, cancel(req)
  PROVE  \E ev, m : /\ Reports(ev, Opens, Opens', {}) /\ m \in ITCH /\ out' = <<ev, m>>
                    /\ ev.id = req.id /\ ev.orig_id = req.id /\ HeldBy(req.id, ev.client)
<1>1. PICK order, target : /\ order = book.orders[req.id]
                           /\ target = open_after(req.quantity, order.executed)
  OBVIOUS
<1>2. PICK ev : ev = Event("CANCELED", req.id, order.client, order.price, order.open - target, "U")
  OBVIOUS
<1>3. /\ req.type = "CANCEL" /\ order # NoOrder /\ target < order.open
      /\ match = NoRequest /\ match' = NoRequest
      /\ \/ /\ target = 0
            /\ book' = Removed(book, req.id)
            /\ out' = <<ev, ItchDelete(req.id)>>
         \/ /\ target # 0
            /\ book' = [book EXCEPT !.orders[req.id].open = target]
            /\ out' = <<ev, [type |-> "Cancel", id |-> req.id, shares |-> order.open - target]>>
  BY <1>1, <1>2 DEF cancel, Idle, Owned, Removed
<1>4. req.id \in OrderIds /\ req.quantity \in Nat
  BY <1>3, CancelFields
<1>5. Sound(book)
  BY InvParts
<1>6. /\ order.client \in Clients /\ order.price \in Prices
      /\ order.open \in Nat /\ order.open \in Quantities /\ order.executed \in Nat
  BY <1>1, <1>3, <1>4, <1>5, OrderFields
<1>7. target \in Nat
  BY <1>1, <1>4, <1>6, OpenAfter
<1>8. /\ order.open - target \in 0..MaxQuantity /\ order.open - target \in Quantities
      /\ order.open - (order.open - target) = target
      /\ order.open - target # 0 /\ order.open - target <= order.open
      /\ target # 0 => target \in Quantities
  BY <1>3, <1>6, <1>7, QuantityAssumption, SMTT(30) DEF Quantities
<1>9. ev \in EngineEvent
  <2>1. "CANCELED" \in EngineEventTypes
    BY DEF EngineEventTypes
  <2> QED BY <1>2, <1>4, <1>6, <1>8, <2>1, PlainEvent
<1>10. /\ ev.type = "CANCELED" /\ ev.id = req.id /\ ev.orig_id = req.id
       /\ ev.client = order.client /\ ev.quantity = order.open - target
  BY <1>2 DEF Event
<1>11. Opens[req.id] = order.open /\ order.open # 0
  BY <1>1, <1>3, <1>4, <1>6, OpensIdle, SMTT(30) DEF Quantities
<1>12. HeldBy(req.id, ev.client)
  BY <1>1, <1>3, <1>10 DEF HeldBy
<1>13. \A x \in OrderIds : Opens'[x] = IF x = req.id THEN target ELSE Opens[x]
  <2>0. book.orders[req.id] # NoOrder /\ match = NoRequest /\ match' = NoRequest
    BY <1>1, <1>3
  <2>1. CASE target = 0 /\ book' = Removed(book, req.id)
    BY <2>0, <2>1, <1>4, <1>5, OpensWithout
  <2>2. CASE target # 0 /\ book' = [book EXCEPT !.orders[req.id].open = target]
    BY <2>0, <2>2, <1>4, <1>5, <1>8, OpensReduced
  <2> QED BY <2>1, <2>2, <1>3
<1>14. Reports(ev, Opens, Opens', {})
  BY <1>8, <1>9, <1>10, <1>11, <1>13 DEF Reports, LeftOpen
<1>15. \E m : m \in ITCH /\ out' = <<ev, m>>
  <2>1. ItchDelete(req.id) \in ITCH
        /\ [type |-> "Cancel", id |-> req.id, shares |-> order.open - target] \in ITCH
    BY <1>4, <1>8 DEF ITCH, ItchDelete
  <2> QED BY <2>1, <1>3
<1> QED BY <1>10, <1>12, <1>14, <1>15

(* replace() of an order of which nothing more may trade cancels it. *)
LEMMA ReplaceAsCancelReports ==
  ASSUME IInv, NEW req \in Request, replace_as_cancel(req)
  PROVE  \E ev, m : /\ Reports(ev, Opens, Opens', {}) /\ m \in ITCH /\ out' = <<ev, m>>
                    /\ ev.id = req.id /\ ev.orig_id = req.id /\ HeldBy(req.id, ev.client)
<1>1. PICK order : order = book.orders[req.id]
  OBVIOUS
<1>2. PICK ev : ev = Event("CANCELED", req.id, order.client, order.price, order.open, "U")
  OBVIOUS
<1>3. /\ Idle /\ Replaceable(req) /\ match' = match
      /\ book' = Removed(book, req.id) /\ out' = <<ev, ItchDelete(req.id)>>
  BY <1>1, <1>2 DEF replace_as_cancel, Removed
<1>4. /\ req.id \in OrderIds /\ order # NoOrder /\ Sound(book) /\ match = NoRequest
      /\ order.client \in Clients /\ order.price \in Prices
      /\ order.open \in Quantities /\ order.open \in 0..MaxQuantity
  BY <1>1, <1>3, ReplaceStart
<1>5. ev \in EngineEvent
  <2>1. "CANCELED" \in EngineEventTypes
    BY DEF EngineEventTypes
  <2> QED BY <1>2, <1>4, <2>1, PlainEvent
<1>6. /\ ev.type = "CANCELED" /\ ev.id = req.id /\ ev.orig_id = req.id
      /\ ev.client = order.client /\ ev.quantity = order.open
  BY <1>2 DEF Event
<1>7. Opens[req.id] = order.open /\ order.open # 0 /\ order.open \in Nat
  BY <1>1, <1>4, OpensIdle, QuantityAssumption, SMTT(30) DEF Quantities
<1>8. HeldBy(req.id, ev.client)
  BY <1>1, <1>4, <1>6 DEF HeldBy
<1>9. \A x \in OrderIds : Opens'[x] = IF x = req.id THEN 0 ELSE Opens[x]
  <2>1. book.orders[req.id] # NoOrder /\ match' = NoRequest
    BY <1>1, <1>3, <1>4
  <2> QED BY <2>1, <1>3, <1>4, OpensWithout
<1>10. Reports(ev, Opens, Opens', {})
  BY <1>5, <1>6, <1>7, <1>9, SMTT(30) DEF Reports, LeftOpen
<1>11. ItchDelete(req.id) \in ITCH
  BY <1>4 DEF ITCH, ItchDelete
<1> QED BY <1>3, <1>6, <1>8, <1>10, <1>11

(* Otherwise the new order takes the place of the old one. *)
LEMMA ReplaceReports ==
  ASSUME IInv, NEW req \in Request, replace_resting(req) \/ replace_matching(req)
  PROVE  \E ev, m : /\ Reports(ev, Opens, Opens', {req.new_id}) /\ m \in ITCH
                    /\ out' = <<ev, m>>
                    /\ ev.id = req.new_id /\ ev.orig_id = req.id
                    /\ ev.client = req.client /\ HeldBy(req.id, ev.client)
<1>1. PICK orig, open, ev, without :
        /\ orig = book.orders[req.id] /\ open = ReplaceOpen(req)
        /\ ev = Replaced(req) /\ without = Removed(book, req.id)
  OBVIOUS
<1>2. /\ Idle /\ Replaceable(req) /\ open # 0
      /\ \E m : out' = <<ev, m>>
  BY <1>1 DEF replace_resting, replace_matching
<1>3. /\ req.id \in OrderIds /\ req.new_id \in OrderIds /\ req.client \in Clients
      /\ req.price \in Prices /\ req.id # req.new_id
      /\ orig # NoOrder /\ orig.open \in Quantities /\ open \in Quantities /\ open \in 0..MaxQuantity
      /\ orig.side \in Sides /\ orig.executed \in 0..MaxQuantity
      /\ match = NoRequest /\ Sound(book)
  BY <1>1, <1>2, ReplaceStart
<1>4. ev \in EngineEvent
  BY <1>1, <1>3, ReplacedType
<1>5. /\ ev.type = "REPLACED" /\ ev.id = req.new_id /\ ev.orig_id = req.id
      /\ ev.client = req.client /\ ev.quantity = open
  BY <1>1 DEF Replaced, Event
<1>6. HeldBy(req.id, ev.client) /\ book.orders[req.new_id] = NoOrder
  BY <1>1, <1>2, <1>3, <1>5 DEF HeldBy, Replaceable, Owned
<1>7. \A x \in OrderIds :
        Opens[x] = IF book.orders[x] = NoOrder THEN 0 ELSE book.orders[x].open
  BY <1>3, OpensIdle
<1>8. Opens[req.id] # 0
  BY <1>1, <1>3, <1>7, SMTT(30) DEF Quantities
<1>9. \A x \in OrderIds : without.orders[x] = IF x = req.id THEN NoOrder ELSE book.orders[x]
  <2>1. /\ without.orders = [book.orders EXCEPT ![req.id] = NoOrder]
        /\ book.orders \in [OrderIds -> Order \cup {NoOrder}]
    BY <1>1, <1>3, RemovedIsSound DEF Sound, Good, Book
  <2> QED BY <2>1
<1>10. \A x \in OrderIds :
         Opens'[x] = IF x = req.new_id THEN open ELSE IF x = req.id THEN 0 ELSE Opens[x]
  <2>1. CASE replace_resting(req)
    <3>1. PICK order :
            order = [client |-> req.client, side |-> orig.side, price |-> req.price,
                     open |-> open, executed |-> orig.executed]
      OBVIOUS
    <3>2. book' = rest(without, req.new_id, order) /\ match' = NoRequest
      BY <2>1, <3>1, <1>1, <1>3 DEF replace_resting, Removed
    <3>3. order \in Order /\ order.open = open
      BY <3>1, <1>3 DEF Order
    <3>4. without.orders \in [OrderIds -> Order \cup {NoOrder}]
      BY <1>1, <1>2, ReplaceStart DEF Sound, Good, Book
    <3>5. \A x \in OrderIds : book'.orders[x] = IF x = req.new_id THEN order ELSE without.orders[x]
      BY <3>2, <3>4, RestingAdds, SMTT(30)
    <3>6. \A x \in OrderIds :
            Opens'[x] = IF book'.orders[x] = NoOrder THEN 0 ELSE book'.orders[x].open
      BY <3>2, OpensIdleAfter
    <3> QED BY <3>3, <3>5, <3>6, <1>7, <1>9, NoOrderAssumption, SMTT(30)
  <2>2. CASE replace_matching(req)
    <3>1. match' \in Aggressor
      BY <2>2, ReplaceMatchingStep
    <3>2. /\ match' # NoRequest /\ match'.id = req.new_id /\ book' = without
          /\ match'.quantity = open /\ match'.filled = 0
      BY <2>2, <3>1, <1>1, NoRequestAssumption DEF replace_matching, Removed
    <3>3. open \in Nat
      BY <1>3, SMTT(30)
    <3> QED BY <3>2, <3>3, <1>7, <1>9, OpensMatchingAfter, SMTT(30)
  <2> QED BY <2>1, <2>2
<1>11. Reports(ev, Opens, Opens', {req.new_id})
  BY <1>2, <1>3, <1>4, <1>5, <1>8, <1>10 DEF Reports, LeftOpen
<1>12. \E m : m \in ITCH /\ out' = <<ev, m>>
  <2>1. /\ ItchDelete(req.id) \in ITCH
        /\ [type |-> "Replace", orig_id |-> req.id, id |-> req.new_id,
            shares |-> open, price |-> req.price] \in ITCH
    BY <1>3 DEF ITCH, ItchDelete
  <2>2. \/ out' = <<ev, [type |-> "Replace", orig_id |-> req.id, id |-> req.new_id,
                         shares |-> open, price |-> req.price]>>
        \/ out' = <<ev, ItchDelete(req.id)>>
    BY <1>1 DEF replace_resting, replace_matching
  <2> QED BY <2>1, <2>2
<1> QED BY <1>5, <1>6, <1>11, <1>12

(* A request: nothing happens, or one event tells of it. *)
LEMMA ProcessReports ==
  ASSUME IInv, NEW req \in Request, process(req)
  PROVE  \/ out' = <<>> /\ Opens' = Opens
         \/ \E ev, created :
              /\ Reports(ev, Opens, Opens', created)
              /\ out' = <<ev>> \/ (\E m \in ITCH : out' = <<ev, m>>)
              /\ created = {} \/ (req.type # "CANCEL" /\ created = {NewId(req)})
              /\ \A id \in {ev.id, ev.orig_id} :
                   \/ HeldBy(id, ev.client)
                   \/ req.type # "CANCEL" /\ id = NewId(req) /\ ev.client = req.client
<1>1. CASE ignore(req)
  BY <1>1, OpensSame DEF ignore, Idle, vars
<1>2. CASE enter_rejected(req) \/ enter(req)
  <2>1. req.type = "NEW" /\ NewId(req) = req.id
    BY <1>2 DEF enter_rejected, enter, NewId
  <2>2. PICK ev : /\ Reports(ev, Opens, Opens', {req.id}) /\ out' = <<ev>>
                  /\ ev.id = req.id /\ ev.orig_id = req.id /\ ev.client = req.client
    BY <1>2, EnterReports
  <2> QED BY <2>1, <2>2
<1>3. CASE cancel(req)
  BY <1>3, CancelReports
<1>4. CASE replace_as_cancel(req)
  BY <1>4, ReplaceAsCancelReports
<1>5. CASE replace_resting(req) \/ replace_matching(req)
  <2>1. req.type = "REPLACE" /\ NewId(req) = req.new_id
    BY <1>5 DEF replace_resting, replace_matching, Replaceable, NewId
  <2>2. PICK ev, m : /\ Reports(ev, Opens, Opens', {req.new_id}) /\ m \in ITCH
                     /\ out' = <<ev, m>>
                     /\ ev.id = req.new_id /\ ev.orig_id = req.id
                     /\ ev.client = req.client /\ HeldBy(req.id, ev.client)
    BY <1>5, ReplaceReports
  <2> QED BY <2>1, <2>2
<1> QED BY <1>1, <1>2, <1>3, <1>4, <1>5 DEF process

(* The shares of a resting order after a trade. *)
LEMMA TradedOpen ==
  ASSUME Sound(book), NEW id \in OrderIds, book.orders[id] # NoOrder,
         NEW fill \in Nat, fill > 0, fill <= book.orders[id].open,
         fill = book.orders[id].open => book' = Removed(book, id),
         fill # book.orders[id].open =>
           book' = [book EXCEPT !.orders[id].open = @ - fill, !.orders[id].executed = @ + fill]
  PROVE  \A x \in OrderIds :
           (IF book'.orders[x] = NoOrder THEN 0 ELSE book'.orders[x].open)
             = IF x = id THEN book.orders[id].open - fill
               ELSE IF book.orders[x] = NoOrder THEN 0 ELSE book.orders[x].open
<1>0. /\ book \in Book /\ book.orders \in [OrderIds -> Order \cup {NoOrder}]
      /\ book.orders[id] \in Order /\ book.orders[id].open \in Nat
      /\ book.orders[id].executed \in Nat
      /\ book.orders[id].open + book.orders[id].executed <= MaxQuantity
  BY OrderFields DEF Sound, Good, Book
<1>1. CASE fill = book.orders[id].open
  <2>1. book'.orders = [book.orders EXCEPT ![id] = NoOrder]
    BY <1>1, RemovedIsSound
  <2>2. \A x \in OrderIds : book'.orders[x] = IF x = id THEN NoOrder ELSE book.orders[x]
    BY <2>1, <1>0
  <2> QED BY <2>2, <1>0, <1>1, SMTT(30)
<1>2. CASE fill # book.orders[id].open
  <2>1. PICK order : order = Traded(book.orders[id], fill)
    OBVIOUS
  <2>2. order \in Order /\ order.open = book.orders[id].open - fill
    <3>1. fill < book.orders[id].open
      BY <1>0, <1>2, SMTT(30)
    <3> QED BY <2>1, <3>1, <1>0, TradedFields
  <2>3. book' = Filled(book, id, fill)
    BY <1>2 DEF Filled
  <2>4. book' = [book EXCEPT !.orders[id] = order]
    <3>1. book' = Put(book, id, order)
      BY <2>1, <2>3, <1>0, TradedBook
    <3> QED BY <3>1 DEF Put
  <2>5. book'.orders = [book.orders EXCEPT ![id] = order]
    BY <2>4, <1>0 DEF Book
  <2>6. \A x \in OrderIds : book'.orders[x] = IF x = id THEN order ELSE book.orders[x]
    BY <2>5, <1>0
  <2> QED BY <2>2, <2>6, NoOrderAssumption
<1> QED BY <1>1, <1>2

(* An iteration of match(): two events tell of the two orders it fills. *)
LEMMA MatchStepReports ==
  ASSUME IInv, match_step
  PROVE  \E ev1, ev2, m, mid :
           /\ Reports(ev1, Opens, mid, {}) /\ Reports(ev2, mid, Opens', {})
           /\ m \in ITCH /\ out' = <<ev1, ev2, m>>
           /\ \A id \in {ev1.id, ev1.orig_id} : HeldBy(id, ev1.client)
           /\ \A id \in {ev2.id, ev2.orig_id} : HeldBy(id, ev2.client)
<1> DEFINE s == Opposite(match.side)
           level_price == book.best[s]
           id == Head(book.levels[s][level_price])
           resting == book.orders[id]
           wanted == match.quantity - match.filled
           fill == IF wanted < resting.open THEN wanted ELSE resting.open
           trade(of, client, flag) ==
             [Event("EXECUTED", of, client, level_price, fill, flag)
                EXCEPT !.match_number = next_match_number]
           itch == [type |-> "Executed", id |-> id, shares |-> fill]
<1>0. /\ match # NoRequest /\ match.filled < match.quantity /\ book.non_empty[s] # 0
      /\ match' = [match EXCEPT !.filled = @ + fill]
      /\ out' = <<trade(match.id, match.client, "R"), trade(id, resting.client, "A"), itch>>
  BY DEF match_step, Matching, StillCrosses, crosses
<1>1. /\ fill = resting.open => book' = Removed(book, id)
      /\ fill # resting.open => book' = [book EXCEPT !.orders[id].open = @ - fill,
                                                     !.orders[id].executed = @ + fill]
  BY DEF match_step, Removed
<1>2. /\ match \in Aggressor
      /\ match.id \in OrderIds /\ match.client \in Clients
      /\ match.quantity \in Nat /\ match.filled \in Nat
      /\ book.orders[match.id] = NoOrder
  BY <1>0, AggressorFields
<1>3. Sound(book) /\ next_match_number \in 0..(MatchNumbers - 1)
  BY InvParts
<1>4. level_price \in Prices /\ id \in OrderIds /\ resting # NoOrder
  <2>1. s \in Sides
    BY DEF Opposite, Sides
  <2> HIDE DEF s
  <2> QED BY <2>1, <1>0, <1>3, BestFront
<1> HIDE DEF s, level_price, id
<1>5. resting.client \in Clients /\ resting.open \in Nat /\ resting.open > 0
      /\ resting.open <= MaxQuantity
  <2>1. /\ resting.client \in Clients /\ resting.open \in Nat /\ resting.open > 0
        /\ resting.executed \in Nat /\ resting.open + resting.executed <= MaxQuantity
    BY <1>3, <1>4, OrderFields
  <2> HIDE DEF resting
  <2> QED BY <2>1, QuantityAssumption, SMTT(30)
<1>6. /\ fill \in Nat /\ fill > 0 /\ fill <= resting.open /\ fill <= wanted
      /\ fill \in 0..MaxQuantity /\ fill \in Quantities /\ wanted \in Nat
  <2> HIDE DEF resting
  <2> QED BY <1>0, <1>2, <1>5, QuantityAssumption, SMTT(30) DEF Quantities
<1> HIDE DEF fill
<1>7. PICK ev1 : ev1 = trade(match.id, match.client, "R")
  OBVIOUS
<1>8. PICK ev2 : ev2 = trade(id, resting.client, "A")
  OBVIOUS
<1>9. ev1 \in EngineEvent /\ ev2 \in EngineEvent /\ itch \in ITCH
  <2>1. ev1 \in EngineEvent
    BY <1>2, <1>3, <1>4, <1>6, <1>7, EventType DEF EngineEventTypes
  <2>2. ev2 \in EngineEvent
    <3> HIDE DEF resting
    <3> QED BY <1>3, <1>4, <1>5, <1>6, <1>8, EventType DEF EngineEventTypes
  <2>3. itch \in ITCH
    BY <1>4, <1>6 DEF ITCH
  <2> QED BY <2>1, <2>2, <2>3
<1>10. /\ ev1.type = "EXECUTED" /\ ev1.id = match.id /\ ev1.orig_id = match.id
       /\ ev1.client = match.client /\ ev1.quantity = fill
       /\ ev2.type = "EXECUTED" /\ ev2.id = id /\ ev2.orig_id = id
       /\ ev2.client = resting.client /\ ev2.quantity = fill
  <2>1. /\ ev1.type = "EXECUTED" /\ ev1.id = match.id /\ ev1.orig_id = match.id
        /\ ev1.client = match.client /\ ev1.quantity = fill
    BY <1>7 DEF Event
  <2>2. /\ ev2.type = "EXECUTED" /\ ev2.id = id /\ ev2.orig_id = id
        /\ ev2.client = resting.client /\ ev2.quantity = fill
    <3> HIDE DEF resting
    <3> QED BY <1>8 DEF Event
  <2> QED BY <2>1, <2>2
<1>11. out' = <<ev1, ev2, itch>>
  BY <1>0, <1>7, <1>8
<1> HIDE DEF trade, itch
<1>12. match' # NoRequest /\ match'.id = match.id
       /\ match'.quantity - match'.filled = wanted - fill
  <2>1. match' \in Aggressor
    <3>1. match.filled + fill \in 0..MaxQuantity
      BY <1>2, <1>6, QuantityAssumption, AggressorFields, <1>0, SMTT(30)
    <3> QED BY <3>1, <1>0, <1>2 DEF Aggressor
  <2>2. match'.id = match.id /\ match'.quantity = match.quantity
        /\ match'.filled = match.filled + fill
    BY <1>0, <1>2 DEF Aggressor
  <2> QED BY <2>1, <2>2, <1>2, <1>6, NoRequestAssumption, SMTT(30)
<1>13. \A x \in OrderIds :
         (IF book'.orders[x] = NoOrder THEN 0 ELSE book'.orders[x].open)
           = IF x = id THEN resting.open - fill
             ELSE IF book.orders[x] = NoOrder THEN 0 ELSE book.orders[x].open
  BY <1>1, <1>3, <1>4, <1>6, TradedOpen
<1>14. /\ id # match.id /\ Opens[id] = resting.open /\ Opens[match.id] = wanted
       /\ \A x \in OrderIds : Opens'[x] = IF x = match.id THEN wanted - fill
                               ELSE IF x = id THEN resting.open - fill ELSE Opens[x]
  <2>1. id # match.id
    BY <1>2, <1>4
  <2>2. \A x \in OrderIds :
          Opens[x] = IF x = match.id THEN wanted
                     ELSE IF book.orders[x] = NoOrder THEN 0 ELSE book.orders[x].open
    BY <1>0, OpensMatching
  <2>3. \A x \in OrderIds :
          Opens'[x] = IF x = match.id THEN wanted - fill
                      ELSE IF book'.orders[x] = NoOrder THEN 0 ELSE book'.orders[x].open
    BY <1>12, OpensMatchingAfter
  <2> QED BY <2>1, <2>2, <2>3, <1>2, <1>4, <1>13, SMTT(30)
<1>15. PICK mid : mid = [x \in OrderIds |-> IF x = match.id THEN wanted - fill ELSE Opens[x]]
  OBVIOUS
<1>16. HeldBy(match.id, ev1.client) /\ HeldBy(id, ev2.client)
  BY <1>0, <1>4, <1>10 DEF HeldBy
<1> HIDE DEF resting, wanted
<1>17. Reports(ev1, Opens, mid, {})
  BY <1>2, <1>5, <1>6, <1>9, <1>10, <1>14, <1>15, SMTT(30) DEF Reports, LeftOpen
<1>18. Reports(ev2, mid, Opens', {})
  BY <1>2, <1>4, <1>5, <1>6, <1>9, <1>10, <1>14, <1>15, SMTT(30) DEF Reports, LeftOpen
<1> QED BY <1>9, <1>10, <1>11, <1>16, <1>17, <1>18

(* The end of match(): the shares stay, or an event tells of their end. *)
LEMMA MatchDoneReports ==
  ASSUME IInv, match_done
  PROVE  \/ Opens' = Opens /\ (out' = <<>> \/ \E m \in ITCH : out' = <<m>>)
         \/ \E ev : /\ Reports(ev, Opens, Opens', {}) /\ out' = <<ev>>
                    /\ \A id \in {ev.id, ev.orig_id} : HeldBy(id, ev.client)
<1> DEFINE remaining == match.quantity - match.filled
<1>0. match # NoRequest /\ match' = NoRequest /\ out = <<>>
  BY DEF match_done, Matching
<1>1. /\ match \in Aggressor
      /\ match.id \in OrderIds /\ match.client \in Clients /\ match.side \in Sides
      /\ match.quantity \in Nat /\ match.filled \in Nat /\ match.executed \in Nat
      /\ match.executed + match.quantity <= MaxQuantity
      /\ match.filled <= match.quantity /\ match.price \in Prices \cup {0}
      /\ book.orders[match.id] = NoOrder
      /\ match.may_rest => match.price \in Prices
  <2>1. match.price \in Prices \cup {0}
    BY <1>0, AggressorFields DEF Aggressor
  <2> QED BY <2>1, <1>0, AggressorFields
<1>2. Sound(book) /\ book.orders \in [OrderIds -> Order \cup {NoOrder}]
  BY InvParts DEF Sound, Good, Book
<1>3. remaining \in 0..MaxQuantity /\ (remaining # 0 => remaining \in Quantities)
  BY <1>1, QuantityAssumption, SMTT(30) DEF Quantities
<1>4. \A x \in OrderIds :
        Opens[x] = IF x = match.id THEN remaining
                   ELSE IF book.orders[x] = NoOrder THEN 0 ELSE book.orders[x].open
  BY <1>0, OpensMatching
<1>5. \A x \in OrderIds :
        Opens'[x] = IF book'.orders[x] = NoOrder THEN 0 ELSE book'.orders[x].open
  BY <1>0, OpensIdleAfter
<1>6. CASE remaining = 0 /\ UNCHANGED <<book, out>>
  <2> HIDE DEF remaining
  <2>1. \A x \in OrderIds : Opens'[x] = Opens[x]
    BY <1>1, <1>4, <1>5, <1>6
  <2>2. Opens' = Opens
    BY <2>1 DEF Opens
  <2> QED BY <2>2, <1>0, <1>6
<1>7. ASSUME remaining # 0, match.may_rest,
             book' = rest(book, match.id,
                          [client |-> match.client, side |-> match.side,
                           price |-> match.price, open |-> remaining,
                           executed |-> match.executed + match.filled]),
             out' = <<[type |-> "Add", id |-> match.id, side |-> match.side,
                       shares |-> remaining, price |-> match.price]>>
      PROVE  Opens' = Opens /\ \E m \in ITCH : out' = <<m>>
  <2>1. PICK order :
          order = [client |-> match.client, side |-> match.side,
                   price |-> match.price, open |-> remaining,
                   executed |-> match.executed + match.filled]
    OBVIOUS
  <2>2. order \in Order /\ order.open = remaining
    <3>1. match.executed + match.filled \in 0..MaxQuantity /\ remaining \in Quantities
      BY <1>1, <1>3, <1>7, QuantityAssumption, SMTT(30)
    <3> HIDE DEF remaining
    <3> QED BY <2>1, <3>1, <1>1, <1>7 DEF Order
  <2>3. book' = rest(book, match.id, order)
    BY <2>1, <1>7
  <2>4. \A x \in OrderIds : book'.orders[x] = IF x = match.id THEN order ELSE book.orders[x]
    BY <2>3, <1>2, RestingAdds, SMTT(30)
  <2>5. [type |-> "Add", id |-> match.id, side |-> match.side,
         shares |-> remaining, price |-> match.price] \in ITCH
    <3> HIDE DEF remaining
    <3> QED BY <1>1, <1>3, <1>7 DEF ITCH
  <2> HIDE DEF remaining
  <2>6. \A x \in OrderIds : Opens'[x] = Opens[x]
    BY <2>2, <2>4, <1>1, <1>4, <1>5, NoOrderAssumption, SMTT(30)
  <2>7. Opens' = Opens
    BY <2>6 DEF Opens
  <2> QED BY <2>5, <2>7, <1>7
<1>8. ASSUME remaining # 0, UNCHANGED book,
             out' = <<Event("CANCELED", match.id, match.client, match.price, remaining, "I")>>
      PROVE  \E ev : /\ Reports(ev, Opens, Opens', {}) /\ out' = <<ev>>
                     /\ \A id \in {ev.id, ev.orig_id} : HeldBy(id, ev.client)
  <2> HIDE DEF remaining
  <2>1. PICK ev : ev = Event("CANCELED", match.id, match.client, match.price, remaining, "I")
    OBVIOUS
  <2>2. ev \in EngineEvent
    <3>1. "CANCELED" \in EngineEventTypes
      BY DEF EngineEventTypes
    <3> QED BY <2>1, <3>1, <1>1, <1>3, PlainEvent
  <2>3. /\ ev.type = "CANCELED" /\ ev.id = match.id /\ ev.orig_id = match.id
        /\ ev.client = match.client /\ ev.quantity = remaining
    BY <2>1 DEF Event
  <2>4. HeldBy(match.id, ev.client)
    BY <2>3, <1>0 DEF HeldBy
  <2>5. Reports(ev, Opens, Opens', {})
    BY <2>2, <2>3, <1>1, <1>3, <1>4, <1>5, <1>8, QuantityAssumption, SMTT(30) DEF Reports, LeftOpen
  <2> QED BY <2>1, <2>3, <2>4, <2>5, <1>8
<1> QED BY <1>6, <1>7, <1>8 DEF match_done
=============================================================================
