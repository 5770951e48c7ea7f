------------------------------ MODULE LevelLists ------------------------------
(***************************************************************************)
(* The memory of the order book: src/exchange/engine/include/order_pool.hpp*)
(* (an arena of Orders and a stack of unused ones) and price_level_queue   *)
(* .hpp (a doubly-linked list through the Orders), as rest(), unlink() and *)
(* release() of orderbook.cpp use them.                                    *)
(***************************************************************************)
EXTENDS Naturals, Sequences, FiniteSets, SequencesExt

CONSTANTS
  OrderIds,
  Levels,     \* price levels, of both sides
  capacity,   \* of the pool
  nullptr

ASSUME CapacityAssumption == capacity \in Nat

Slots == 0..(capacity - 1)
ASSUME NullptrAssumption == nullptr \notin Slots \cup Levels

VARIABLES
  arena_, free_list_,  \* OrderPool
  levels,              \* the PriceLevelQueues: [head, tail, size_]
  orders_              \* from ids to slots

vars == <<arena_, free_list_, levels, orders_>>

(* An Order: its id, its level (price_ and side_), its links.  A slot that *)
(* was never handed out has no id yet.                                     *)
Order(id, level) == [id_ |-> id, level |-> level, prev_ |-> nullptr, next_ |-> nullptr]

Init ==
  /\ arena_ = [s \in Slots |-> Order(nullptr, nullptr)]
  /\ free_list_ = [i \in 1..capacity |-> capacity - i]
  /\ levels = [l \in Levels |-> [head |-> nullptr, tail |-> nullptr, size_ |-> 0]]
  /\ orders_ = [id \in OrderIds |-> nullptr]
-----------------------------------------------------------------------------
(* Mutant: the links of the last user of the slot are kept. *)
allocateDirty(arena, slot, order) ==
  [arena EXCEPT ![slot].id_ = order.id_, ![slot].level = order.level]

(* OrderPool::allocate(): the slot becomes a copy of an unlinked order. *)
allocate(arena, slot, order) == [arena EXCEPT ![slot] = order]

(* PriceLevelQueue::push(): the arena and the level after it. *)
push(arena, q, slot) ==
  [arena |-> IF q.tail = nullptr THEN arena
             ELSE [arena EXCEPT ![q.tail].next_ = slot, ![slot].prev_ = q.tail],
   q |-> [head |-> IF q.head = nullptr THEN slot ELSE q.head, tail |-> slot,
          size_ |-> q.size_ + 1]]

(* Mutant: the link back is left as it was. *)
removeForward(arena, q, slot) ==
  LET prev == arena[slot].prev_
      next == arena[slot].next_
  IN  [arena |-> [s \in Slots |-> IF s = prev THEN [arena[s] EXCEPT !.next_ = next] ELSE arena[s]],
       q |-> [head |-> IF prev = nullptr THEN next ELSE q.head,
              tail |-> IF next = nullptr THEN prev ELSE q.tail,
              size_ |-> q.size_ - 1]]

(* PriceLevelQueue::remove() *)
remove(arena, q, slot) ==
  LET prev == arena[slot].prev_
      next == arena[slot].next_
  IN  [arena |-> [s \in Slots |-> [arena[s] EXCEPT
                    !.next_ = IF s = prev THEN next ELSE @,
                    !.prev_ = IF s = next THEN prev ELSE @]],
       q |-> [head |-> IF prev = nullptr THEN next ELSE q.head,
              tail |-> IF next = nullptr THEN prev ELSE q.tail,
              size_ |-> q.size_ - 1]]

(* rest(), which is only called when a slot is free. *)
rest(id, l) ==
  LET slot == Last(free_list_)
      pushed == push(allocate(arena_, slot, Order(id, l)), levels[l], slot)
  IN  /\ orders_[id] = nullptr /\ free_list_ # <<>>
      /\ free_list_' = Front(free_list_)
      /\ arena_' = pushed.arena
      /\ levels' = [levels EXCEPT ![l] = pushed.q]
      /\ orders_' = [orders_ EXCEPT ![id] = slot]

(* unlink() and release(), which every caller calls in this order. *)
unlink_release(id) ==
  LET slot == orders_[id]
      l == arena_[slot].level
      removed == remove(arena_, levels[l], slot)
  IN  /\ slot # nullptr
      /\ arena_' = removed.arena
      /\ levels' = [levels EXCEPT ![l] = removed.q]
      /\ orders_' = [orders_ EXCEPT ![id] = nullptr]
      /\ free_list_' = Append(free_list_, slot)

Next == \/ \E id \in OrderIds, l \in Levels : rest(id, l)
        \/ \E id \in OrderIds : unlink_release(id)

Spec == Init /\ [][Next]_vars
-----------------------------------------------------------------------------
(* The slots that orders_ leads to, and those of them on a level. *)
InUse == {orders_[id] : id \in OrderIds} \ {nullptr}
On(l) == {s \in InUse : arena_[s].level = l}

OrdersFound ==
  /\ \A id \in OrderIds : orders_[id] # nullptr => arena_[orders_[id]].id_ = id
  /\ \A s \in InUse : arena_[s].level \in Levels

LinksAgree ==
  \A l \in Levels : \A s \in On(l) :
    /\ arena_[s].prev_ = nullptr <=> levels[l].head = s
    /\ arena_[s].next_ = nullptr <=> levels[l].tail = s
    /\ arena_[s].prev_ # nullptr =>
         arena_[s].prev_ \in On(l) /\ arena_[arena_[s].prev_].next_ = s
    /\ arena_[s].next_ # nullptr =>
         arena_[s].next_ \in On(l) /\ arena_[arena_[s].next_].prev_ = s

EndsAgree ==
  \A l \in Levels :
    /\ levels[l].head # nullptr => levels[l].head \in On(l)
    /\ levels[l].tail # nullptr => levels[l].tail \in On(l)
    /\ levels[l].head = nullptr <=> levels[l].tail = nullptr

HeadsFound == \A l \in Levels : On(l) # {} => levels[l].head # nullptr

SizesAgree == \A l \in Levels : levels[l].size_ = Cardinality(On(l))

PoolAgrees ==
  /\ \A i, j \in 1..Len(free_list_) : free_list_[i] = free_list_[j] => i = j
  /\ Range(free_list_) = Slots \ InUse

(* Both directions of the links agree, with the ends and the size of the   *)
(* level; an order is linked to orders of its level only; a level with an  *)
(* order has a head to find it from; and a slot is in use or in the free   *)
(* list, once: one is never handed out while a level or orders_ still      *)
(* leads to it.                                                            *)
ListsWellFormed ==
  OrdersFound /\ LinksAgree /\ EndsAgree /\ HeadsFound /\ SizesAgree /\ PoolAgrees

(* The slots of a level from its head on, at most one more than there are. *)
Chain(l) ==
  LET at[i \in 1..(capacity + 1)] ==
        IF i = 1 THEN levels[l].head
        ELSE IF at[i - 1] = nullptr THEN nullptr ELSE arena_[at[i - 1]].next_
  IN  [i \in {j \in 1..(capacity + 1) : at[j] # nullptr} |-> at[i]]

(* The orders there. *)
Queue(l) == LET c == Chain(l) IN [i \in DOMAIN c |-> arena_[c[i]].id_]

(* The lists and the pool are the sequences and the number of free slots   *)
(* that Orderbook takes them for.                                          *)
Abstract ==
  INSTANCE PriceLevels WITH
    PoolCapacity <- capacity,
    free <- Len(free_list_),
    queues <- [l \in Levels |-> Queue(l)]

LevelsSpec == Abstract!LSpec
=============================================================================
