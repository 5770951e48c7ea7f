----------------------------- MODULE PriceLevels -----------------------------
(***************************************************************************)
(* What the order book takes its price levels and its pool for: a level is *)
(* the sequence of the orders that rest there, oldest first, and the pool  *)
(* a number of free slots.  Orderbook is written in these terms.           *)
(***************************************************************************)
EXTENDS Naturals, Sequences, Functions

CONSTANTS OrderIds, Levels, PoolCapacity

VARIABLES queues, free

LInit == queues = [l \in Levels |-> <<>>] /\ free = PoolCapacity

Resting == UNION {Range(queues[l]) : l \in Levels}

(* rest() *)
Rest(id, l) ==
  /\ free > 0 /\ free' = free - 1
  /\ id \notin Resting
  /\ queues' = [queues EXCEPT ![l] = Append(@, id)]

(* PriceLevelQueue::remove(): the others close up. *)
remove(queue, id) ==
  LET at == CHOOSE i \in DOMAIN queue : queue[i] = id
  IN  [i \in 1..(Len(queue) - 1) |-> IF i < at THEN queue[i] ELSE queue[i + 1]]

(* unlink() and release() *)
Leave(id) ==
  \E l \in Levels :
    /\ free' = free + 1
    /\ id \in Range(queues[l])
    /\ queues' = [queues EXCEPT ![l] = remove(@, id)]

LNext == \/ \E id \in OrderIds, l \in Levels : Rest(id, l)
         \/ \E id \in OrderIds : Leave(id)

lvars == <<queues, free>>

LSpec == LInit /\ [][LNext]_lvars
=============================================================================
