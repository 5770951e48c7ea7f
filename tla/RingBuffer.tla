----------------------------- MODULE RingBuffer -----------------------------
(***************************************************************************)
(* The single-producer single-consumer ring of src/infra/ring_buffer.hpp,  *)
(* the only channel between the exchange's threads (requests, events,      *)
(* notes, market data).                                                    *)
(*                                                                         *)
(* A call is split at every access to memory the other thread may touch:   *)
(* the acquire load of the other side's index, the access to the slot, and *)
(* the release store of the own index.  The acquire/release pairs order    *)
(* the slot accesses, so interleaving these steps covers what the two      *)
(* threads can observe: a load that returns an old index is a load made    *)
(* earlier.                                                                *)
(***************************************************************************)
EXTENDS Integers, Sequences

CONSTANTS Items,     \* the values of the element type T
          N,         \* number of slots: the constructor's argument
          NoItem     \* std::nullopt; also an unused slot or register

ASSUME NAssumption == N \in Nat \ {0}
ASSUME NPowerOfTwo == \E k \in 0..N : N = 2^k   \* the constructor's assert
ASSUME NoItemAssumption == NoItem \notin Items

VARIABLES
  write_idx,         \* the producer's atomic index
  cached_read_idx,   \* the producer's copy of read_idx
  read_idx,          \* the consumer's atomic index
  cached_write_idx,  \* the consumer's copy of write_idx
  buffer,            \* the slots
  prod,              \* where the producer is inside push()
  arg,               \* push()'s argument
  pushed,            \* push()'s last result
  cons,              \* where the consumer is inside pop()
  taken,             \* the item pop() has moved out of its slot
  popped             \* pop()'s last result

pvars == <<write_idx, cached_read_idx, prod, arg, pushed>>
cvars == <<read_idx, cached_write_idx, cons, taken, popped>>
vars  == <<pvars, cvars, buffer>>

Slots == 0..(N - 1)

(* (idx + 1) & mask, with mask = N - 1 and N a power of two. *)
Advance(idx) == (idx + 1) % N

Init == /\ write_idx = 0 /\ cached_read_idx = 0
        /\ read_idx = 0 /\ cached_write_idx = 0
        /\ buffer = [i \in Slots |-> NoItem]
        /\ prod = "idle" /\ arg = NoItem /\ pushed = FALSE
        /\ cons = "idle" /\ taken = NoItem /\ popped = NoItem
-----------------------------------------------------------------------------
(* Mutants of the steps below.                                             *)

(* No test for a full ring. *)
PushBeginNoFullTest(item) ==
  /\ prod = "idle"
  /\ arg' = item
  /\ prod' = "write"
  /\ UNCHANGED <<write_idx, cached_read_idx, pushed, cvars, buffer>>

(* The cache is ahead of the index it copies. *)
PushRefreshStale ==
  /\ prod = "refresh"
  /\ cached_read_idx' = Advance(read_idx)
  /\ IF Advance(write_idx) = read_idx
       THEN prod' = "idle" /\ pushed' = FALSE /\ arg' = NoItem
       ELSE prod' = "write" /\ UNCHANGED <<pushed, arg>>
  /\ UNCHANGED <<write_idx, cvars, buffer>>

(* The item goes to the slot after the one that is published. *)
PushWriteNextSlot ==
  /\ prod = "write"
  /\ buffer' = [buffer EXCEPT ![Advance(write_idx)] = arg]
  /\ prod' = "publish"
  /\ UNCHANGED <<write_idx, cached_read_idx, arg, pushed, cvars>>

(* pop() trusts its cached index. *)
PopRefreshNoReload ==
  /\ cons = "refresh"
  /\ cons' = "idle" /\ popped' = NoItem
  /\ UNCHANGED <<read_idx, cached_write_idx, taken, pvars, buffer>>
-----------------------------------------------------------------------------
(* push(item) is called.  When the cached index says there is room it goes *)
(* straight to the slot; otherwise it has to look at the real index.       *)
PushBegin(item) ==
  /\ prod = "idle"
  /\ arg' = item
  /\ prod' = IF Advance(write_idx) = cached_read_idx THEN "refresh" ELSE "write"
  /\ UNCHANGED <<write_idx, cached_read_idx, pushed, cvars, buffer>>

(* The acquire load of read_idx: room after all, or return false. *)
PushRefresh ==
  /\ prod = "refresh"
  /\ cached_read_idx' = read_idx
  /\ IF Advance(write_idx) = read_idx
       THEN prod' = "idle" /\ pushed' = FALSE /\ arg' = NoItem
       ELSE prod' = "write" /\ UNCHANGED <<pushed, arg>>
  /\ UNCHANGED <<write_idx, cvars, buffer>>

PushWrite ==
  /\ prod = "write"
  /\ buffer' = [buffer EXCEPT ![write_idx] = arg]
  /\ prod' = "publish"
  /\ UNCHANGED <<write_idx, cached_read_idx, arg, pushed, cvars>>

(* The release store of write_idx; return true. *)
PushPublish ==
  /\ prod = "publish"
  /\ write_idx' = Advance(write_idx)
  /\ prod' = "idle" /\ pushed' = TRUE /\ arg' = NoItem
  /\ UNCHANGED <<cached_read_idx, cvars, buffer>>

(* pop() is called. *)
PopBegin ==
  /\ cons = "idle"
  /\ cons' = IF read_idx = cached_write_idx THEN "refresh" ELSE "take"
  /\ UNCHANGED <<read_idx, cached_write_idx, taken, popped, pvars, buffer>>

(* The acquire load of write_idx: an item after all, or return nullopt. *)
PopRefresh ==
  /\ cons = "refresh"
  /\ cached_write_idx' = write_idx
  /\ IF read_idx = write_idx
       THEN cons' = "idle" /\ popped' = NoItem
       ELSE cons' = "take" /\ UNCHANGED popped
  /\ UNCHANGED <<read_idx, taken, pvars, buffer>>

PopTake ==
  /\ cons = "take"
  /\ taken' = buffer[read_idx]
  /\ cons' = "publish"
  /\ UNCHANGED <<read_idx, cached_write_idx, popped, pvars, buffer>>

(* The release store of read_idx; return the item. *)
PopPublish ==
  /\ cons = "publish"
  /\ read_idx' = Advance(read_idx)
  /\ cons' = "idle" /\ popped' = taken /\ taken' = NoItem
  /\ UNCHANGED <<cached_write_idx, pvars, buffer>>

Producer == \/ \E item \in Items : PushBegin(item)
            \/ PushRefresh \/ PushWrite \/ PushPublish
Consumer == PopBegin \/ PopRefresh \/ PopTake \/ PopPublish

Next == Producer \/ Consumer

Spec == Init /\ [][Next]_vars

(* The consumer thread polls its ring in a loop for as long as it runs. *)
FairSpec == Spec /\ WF_vars(Consumer)
-----------------------------------------------------------------------------
(* size(), evaluated on a pair of loaded indices. *)
SizeOf(w, r) == IF w >= r THEN w - r ELSE N + (w - r)

(* The items between the two indices, oldest first. *)
Contents ==
  [i \in 1..SizeOf(write_idx, read_idx) |-> buffer[(read_idx + (i - 1)) % N]]

Fifo == INSTANCE BoundedFifo WITH queue <- Contents, Capacity <- N - 1
FifoSpec == Fifo!Spec
-----------------------------------------------------------------------------
TypeOK ==
  /\ write_idx \in Slots /\ cached_read_idx \in Slots
  /\ read_idx \in Slots /\ cached_write_idx \in Slots
  /\ buffer \in [Slots -> Items \cup {NoItem}]
  /\ prod \in {"idle", "refresh", "write", "publish"}
  /\ cons \in {"idle", "refresh", "take", "publish"}
  /\ arg \in Items \cup {NoItem}
  /\ taken \in Items \cup {NoItem}
  /\ popped \in Items \cup {NoItem}
  /\ pushed \in BOOLEAN

(* The producer never writes the slot the consumer is reading: the plain   *)
(* accesses buffer[write_idx] = item and std::move(buffer[read_idx]) are   *)
(* not a data race although both sides decide from stale cached indices.   *)
NoSlotRace == ~ (prod = "write" /\ cons = "take" /\ write_idx = read_idx)

(* A cached index errs on the safe side: the producer never believes that  *)
(* there is more room, nor the consumer that there are more items, than    *)
(* there is, and a side that has passed its test still has its slot.       *)
CachesConservative ==
  /\ SizeOf(write_idx, read_idx) <= SizeOf(write_idx, cached_read_idx)
  /\ SizeOf(cached_write_idx, read_idx) <= SizeOf(write_idx, read_idx)
  /\ prod \in {"write", "publish"} => Advance(write_idx) # cached_read_idx
  /\ cons \in {"take", "publish"} => read_idx # cached_write_idx

(* Every slot between the indices holds an item that was pushed, so a      *)
(* successful pop never returns an unused slot.                            *)
HoldsItems ==
  \A i \in 1..SizeOf(write_idx, read_idx) : Contents[i] \in Items

(* The inductive invariant: the above, and what each thread's registers    *)
(* hold half-way through a call.                                           *)
RingInv ==
  /\ TypeOK
  /\ CachesConservative
  /\ HoldsItems
  /\ arg = NoItem <=> prod = "idle"
  /\ prod = "publish" => buffer[write_idx] = arg
  /\ cons = "publish" => taken = buffer[read_idx]

(* No lost wake-up: with a polling consumer an item in the ring is taken,  *)
(* although the consumer only reloads write_idx when its cache runs out.   *)
ItemsAreTaken == Contents # <<>> ~> cons = "publish"
=============================================================================
