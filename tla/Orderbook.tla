------------------------------ MODULE Orderbook ------------------------------
(***************************************************************************)
(* The matching engine's book: src/exchange/engine/src/orderbook.cpp with  *)
(* the order pool and the price-level queues it is built from.             *)
(*                                                                         *)
(* process() runs on the matching thread alone, so a request handler is    *)
(* one action up to the first point where it can be held up: emit() spins  *)
(* while the outbound ring is full.  The events a step emits wait in       *)
(* `out', in order, and the thread goes on (the next iteration of match(), *)
(* what follows the match, the next request) once they are all pushed.     *)
(* Bids and asks are the two values of an index instead of two copies of   *)
(* every member.                                                           *)
(***************************************************************************)
EXTENDS EngineTypes

CONSTANTS
  PREALLOCATION_COUNT,  \* slots in the order pool
  MarketDataCapacity,   \* messages the market data ring holds
  MaxDrops,             \* the drop counter saturates here (2^64 in the code)
  NoOrder,              \* absence from orders_
  NoRequest             \* no request in progress

ASSUME PoolAssumption == PREALLOCATION_COUNT \in Nat
ASSUME MarketDataAssumption == MarketDataCapacity \in Nat /\ MaxDrops \in Nat

(* An Order of the pool that is in use, seen through orders_.  An order is *)
(* an empty place in orders_ or a record; NoOrder is none of them.         *)
Order == [client : Clients, side : Sides, price : Prices,
          open : Quantities, executed : 0..MaxQuantity]
ASSUME NoOrderAssumption == NoOrder \notin Order

VARIABLES
  book,               \* orders, levels, best prices, level counts, free slots
  match,              \* the incoming order match() is working on, or NoRequest
  next_match_number,
  out,                \* events emitted and not yet pushed to the outbound ring
  market_data,        \* the market data ring
  market_data_drops

vars == <<book, match, next_match_number, out, market_data, market_data_drops>>

Init ==
  /\ book = [orders    |-> [id \in OrderIds |-> NoOrder],
             levels    |-> [s \in Sides |-> [p \in Prices |-> <<>>]],
             best      |-> [s \in Sides |-> IF s = "BID" THEN MIN_PRICE ELSE MAX_PRICE],
             non_empty |-> [s \in Sides |-> 0],
             available |-> PREALLOCATION_COUNT]
  /\ match = NoRequest
  /\ next_match_number = 1 % MatchNumbers
  /\ out = <<>>
  /\ market_data = <<>>
  /\ market_data_drops = 0
-----------------------------------------------------------------------------
(* Pure parts of the book.                                                 *)

Opposite(side) == IF side = "BID" THEN "ASK" ELSE "BID"

(* p is a strictly better price than q for an order resting on side. *)
Better(side, p, q) == IF side = "BID" THEN p > q ELSE p < q

(* The best price of an empty side. *)
Worst(side) == IF side = "BID" THEN MIN_PRICE ELSE MAX_PRICE

Live(b) == {id \in OrderIds : b.orders[id] # NoOrder}
NonEmptyLevels(b, side) == {p \in Prices : b.levels[side][p] # <<>>}

(* Mutant: the size is taken for what stays open. *)
open_afterAsOpen(total_liability, executed) == total_liability

open_after(total_liability, executed) ==
  IF total_liability > executed THEN total_liability - executed ELSE 0

(* Mutant: only a price through the best one crosses. *)
crossesThrough(b, side, order_type, price) ==
  /\ b.non_empty[Opposite(side)] # 0
  /\ order_type = "MARKET" \/ Better(side, price, b.best[Opposite(side)])

(* Whether an incoming order would trade at once. *)
crosses(b, side, order_type, price) ==
  /\ b.non_empty[Opposite(side)] # 0
  /\ order_type = "MARKET" \/ ~ Better(Opposite(side), price, b.best[Opposite(side)])

(* update_best_bid(), update_best_ask(): walk from the cached best price   *)
(* towards the worst until a level is occupied or the ladder ends.         *)
scan(levels, side, from) ==
  LET occupied == {p \in Prices : ~ Better(side, p, from) /\ levels[side][p] # <<>>}
  IN  IF occupied = {} THEN Worst(side)
      ELSE CHOOSE p \in occupied : \A q \in occupied : ~ Better(side, q, p)

(* PriceLevelQueue::remove: the links of the neighbours close over id. *)
remove(queue, id) ==
  LET at == CHOOSE i \in DOMAIN queue : queue[i] = id
  IN  [i \in 1..(Len(queue) - 1) |-> IF i < at THEN queue[i] ELSE queue[i + 1]]

(* Mutant: the newcomer is put in front of its level. *)
restInFront(b, id, order) ==
  [orders    |-> [b.orders EXCEPT ![id] = order],
   levels    |-> [b.levels EXCEPT ![order.side][order.price] = <<id>> \o @],
   best      |-> [b.best EXCEPT ![order.side] =
                    IF Better(order.side, order.price, @) THEN order.price ELSE @],
   non_empty |-> [b.non_empty EXCEPT ![order.side] =
                    IF b.levels[order.side][order.price] = <<>> THEN @ + 1 ELSE @],
   available |-> b.available - 1]

(* rest(): take a pool slot, index the order, join the back of its level. *)
rest(b, id, order) ==
  LET s == order.side
      p == order.price
  IN  [orders    |-> [b.orders EXCEPT ![id] = order],
       levels    |-> [b.levels EXCEPT ![s][p] = Append(@, id)],
       best      |-> [b.best EXCEPT ![s] = IF Better(s, p, @) THEN p ELSE @],
       non_empty |-> [b.non_empty EXCEPT ![s] = IF b.levels[s][p] = <<>> THEN @ + 1 ELSE @],
       available |-> b.available - 1]

(* Mutant: the best price of the side is not looked for again. *)
unlinkKeepsBest(b, id) ==
  LET s == b.orders[id].side
      p == b.orders[id].price
  IN  [b EXCEPT !.levels[s][p] = remove(@, id),
                !.non_empty[s] = IF Len(b.levels[s][p]) = 1 THEN @ - 1 ELSE @]

(* unlink(): off its price level, with the level count and the best price. *)
unlink(b, id) ==
  LET s == b.orders[id].side
      p == b.orders[id].price
      levels == [b.levels EXCEPT ![s][p] = remove(@, id)]
      emptied == levels[s][p] = <<>>
      count == IF emptied THEN b.non_empty[s] - 1 ELSE b.non_empty[s]
  IN  [b EXCEPT
         !.levels = levels,
         !.non_empty[s] = count,
         !.best[s] = IF emptied /\ count = 0 THEN Worst(s)
                     ELSE IF emptied /\ p = @ THEN scan(levels, s, p)
                     ELSE @]

(* release(): out of orders_ and back to the pool. *)
release(b, id) == [b EXCEPT !.orders[id] = NoOrder, !.available = @ + 1]

-----------------------------------------------------------------------------
(* What the book sends: EngineEvents for the gateway, ITCH messages for    *)
(* the subscribers of the market data feed.                                *)

Event(type, id, client, price, quantity, reason) ==
  [type |-> type, id |-> id, orig_id |-> id, client |-> client, price |-> price,
   quantity |-> quantity, reason |-> reason, match_number |-> 0]

ItchDelete(id) == [type |-> "Delete", id |-> id]
-----------------------------------------------------------------------------
(* The request handlers.  Each of them runs up to the match() it calls, if *)
(* it calls it, and appends what it sends to `out' in program order.       *)

Idle == match = NoRequest /\ out = <<>>

Owned(req) == /\ book.orders[req.id] # NoOrder
              /\ book.orders[req.id].client = req.client

(* The handlers that return false: nothing is sent and nothing changes. *)
ignore(req) ==
  /\ Idle
  /\ \/ req.type = "NEW" /\ book.orders[req.id] # NoOrder
     \/ req.type \in {"CANCEL", "REPLACE"} /\ ~ Owned(req)
     \/ /\ req.type = "CANCEL" /\ Owned(req)
        /\ open_after(req.quantity, book.orders[req.id].executed) >= book.orders[req.id].open
     \/ req.type = "REPLACE" /\ Owned(req) /\ book.orders[req.new_id] # NoOrder
  /\ UNCHANGED vars

may_rest(req) == req.order_type = "LIMIT" /\ req.tif = "DAY"

(* enter() when the order could need a pool slot and there is none. *)
enter_rejected(req) ==
  /\ Idle
  /\ req.type = "NEW" /\ book.orders[req.id] = NoOrder
  /\ may_rest(req) /\ book.available = 0
  /\ out' = <<Event("REJECTED", req.id, req.client, 0, 0, "F")>>
  /\ UNCHANGED <<book, match, next_match_number, market_data, market_data_drops>>

(* Mutant: the pool is not asked for a slot. *)
enterUnchecked(req) ==
  /\ Idle
  /\ req.type = "NEW" /\ book.orders[req.id] = NoOrder
  /\ out' = <<Event("ACCEPTED", req.id, req.client, req.price, req.quantity, "none")>>
  /\ match' = [id |-> req.id, client |-> req.client, side |-> req.side,
               order_type |-> req.order_type, price |-> req.price,
               quantity |-> req.quantity, filled |-> 0, executed |-> 0,
               may_rest |-> may_rest(req)]
  /\ UNCHANGED <<book, next_match_number, market_data, market_data_drops>>

(* enter() up to the call of match(). *)
enter(req) ==
  /\ Idle
  /\ req.type = "NEW" /\ book.orders[req.id] = NoOrder
  /\ ~ may_rest(req) \/ book.available # 0
  /\ out' = <<Event("ACCEPTED", req.id, req.client, req.price, req.quantity, "none")>>
  /\ match' = [id |-> req.id, client |-> req.client, side |-> req.side,
               order_type |-> req.order_type, price |-> req.price,
               quantity |-> req.quantity, filled |-> 0, executed |-> 0,
               may_rest |-> may_rest(req)]
  /\ UNCHANGED <<book, next_match_number, market_data, market_data_drops>>

(* Mutant: an order canceled to 0 stays. *)
cancelKeepsEmpty(req) ==
  LET target_open == open_after(req.quantity, book.orders[req.id].executed)
  IN  /\ Idle
      /\ req.type = "CANCEL" /\ Owned(req)
      /\ target_open < book.orders[req.id].open
      /\ book' = [book EXCEPT !.orders[req.id].open = target_open]
      /\ out' = <<>>
      /\ UNCHANGED <<match, next_match_number, market_data, market_data_drops>>

(* cancel(): reduce in place, or remove at 0. *)
cancel(req) ==
  LET order == book.orders[req.id]
      target_open == open_after(req.quantity, order.executed)
      decrement == order.open - target_open
      canceled == Event("CANCELED", req.id, order.client, order.price, decrement, "U")
  IN  /\ Idle
      /\ req.type = "CANCEL" /\ Owned(req)
      /\ target_open < order.open
      /\ \/ /\ target_open = 0
            /\ book' = release(unlink(book, req.id), req.id)
            /\ out' = <<canceled, ItchDelete(req.id)>>
         \/ /\ target_open # 0
            /\ book' = [book EXCEPT !.orders[req.id].open = target_open]
            /\ out' = <<canceled, [type |-> "Cancel", id |-> req.id, shares |-> decrement]>>
      /\ UNCHANGED <<match, next_match_number, market_data, market_data_drops>>

(* The tests replace() starts with, and what it leaves open. *)
Replaceable(req) == /\ req.type = "REPLACE" /\ Owned(req)
                    /\ book.orders[req.new_id] = NoOrder
ReplaceOpen(req) == open_after(req.quantity, book.orders[req.id].executed)
Replaced(req) ==
  [Event("REPLACED", req.new_id, req.client, req.price, ReplaceOpen(req), "none")
     EXCEPT !.orig_id = req.id]

(* replace() when the chain has already executed all it would allow. *)
replace_as_cancel(req) ==
  LET orig == book.orders[req.id]
  IN  /\ Idle
      /\ Replaceable(req)
      /\ ReplaceOpen(req) = 0
      /\ book' = release(unlink(book, req.id), req.id)
      /\ out' = << Event("CANCELED", req.id, orig.client, orig.price, orig.open, "U"),
                   ItchDelete(req.id) >>
      /\ UNCHANGED <<match, next_match_number, market_data, market_data_drops>>

(* replace() when the replacement rests without trading. *)
replace_resting(req) ==
  LET orig == book.orders[req.id]
      without == release(unlink(book, req.id), req.id)
  IN  /\ Idle
      /\ Replaceable(req)
      /\ ReplaceOpen(req) # 0
      /\ req.tif = "DAY" /\ ~ crosses(without, orig.side, "LIMIT", req.price)
      /\ book' = rest(without, req.new_id,
                      [client |-> req.client, side |-> orig.side, price |-> req.price,
                       open |-> ReplaceOpen(req), executed |-> orig.executed])
      /\ out' = << Replaced(req),
                   [type |-> "Replace", orig_id |-> req.id, id |-> req.new_id,
                    shares |-> ReplaceOpen(req), price |-> req.price] >>
      /\ UNCHANGED <<match, next_match_number, market_data, market_data_drops>>

(* replace() up to the call of match(). *)
replace_matching(req) ==
  LET orig == book.orders[req.id]
      without == release(unlink(book, req.id), req.id)
  IN  /\ Idle
      /\ Replaceable(req)
      /\ ReplaceOpen(req) # 0
      /\ req.tif = "IOC" \/ crosses(without, orig.side, "LIMIT", req.price)
      /\ book' = without
      /\ out' = <<Replaced(req), ItchDelete(req.id)>>
      /\ match' = [id |-> req.new_id, client |-> req.client, side |-> orig.side,
                   order_type |-> "LIMIT", price |-> req.price,
                   quantity |-> ReplaceOpen(req), filled |-> 0,
                   executed |-> orig.executed, may_rest |-> req.tif = "DAY"]
      /\ UNCHANGED <<next_match_number, market_data, market_data_drops>>
-----------------------------------------------------------------------------
(* The loop of match(), and what enter() and replace() do after it.        *)

Matching == match # NoRequest /\ out = <<>>

(* Mutant: the loop goes on when the order is filled. *)
StillCrossesFilled == crosses(book, match.side, match.order_type, match.price)

StillCrosses == /\ match.filled < match.quantity
                /\ crosses(book, match.side, match.order_type, match.price)

(* One iteration: the front of the best opposite level trades. *)
match_step ==
  LET s == Opposite(match.side)
      level_price == book.best[s]
      id == Head(book.levels[s][level_price])
      resting == book.orders[id]
      wanted == match.quantity - match.filled
      fill == IF wanted < resting.open THEN wanted ELSE resting.open
      executed(side_id, client, flag) ==
        [Event("EXECUTED", side_id, client, level_price, fill, flag)
           EXCEPT !.match_number = next_match_number]
  IN  /\ Matching /\ StillCrosses
      /\ match' = [match EXCEPT !.filled = @ + fill]
      /\ next_match_number' = (next_match_number + 1) % MatchNumbers
      /\ book' = IF fill = resting.open
                   THEN release(unlink(book, id), id)
                   ELSE [book EXCEPT !.orders[id].open = @ - fill,
                                     !.orders[id].executed = @ + fill]
      /\ out' = << executed(match.id, match.client, "R"),
                   executed(id, resting.client, "A"),
                   [type |-> "Executed", id |-> id, shares |-> fill] >>
      /\ UNCHANGED <<market_data, market_data_drops>>

(* The loop is over: a DAY limit remainder rests, any other is canceled. *)
match_done ==
  LET remaining == match.quantity - match.filled
  IN  /\ Matching /\ ~ StillCrosses
      /\ match' = NoRequest
      /\ \/ remaining = 0 /\ UNCHANGED <<book, out>>
         \/ /\ remaining # 0 /\ match.may_rest
            /\ book' = rest(book, match.id,
                            [client |-> match.client, side |-> match.side,
                             price |-> match.price, open |-> remaining,
                             executed |-> match.executed + match.filled])
            /\ out' = <<[type |-> "Add", id |-> match.id, side |-> match.side,
                         shares |-> remaining, price |-> match.price]>>
         \/ /\ remaining # 0 /\ ~ match.may_rest
            /\ out' = <<Event("CANCELED", match.id, match.client, match.price,
                              remaining, "I")>>
            /\ UNCHANGED book
      /\ UNCHANGED <<next_match_number, market_data, market_data_drops>>
-----------------------------------------------------------------------------
(* Output.                                                                 *)

(* emit()'s spin ends: the outbound ring takes the event. *)
emit ==
  /\ out # <<>> /\ Head(out).type \in EngineEventTypes
  /\ out' = Tail(out)
  /\ UNCHANGED <<book, match, next_match_number, market_data, market_data_drops>>

(* publish() never waits: a full market data ring drops the message. *)
publish ==
  /\ out # <<>> /\ Head(out).type \notin EngineEventTypes
  /\ out' = Tail(out)
  /\ \/ /\ Len(market_data) < MarketDataCapacity
        /\ market_data' = Append(market_data, Head(out))
        /\ UNCHANGED market_data_drops
     \/ /\ Len(market_data) >= MarketDataCapacity
        /\ market_data_drops' = IF market_data_drops < MaxDrops
                                  THEN market_data_drops + 1 ELSE market_data_drops
        /\ UNCHANGED market_data
  /\ UNCHANGED <<book, match, next_match_number>>

process(req) ==
  \/ ignore(req) \/ enter_rejected(req) \/ enter(req) \/ cancel(req)
  \/ replace_as_cancel(req) \/ replace_resting(req) \/ replace_matching(req)

(* The matching thread between two requests it takes. *)
Work == match_step \/ match_done \/ emit \/ publish

Next == (\E req \in Request : process(req)) \/ Work

Spec == Init /\ [][Next]_vars
-----------------------------------------------------------------------------
(* The incoming order match() works on, of which only the remainder that   *)
(* rests enters the book.                                                  *)
Aggressor == [id : OrderIds, client : Clients, side : Sides,
              order_type : {"LIMIT", "MARKET"}, price : Prices \cup {0},
              quantity : Quantities, filled : 0..MaxQuantity,
              executed : 0..MaxQuantity, may_rest : BOOLEAN]
ASSUME NoRequestAssumption == NoRequest \notin Aggressor

Book == [orders : [OrderIds -> Order \cup {NoOrder}],
         levels : [Sides -> [Prices -> Seq(OrderIds)]],
         best : [Sides -> Prices],
         non_empty : [Sides -> 0..(MAX_PRICE - MIN_PRICE + 1)],
         available : 0..PREALLOCATION_COUNT]

(* The members of Orderbook hold values of their types: in particular no   *)
(* order of size 0 rests and no level counter or pool count wraps below 0. *)
TypeOK ==
  /\ book \in Book
  /\ match \in Aggressor \cup {NoRequest}
  /\ next_match_number \in 0..(MatchNumbers - 1)
  /\ out \in Seq(EngineEvent \cup ITCH)
  /\ market_data \in Seq(ITCH)
  /\ market_data_drops \in 0..MaxDrops

(* The order is somewhere in this price level. *)
Queued(b, s, p, id) == \E i \in DOMAIN b.levels[s][p] : b.levels[s][p][i] = id

(* A level queues the live orders of its side and price, each of them once. *)
LevelsAgree(b) ==
  \A s \in Sides, p \in Prices :
    /\ \A i, j \in DOMAIN b.levels[s][p] : b.levels[s][p][i] = b.levels[s][p][j] => i = j
    /\ \A id \in OrderIds :
         Queued(b, s, p, id)
           <=> (b.orders[id] # NoOrder /\ b.orders[id].side = s /\ b.orders[id].price = p)

(* The counter of a side counts its occupied levels; its best price is     *)
(* that of the best of them, the worst end of the ladder if there is none. *)
LadderAgrees(b) ==
  \A s \in Sides :
    /\ b.non_empty[s] = Cardinality(NonEmptyLevels(b, s))
    /\ NonEmptyLevels(b, s) = {} => b.best[s] = Worst(s)
    /\ NonEmptyLevels(b, s) # {} => b.best[s] \in NonEmptyLevels(b, s)
    /\ \A p \in NonEmptyLevels(b, s) : ~ Better(s, p, b.best[s])

(* A slot of the pool is free or holds a live order. *)
PoolAgrees(b) == b.available + Cardinality(Live(b)) = PREALLOCATION_COUNT

(* The redundant indexes of the book, which every handler updates by hand, *)
(* agree: orders_, the levels, the level counters, the best prices and the *)
(* pool.                                                                   *)
BookInv(b) == LevelsAgree(b) /\ LadderAgrees(b) /\ PoolAgrees(b)
BookConsistent == BookInv(book)

(* No bid rests at or above an ask, in the middle of match() too: what     *)
(* crosses is traded before it rests.                                      *)
NotCrossed ==
  \A i, j \in Live(book) :
    (book.orders[i].side = "BID" /\ book.orders[j].side = "ASK")
      => book.orders[i].price < book.orders[j].price

(* rest() dereferences what allocate() returns untested ("callers          *)
(* guarantee a free slot") and indexes the ladder with the price: while an *)
(* order that may rest is matched, a slot is free, its id is not taken,    *)
(* and its price is on the ladder.                                         *)
RestIsSafe ==
  match # NoRequest =>
    /\ book.orders[match.id] = NoOrder
    /\ match.may_rest => book.available > 0 /\ match.order_type = "LIMIT"
    /\ match.order_type = "LIMIT" => match.price \in Prices

(* The liability of a chain of replaced orders, executed and open shares   *)
(* together, never exceeds the size the gateway lets through, so the       *)
(* unsigned quantities of the book cannot wrap.                            *)
LiabilityKept ==
  /\ \A id \in Live(book) : book.orders[id].open + book.orders[id].executed <= MaxQuantity
  /\ match # NoRequest => /\ match.filled <= match.quantity
                          /\ match.executed + match.quantity <= MaxQuantity

(* Who is ahead of an order in the new queue was ahead of it in the old.   *)
KeepsPriority(old, new) ==
  \A i \in DOMAIN old, j \in DOMAIN new : old[i] = new[j] =>
    \A ahead \in 1..(j - 1) : \E k \in 1..(i - 1) : old[k] = new[ahead]

(* Time priority: whatever a step does, who is ahead of an order in its    *)
(* level was ahead of it before.  So the orders that stay keep their order *)
(* and newcomers queue behind them.                                        *)
PriorityStable ==
  [][\A s \in Sides, p \in Prices :
       KeepsPriority(book.levels[s][p], book'.levels[s][p])]_vars

(* match() ends: each iteration fills shares of the incoming order, and    *)
(* never more than it has.                                                 *)
MatchGetsOn ==
  [][(Matching /\ match' # NoRequest) =>
       match'.filled > match.filled /\ match'.filled <= match.quantity]_<<book, match, out>>
(* Open shares of an order the book or match() holds. *)
OpenShares(id) == IF match # NoRequest /\ match.id = id THEN match.quantity - match.filled
                  ELSE IF book.orders[id] = NoOrder THEN 0
                  ELSE book.orders[id].open

-----------------------------------------------------------------------------
(* What a step adds to the book, for the proofs.                           *)

(* The order was in the book before the step, with the same owner. *)
Kept(id) == /\ book.orders[id] # NoOrder
            /\ book'.orders[id].client = book.orders[id].client

(* Of the orders of the book, only new is one the step added, for c. *)
AddsOnly(new, c) ==
  \A id \in OrderIds : book'.orders[id] # NoOrder =>
    Kept(id) \/ (id = new /\ book'.orders[id].client = c)
AddsNone == \A id \in OrderIds : book'.orders[id] # NoOrder => Kept(id)
=============================================================================
