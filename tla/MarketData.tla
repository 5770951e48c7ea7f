------------------------------ MODULE MarketData ------------------------------
(***************************************************************************)
(* The book and one subscriber of its ITCH feed.  The repository has no    *)
(* reader of the market data ring yet (market_feed is a stub), so the      *)
(* subscriber is external: it takes messages off the ring in order and     *)
(* does with them what ITCH says.                                          *)
(***************************************************************************)
EXTENDS Orderbook, SequencesExt

VARIABLE feed  \* the subscriber's book: per side and price, orders in queue order

mdvars == <<vars, feed>>

EmptyFeed == [s \in Sides |-> [p \in Prices |-> <<>>]]

(* Where the subscriber has an order: its side, price and place. *)
Places(f, id) ==
  {<<s, p, i>> \in Sides \X Prices \X (1..Cardinality(OrderIds)) :
     i <= Len(f[s][p]) /\ f[s][p][i].id = id}

Taken(f, at) == [f EXCEPT ![at[1]][at[2]] = RemoveAt(@, at[3])]
Added(f, s, p, id, shares) == [f EXCEPT ![s][p] = Append(@, [id |-> id, shares |-> shares])]

(* The effect of a message.  An order is gone when it has no shares left.  *)
Apply(f, msg) ==
  IF msg.type = "Add" THEN Added(f, msg.side, msg.price, msg.id, msg.shares)
  ELSE LET at == CHOOSE place \in Places(f, IF msg.type = "Replace" THEN msg.orig_id
                                            ELSE msg.id) : TRUE
           left == f[at[1]][at[2]][at[3]].shares - msg.shares
       IN  CASE msg.type = "Replace" ->
                  Added(Taken(f, at), at[1], msg.price, msg.id, msg.shares)
             [] msg.type = "Delete" -> Taken(f, at)
             [] msg.type \in {"Executed", "Cancel"} ->
                  IF left = 0 THEN Taken(f, at)
                  ELSE [f EXCEPT ![at[1]][at[2]][at[3]].shares = left]

(* The subscriber reads the feed from its start and cannot read past a     *)
(* message it lost: nothing in the code sends one again.                   *)
subscribe ==
  /\ market_data # <<>>
  /\ market_data_drops = 0
  /\ feed' = Apply(feed, Head(market_data))
  /\ market_data' = Tail(market_data)
  /\ UNCHANGED <<book, match, next_match_number, out, market_data_drops>>

MDInit == Init /\ feed = EmptyFeed
MDNext == \/ Next /\ UNCHANGED feed
          \/ subscribe
MDSpec == MDInit /\ [][MDNext]_mdvars
-----------------------------------------------------------------------------
(* The book as the feed can show it. *)
Displayed == [s \in Sides |-> [p \in Prices |->
  [i \in DOMAIN book.levels[s][p] |->
     [id |-> book.levels[s][p][i], shares |-> book.orders[book.levels[s][p][i]].open]]]]

(* Messages of the feed on their way: in the ring, or about to be put      *)
(* there by the matching thread.                                           *)
InFlight == market_data \o SelectSeq(out, LAMBDA msg : msg.type \notin EngineEventTypes)

(* The feed is complete and in order: as long as no message was dropped, a *)
(* subscriber that applies what is on its way has the book, with the time  *)
(* priority of every level and the shares of every order, whichever way a  *)
(* request took through match(), and it never meets an order it does not   *)
(* know.                                                                   *)
FeedShowsBook ==
  market_data_drops = 0 => FoldLeft(Apply, feed, InFlight) = Displayed
=============================================================================
