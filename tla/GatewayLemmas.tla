----------------------------- MODULE GatewayLemmas -----------------------------
(***************************************************************************)
(* What the two ends of the gateway do.  The requests OrderEntry makes of  *)
(* a message are those the book of Orderbook assumes.  OuchResponder keeps *)
(* what it holds of an order and what it told its client the same.         *)
(***************************************************************************)
EXTENDS GatewayEnds, TLAPS

(* The prover, where no other is named. *)
USE ZenonT(30)

-----------------------------------------------------------------------------
(* What the checks let through.                                            *)

(* A price that is not refused is a market order's or on the ladder. *)
LEMMA EnginePrice ==
  ASSUME NEW p \in Nat, Entry!to_engine_price(p) # None
  PROVE  \/ Entry!to_engine_price(p) = [type |-> "MARKET", price |-> 0]
         \/ /\ Entry!to_engine_price(p).type = "LIMIT"
            /\ Entry!to_engine_price(p).price \in Prices
<1>1. p \div TicksPerCent \in Int
  BY NumbersAssumption, SMTT(30)
<1> QED BY <1>1, PriceAssumption, SMTT(30) DEF Entry!to_engine_price, Prices

(* Of the tests that failed there is a first one. *)
LEMMA FirstFailed ==
  ASSUME NEW F \in SUBSET (1..9), F # {}
  PROVE  \E i \in F : \A j \in F : i <= j
<1> DEFINE Least == \E i \in F : \A j \in F : i <= j
           P(k) == (\E i \in F : i <= k) => Least
<1>1. PICK k \in F : k \in 1..9
  OBVIOUS
<1>2. P(0)
  BY SMTT(30)
<1>3. ASSUME NEW n \in 0..8, P(n) PROVE P(n + 1)
  <2>1. CASE \E i \in F : i <= n
    BY <1>3, <2>1
  <2>2. CASE ~ \E i \in F : i <= n
    BY <2>2, SMTT(30)
  <2> QED BY <2>1, <2>2
<1> HIDE DEF P
<1>4. P(1) /\ P(2) /\ P(3)
  BY <1>2, <1>3, SMTT(30)
<1>5. P(4) /\ P(5) /\ P(6)
  BY <1>3, <1>4, SMTT(30)
<1>6. P(7) /\ P(8) /\ P(9)
  BY <1>3, <1>5, SMTT(30)
<1>7. P(k)
  BY <1>4, <1>5, <1>6, SMTT(30)
<1> QED BY <1>1, <1>7, SMTT(30) DEF P

(* An Enter Order that is not rejected passed every test. *)
LEMMA CheckEnter ==
  ASSUME NEW m, m.quantity \in Nat, m.price \in Nat,
         Entry!check_enter(m).reject_reason = None
  PROVE  /\ m.quantity \in Quantities /\ m.side \in {"B", "S"}
         /\ Entry!check_enter(m).side \in Sides
         /\ Entry!check_enter(m).tif \in {"DAY", "IOC"}
         /\ \/ Entry!check_enter(m).order_type = "MARKET" /\ Entry!check_enter(m).price = 0
            \/ Entry!check_enter(m).order_type = "LIMIT" /\ Entry!check_enter(m).price \in Prices
<1> DEFINE tests == Entry!EnterTests(m)
           failed == {i \in DOMAIN tests : tests[i] # None}
<1>1. /\ DOMAIN tests = 1..9
      /\ tests[1] = Entry!Unless(Entry!to_engine_side(m.side) # None, "InvalidSide")
      /\ tests[2] = Entry!Unless(Entry!valid_quantity(m.quantity), "InvalidQuantity")
      /\ tests[3] = Entry!Unless(Entry!to_engine_price(m.price) # None, "InvalidPrice")
      /\ tests[4] = Entry!Unless(Entry!to_engine_tif(m.tif) # None, "Other")
  BY SMTT(30) DEF Entry!EnterTests
<1> HIDE DEF tests
<1>3. failed = {}
  <2> SUFFICES ASSUME failed # {} PROVE FALSE
    OBVIOUS
  <2>1. failed \in SUBSET (1..9)
    BY <1>1, SMTT(30)
  <2> HIDE DEF failed
  <2>2. \E i \in failed : \A j \in failed : i <= j
    BY <2>1, FirstFailed
  <2>3. Entry!Min(failed) \in failed
    BY <2>2 DEF Entry!Min
  <2>4. Entry!check_enter(m).reject_reason = tests[Entry!Min(failed)]
    BY DEF Entry!check_enter, failed, tests
  <2> QED BY <2>3, <2>4 DEF failed
<1>4. Entry!check_enter(m) =
        [reject_reason |-> None, side |-> Entry!to_engine_side(m.side),
         order_type |-> Entry!to_engine_price(m.price).type,
         price |-> Entry!to_engine_price(m.price).price, tif |-> Entry!to_engine_tif(m.tif)]
  BY <1>3 DEF Entry!check_enter, tests
<1>5. /\ Entry!to_engine_side(m.side) # None /\ Entry!valid_quantity(m.quantity)
      /\ Entry!to_engine_price(m.price) # None /\ Entry!to_engine_tif(m.tif) # None
  <2>1. tests[1] = None /\ tests[2] = None /\ tests[3] = None /\ tests[4] = None
    BY <1>1, <1>3, SMTT(30)
  <2>2. /\ None # "InvalidSide" /\ None # "InvalidQuantity"
        /\ None # "InvalidPrice" /\ None # "Other"
    BY NoneAssumption
  <2> QED BY <2>1, <2>2, <1>1 DEF Entry!Unless
<1>6. /\ m.side \in {"B", "S"} /\ Entry!to_engine_side(m.side) \in Sides
      /\ Entry!to_engine_tif(m.tif) \in {"DAY", "IOC"}
  BY <1>5 DEF Entry!to_engine_side, Entry!to_engine_tif, Sides
<1>7. m.quantity \in Quantities
  BY <1>5, QuantityAssumption, SMTT(30) DEF Entry!valid_quantity, Quantities
<1> QED BY <1>4, <1>5, <1>6, <1>7, EnginePrice, SMTT(30)

(* So did a Replace Order that does not become a cancel. *)
LEMMA CheckReplace ==
  ASSUME NEW m, NEW side, m.quantity \in Nat, m.price \in Nat,
         Entry!check_replace(m, side).valid
  PROVE  /\ m.quantity \in Quantities
         /\ Entry!check_replace(m, side).price \in Prices
         /\ Entry!check_replace(m, side).tif \in {"DAY", "IOC"}
<1>1. /\ Entry!valid_quantity(m.quantity)
      /\ Entry!to_engine_price(m.price) # None
      /\ Entry!to_engine_price(m.price).type = "LIMIT"
      /\ Entry!to_engine_tif(m.tif) # None
      /\ Entry!check_replace(m, side) =
           [valid |-> TRUE, price |-> Entry!to_engine_price(m.price).price,
            tif |-> Entry!to_engine_tif(m.tif)]
  BY DEF Entry!check_replace
<1>2. Entry!to_engine_price(m.price).price \in Prices
  BY <1>1, EnginePrice, SMTT(30)
<1>3. Entry!to_engine_tif(m.tif) \in {"DAY", "IOC"}
  BY <1>1 DEF Entry!to_engine_tif
<1>4. m.quantity \in Quantities
  BY <1>1, QuantityAssumption, SMTT(30) DEF Entry!valid_quantity, Quantities
<1> QED BY <1>1, <1>2, <1>3, <1>4, SMTT(30)
-----------------------------------------------------------------------------
(* The state of OrderEntry.                                                *)

(* An order the gateway knows has a UserRefNum its client can not enter    *)
(* another one with.                                                       *)
EntryOK(e) ==
  /\ e \in [last_user_ref_num : [Clients -> Nat],
            orders : [Clients -> [UserRefNums -> KnownOrder \cup {None}]],
            next_order_id : Nat \ {0}]
  /\ \A c \in Clients, r \in UserRefNums :
       e.orders[c][r] # None => r <= e.last_user_ref_num[c]

(* The client has a UserRefNum for the order. *)
Names(e, c, id) == \E r \in UserRefNums : e.orders[c][r] # None /\ e.orders[c][r].id = id

(* What a message may do to the state: ids and names are only added. *)
Grows(e, f) ==
  /\ EntryOK(f)
  /\ f.next_order_id >= e.next_order_id
  /\ \A c \in Clients, id \in OrderIds : Names(e, c, id) => Names(f, c, id)

(* The number of the client is used up, for the order or for none. *)
Consumes(e, f, c, ref, order) ==
  /\ ref > e.last_user_ref_num[c]
  /\ \A d \in Clients : f.last_user_ref_num[d] = IF d = c THEN ref ELSE e.last_user_ref_num[d]
  /\ \A d \in Clients, r \in UserRefNums :
       f.orders[d][r] = IF d = c /\ r = ref THEN order ELSE e.orders[d][r]
  /\ f.next_order_id = IF order = None THEN e.next_order_id ELSE e.next_order_id + 1

(* What an order of the gateway is. *)
LEMMA EntryOrders ==
  ASSUME NEW e, EntryOK(e), NEW c \in Clients, NEW r \in UserRefNums, e.orders[c][r] # None
  PROVE  e.orders[c][r] \in KnownOrder
<1>1. e.orders \in [Clients -> [UserRefNums -> KnownOrder \cup {None}]]
  BY DEF EntryOK
<1> QED BY <1>1

(* The gateway starts in order. *)
LEMMA EmptyEntry == EntryOK(Entry!Empty)
<1>1. 1 \in Nat \ {0} /\ 0 \in Nat
  BY SMTT(30)
<1> QED BY <1>1 DEF Entry!Empty, EntryOK

(* A number of the client is used up, and nothing else. *)
LEMMA NumberConsumed ==
  ASSUME NEW e, EntryOK(e), NEW c \in Clients, NEW ref \in UserRefNums,
         ~ Entry!Used(e, c, ref)
  PROVE  /\ Grows(e, [e EXCEPT !.last_user_ref_num[c] = ref])
         /\ Consumes(e, [e EXCEPT !.last_user_ref_num[c] = ref], c, ref, None)
<1> DEFINE f == [e EXCEPT !.last_user_ref_num[c] = ref]
<1>1. /\ f.last_user_ref_num = [e.last_user_ref_num EXCEPT ![c] = ref]
      /\ f.orders = e.orders /\ f.next_order_id = e.next_order_id
  BY DEF EntryOK
<1>2. ref \in Nat /\ e.last_user_ref_num[c] \in Nat /\ e.last_user_ref_num[c] < ref
  BY NumbersAssumption, SMTT(30) DEF EntryOK, Entry!Used
<1>3. EntryOK(f)
  <2>1. \A d \in Clients, r \in UserRefNums :
          r <= e.last_user_ref_num[d] => r <= f.last_user_ref_num[d]
    BY <1>1, <1>2, NumbersAssumption, SMTT(30) DEF EntryOK
  <2>2. f \in [last_user_ref_num : [Clients -> Nat],
               orders : [Clients -> [UserRefNums -> KnownOrder \cup {None}]],
               next_order_id : Nat \ {0}]
    BY <1>2 DEF EntryOK
  <2> QED BY <2>1, <2>2, <1>1 DEF EntryOK
<1> HIDE DEF f
<1>4. \A d \in Clients, id \in OrderIds : Names(e, d, id) => Names(f, d, id)
  BY <1>1 DEF Names
<1>5. f.next_order_id >= e.next_order_id
  BY <1>1, SMTT(30) DEF EntryOK
<1>6. e.orders[c][ref] = None
  BY <1>2, SMTT(30) DEF EntryOK
<1>7. Consumes(e, f, c, ref, None)
  BY <1>1, <1>2, <1>6 DEF Consumes, EntryOK
<1> QED BY <1>3, <1>4, <1>5, <1>7 DEF Grows, f

(* The next id goes to the new order, under its number. *)
LEMMA OrderAssigned ==
  ASSUME NEW e, EntryOK(e), NEW c \in Clients, NEW ref \in UserRefNums,
         NEW side \in {"B", "S"},
         ~ Entry!Used(e, c, ref), e.next_order_id \in OrderIds
  PROVE  LET f == Entry!Assigned(e, c, ref, Entry!Record(c, ref, side))
         IN  /\ Grows(e, f)
             /\ f.next_order_id = e.next_order_id + 1
             /\ Names(f, c, e.next_order_id)
             /\ \E order \in KnownOrder :
                  order.id = e.next_order_id /\ Consumes(e, f, c, ref, order)
<1> DEFINE f == Entry!Assigned(e, c, ref, Entry!Record(c, ref, side))
           order == [id |-> e.next_order_id, record |-> Entry!Record(c, ref, side)]
<1>0. ref \in Nat /\ e.last_user_ref_num[c] \in Nat /\ e.last_user_ref_num[c] < ref
  BY NumbersAssumption, SMTT(30) DEF EntryOK, Entry!Used
<1>1. e.orders[c][ref] = None
  BY <1>0, SMTT(30) DEF EntryOK
<1>2. order \in KnownOrder /\ order # None /\ order.id = e.next_order_id
  <2>1. order \in KnownOrder /\ order.id = e.next_order_id
    BY DEF KnownOrder, OrderRecord, Entry!Record
  <2> QED BY <2>1, NoneAssumption
<1>3. f = [last_user_ref_num |-> [e.last_user_ref_num EXCEPT ![c] = ref],
           orders |-> [e.orders EXCEPT ![c] = [e.orders[c] EXCEPT ![ref] = order]],
           next_order_id |-> e.next_order_id + 1]
  <2>1. e.orders \in [Clients -> [UserRefNums -> KnownOrder \cup {None}]]
    BY DEF EntryOK
  <2>2. f.orders = [e.orders EXCEPT ![c] = [e.orders[c] EXCEPT ![ref] = order]]
    BY <2>1, <1>1 DEF Entry!Assigned
  <2> HIDE DEF order
  <2> QED BY <2>2 DEF Entry!Assigned
<1> HIDE DEF f, order
<1>4. \A d \in Clients, r \in UserRefNums :
        f.orders[d][r] = IF d = c /\ r = ref THEN order ELSE e.orders[d][r]
  BY <1>3 DEF EntryOK
<1>5. EntryOK(f)
  <2>1. \A d \in Clients, r \in UserRefNums :
          r <= e.last_user_ref_num[d] => r <= f.last_user_ref_num[d]
    BY <1>0, <1>3, NumbersAssumption, SMTT(30) DEF EntryOK
  <2>2. f.last_user_ref_num \in [Clients -> Nat] /\ ref <= f.last_user_ref_num[c]
    BY <1>0, <1>3, SMTT(30) DEF EntryOK
  <2>3. f.orders \in [Clients -> [UserRefNums -> KnownOrder \cup {None}]]
    BY <1>2, <1>3 DEF EntryOK
  <2>4. e.next_order_id + 1 \in Nat \ {0}
    BY SMTT(30) DEF EntryOK
  <2>5. \A d \in Clients, r \in UserRefNums :
          f.orders[d][r] # None => r <= f.last_user_ref_num[d]
    BY <2>1, <2>2, <1>4 DEF EntryOK
  <2> QED BY <2>2, <2>3, <2>4, <2>5, <1>3 DEF EntryOK
<1>6. \A d \in Clients, id \in OrderIds : Names(e, d, id) => Names(f, d, id)
  <2> SUFFICES ASSUME NEW d \in Clients, NEW id \in OrderIds, Names(e, d, id)
               PROVE  Names(f, d, id)
    OBVIOUS
  <2>1. PICK r \in UserRefNums : e.orders[d][r] # None /\ e.orders[d][r].id = id
    BY DEF Names
  <2>2. f.orders[d][r] = e.orders[d][r]
    BY <2>1, <1>1, <1>4
  <2> QED BY <2>1, <2>2 DEF Names
<1>7. f.next_order_id = e.next_order_id + 1 /\ f.next_order_id >= e.next_order_id
  BY <1>3, SMTT(30) DEF EntryOK
<1>8. Names(f, c, e.next_order_id)
  BY <1>2, <1>4 DEF Names
<1>9. f.last_user_ref_num = [e.last_user_ref_num EXCEPT ![c] = ref]
  BY <1>3
<1>10. \A d \in Clients : f.last_user_ref_num[d] = IF d = c THEN ref ELSE e.last_user_ref_num[d]
  BY <1>9 DEF EntryOK
<1>11. Consumes(e, f, c, ref, order)
  BY <1>0, <1>2, <1>4, <1>7, <1>10 DEF Consumes
<1> QED BY <1>2, <1>5, <1>6, <1>7, <1>8, <1>11 DEF Grows, f
-----------------------------------------------------------------------------
(* The messages.                                                           *)

(* The request creates an order. *)
Creates(req) == req # None /\ req.type # "CANCEL"

(* A message of c leaves the state in order, and asks the engine for what  *)
(* Orderbook assumes; an order it creates has an id that was not handed    *)
(* out before, and c can name it.                                          *)
Translated(e, c, t) ==
  /\ Grows(e, t.entry)
  /\ t.request \in Request \cup {None}
  /\ Creates(t.request) =>
       /\ t.request.client = c
       /\ NewId(t.request) \in OrderIds
       /\ e.next_order_id <= NewId(t.request) /\ NewId(t.request) < t.entry.next_order_id
       /\ Names(t.entry, c, NewId(t.request))

(* What the note says of it: nothing, that the message is refused, or      *)
(* which order it creates.                                                 *)
Explained(e, c, t) ==
  \/ t.entry = e /\ t.note = None
  \/ \E ref \in UserRefNums :
       /\ t.note.kind = "REJECTED"
       /\ t.note.record.client = c /\ t.note.record.ref = ref
       /\ Consumes(e, t.entry, c, ref, None)
  \/ \E ref \in UserRefNums, order \in KnownOrder :
       /\ t.note \in KnownNote /\ t.note.id = order.id
       /\ t.note.record.client = c /\ t.note.record.ref = ref
       /\ Creates(t.request) /\ NewId(t.request) = order.id /\ order.id = e.next_order_id
       /\ Consumes(e, t.entry, c, ref, order)

(* A message that changes nothing adds no name and no id. *)
LEMMA Unchanging ==
  ASSUME NEW e, EntryOK(e) PROVE Grows(e, e)
  BY SMTT(30) DEF Grows, EntryOK

(* A message that is ignored leaves the gateway as it was. *)
LEMMA IgnoredOK ==
  ASSUME NEW e, EntryOK(e), NEW c \in Clients
  PROVE  Translated(e, c, Entry!Ignored(e)) /\ Explained(e, c, Entry!Ignored(e))
  BY Unchanging DEF Translated, Explained, Entry!Ignored, Entry!Translation, Creates

(* A cancel of an order the gateway knows. *)
LEMMA CancelOrderOK ==
  ASSUME NEW e, EntryOK(e), NEW c \in Clients, NEW r \in UserRefNums,
         e.orders[c][r] # None, NEW q \in CancelQuantities
  PROVE  LET t == Entry!Translation(e, None, Entry!CancelOrder(e.orders[c][r].id, c, q))
         IN  Translated(e, c, t) /\ Explained(e, c, t)
<1>1. e.orders[c][r].id \in OrderIds
  BY SMTT(30) DEF EntryOK, KnownOrder
<1>2. Entry!CancelOrder(e.orders[c][r].id, c, q) \in CancelRequest
  BY <1>1 DEF Entry!CancelOrder, CancelRequest
<1>3. Entry!CancelOrder(e.orders[c][r].id, c, q).type = "CANCEL"
  BY DEF Entry!CancelOrder
<1> QED BY <1>2, <1>3, Unchanging
        DEF Translated, Explained, Entry!Translation, Creates, Request

(* A Cancel Order asks for a cancel, or for nothing. *)
LEMMA CancelMessageOK ==
  ASSUME NEW e, EntryOK(e), NEW c \in Clients, NEW msg \in Messages,
         msg.type = "CANCEL_ORDER"
  PROVE  /\ Translated(e, c, Entry!cancel_(e, c, msg))
         /\ Explained(e, c, Entry!cancel_(e, c, msg))
<1>1. msg.ref \in UserRefNums /\ msg.quantity \in CancelQuantities
  BY MessagesAssumption
<1>2. CASE e.orders[c][msg.ref] = None
  BY <1>2, IgnoredOK DEF Entry!cancel_
<1>3. CASE e.orders[c][msg.ref] # None
  BY <1>1, <1>3, CancelOrderOK DEF Entry!cancel_
<1> QED BY <1>2, <1>3

(* An Enter Order asks for an order with the next id, or is refused. *)
LEMMA EnterMessageOK ==
  ASSUME NEW e, EntryOK(e), NEW c \in Clients, NEW msg \in Messages,
         msg.type = "ENTER_ORDER",
         Entry!enter_(e, c, msg).entry.next_order_id - 1 \in OrderIds \cup {0}
  PROVE  /\ Translated(e, c, Entry!enter_(e, c, msg))
         /\ Explained(e, c, Entry!enter_(e, c, msg))
<1> DEFINE check == Entry!check_enter(msg)
           f == Entry!Assigned(e, c, msg.ref, Entry!Record(c, msg.ref, msg.side))
           req == Entry!NewOrder(e.next_order_id, c, check, msg.quantity)
           note == [kind |-> "ORDER_ENTERED", id |-> e.next_order_id,
                    record |-> Entry!Record(c, msg.ref, msg.side)]
<1>1. msg.ref \in UserRefNums /\ msg.quantity \in Nat /\ msg.price \in Nat
  BY MessagesAssumption
<1>2. CASE Entry!Used(e, c, msg.ref)
  BY <1>2, IgnoredOK DEF Entry!enter_
<1>3. CASE ~ Entry!Used(e, c, msg.ref) /\ check.reject_reason # None
  <2>1. /\ Entry!enter_(e, c, msg).entry = [e EXCEPT !.last_user_ref_num[c] = msg.ref]
        /\ Entry!enter_(e, c, msg).request = None
        /\ Entry!enter_(e, c, msg).note =
             [kind |-> "REJECTED", id |-> 0, record |-> Entry!Record(c, msg.ref, msg.side)]
    BY <1>3 DEF Entry!enter_, Entry!Translation
  <2> DEFINE g == [e EXCEPT !.last_user_ref_num[c] = msg.ref]
  <2>2. Grows(e, g) /\ Consumes(e, g, c, msg.ref, None)
    BY <1>1, <1>3, NumberConsumed
  <2> HIDE DEF g
  <2>3. Translated(e, c, Entry!enter_(e, c, msg))
    BY <2>1, <2>2 DEF Translated, Creates, g
  <2>4. /\ Entry!enter_(e, c, msg).note.kind = "REJECTED"
        /\ Entry!enter_(e, c, msg).note.record.client = c
        /\ Entry!enter_(e, c, msg).note.record.ref = msg.ref
    BY <2>1, SMTT(30) DEF Entry!Record
  <2>5. Explained(e, c, Entry!enter_(e, c, msg))
    BY <2>1, <2>2, <2>4, <1>1 DEF Explained, g
  <2> QED BY <2>3, <2>5
<1>4. CASE ~ Entry!Used(e, c, msg.ref) /\ check.reject_reason = None
  <2>1. /\ Entry!enter_(e, c, msg).entry = f
        /\ Entry!enter_(e, c, msg).request = req
        /\ Entry!enter_(e, c, msg).note = note
    BY <1>4 DEF Entry!enter_, Entry!Translation
  <2>2. /\ msg.quantity \in Quantities /\ msg.side \in {"B", "S"}
        /\ check.side \in Sides /\ check.tif \in {"DAY", "IOC"}
        /\ \/ check.order_type = "MARKET" /\ check.price = 0
           \/ check.order_type = "LIMIT" /\ check.price \in Prices
    BY <1>1, <1>4, CheckEnter
  <2>3. f.next_order_id = e.next_order_id + 1 /\ e.next_order_id \in Nat \ {0}
    BY DEF Entry!Assigned, EntryOK
  <2>4. e.next_order_id \in OrderIds
    BY <2>1, <2>3, SMTT(30)
  <2>5. /\ Grows(e, f) /\ Names(f, c, e.next_order_id)
        /\ \E order \in KnownOrder :
             order.id = e.next_order_id /\ Consumes(e, f, c, msg.ref, order)
    BY <2>2, <2>4, <1>1, <1>4, OrderAssigned
  <2>6. /\ req.type = "NEW" /\ req.id = e.next_order_id /\ req.client = c
        /\ req \in NewRequest \cup MarketRequest
    <3> HIDE DEF check
    <3> QED BY <2>2, <2>4 DEF Entry!NewOrder, NewRequest, MarketRequest
  <2>9. /\ note \in KnownNote /\ note.id = e.next_order_id
        /\ note.record.client = c /\ note.record.ref = msg.ref
    BY <2>2, <2>4, <1>1 DEF KnownNote, OrderRecord, Entry!Record
  <2> HIDE DEF f, req, note
  <2>7. NewId(req) = e.next_order_id
    BY <2>6 DEF NewId
  <2>8. e.next_order_id <= NewId(req) /\ NewId(req) < f.next_order_id
    BY <2>3, <2>7, SMTT(30)
  <2>10. Translated(e, c, Entry!enter_(e, c, msg))
    BY <2>1, <2>4, <2>5, <2>6, <2>7, <2>8 DEF Translated, Request
  <2>11. Creates(req)
    BY <2>6, NoneAssumption DEF Creates, Request
  <2>12. Explained(e, c, Entry!enter_(e, c, msg))
    BY <2>1, <2>5, <2>7, <2>9, <2>11, <1>1 DEF Explained
  <2> QED BY <2>10, <2>12
<1> QED BY <1>2, <1>3, <1>4

(* A Replace Order asks for a replacement with the next id, or for a       *)
(* cancel, or is refused.                                                  *)
LEMMA ReplaceMessageOK ==
  ASSUME NEW e, EntryOK(e), NEW c \in Clients, NEW msg \in Messages,
         msg.type = "REPLACE_ORDER",
         Entry!replace_(e, c, msg).entry.next_order_id - 1 \in OrderIds \cup {0}
  PROVE  /\ Translated(e, c, Entry!replace_(e, c, msg))
         /\ Explained(e, c, Entry!replace_(e, c, msg))
<1> DEFINE orig == e.orders[c][msg.orig_ref]
           check == Entry!check_replace(msg, orig.record.side)
           f == Entry!Assigned(e, c, msg.ref, Entry!Record(c, msg.ref, orig.record.side))
           req == [type |-> "REPLACE", id |-> orig.id, new_id |-> e.next_order_id,
                   client |-> c, price |-> check.price, quantity |-> msg.quantity,
                   tif |-> check.tif]
           note == [kind |-> "ORDER_REPLACING", id |-> e.next_order_id,
                    record |-> Entry!Record(c, msg.ref, orig.record.side)]
<1>1. /\ msg.ref \in UserRefNums /\ msg.orig_ref \in UserRefNums
      /\ msg.quantity \in Nat /\ msg.price \in Nat
  BY MessagesAssumption
<1>2. CASE orig = None \/ Entry!Used(e, c, msg.ref)
  BY <1>2, IgnoredOK DEF Entry!replace_
<1>3. CASE ~ (orig = None \/ Entry!Used(e, c, msg.ref)) /\ ~ check.valid
  <2>1. Entry!replace_(e, c, msg) =
          Entry!Translation(e, None, Entry!CancelOrder(orig.id, c, 0))
    BY <1>3 DEF Entry!replace_
  <2> QED BY <2>1, <1>1, <1>3, CancelOrderOK, CancelAssumption
<1>4. CASE ~ (orig = None \/ Entry!Used(e, c, msg.ref)) /\ check.valid
  <2>1. /\ Entry!replace_(e, c, msg).entry = f
        /\ Entry!replace_(e, c, msg).request = req
        /\ Entry!replace_(e, c, msg).note = note
    <3>1. Entry!replace_(e, c, msg) = Entry!Translation(f, note, req)
      BY <1>4 DEF Entry!replace_
    <3> HIDE DEF f, note, req
    <3> QED BY <3>1, SMTT(30) DEF Entry!Translation
  <2>2. /\ msg.quantity \in Quantities /\ check.price \in Prices
        /\ check.tif \in {"DAY", "IOC"}
    BY <1>1, <1>4, CheckReplace
  <2>3. orig.id \in OrderIds /\ orig.record.side \in {"B", "S"}
    <3>1. orig \in KnownOrder
      BY <1>1, <1>4, EntryOrders
    <3> HIDE DEF orig
    <3> QED BY <3>1 DEF KnownOrder, OrderRecord
  <2>4. f.next_order_id = e.next_order_id + 1 /\ e.next_order_id \in Nat \ {0}
    BY DEF Entry!Assigned, EntryOK
  <2>5. e.next_order_id \in OrderIds
    <3> HIDE DEF f, req
    <3> QED BY <2>1, <2>4, SMTT(30)
  <2>6. /\ Grows(e, f) /\ Names(f, c, e.next_order_id)
        /\ \E order \in KnownOrder :
             order.id = e.next_order_id /\ Consumes(e, f, c, msg.ref, order)
    BY <2>3, <2>5, <1>1, <1>4, OrderAssigned
  <2>7. /\ req.type = "REPLACE" /\ req.new_id = e.next_order_id /\ req.client = c
        /\ req \in ReplaceRequest
    <3> HIDE DEF check, orig
    <3> QED BY <2>2, <2>3, <2>5 DEF ReplaceRequest
  <2>10. /\ note \in KnownNote /\ note.id = e.next_order_id
         /\ note.record.client = c /\ note.record.ref = msg.ref
    <3> HIDE DEF orig
    <3> QED BY <2>3, <2>5, <1>1 DEF KnownNote, OrderRecord, Entry!Record
  <2> HIDE DEF f, req, note
  <2>8. NewId(req) = e.next_order_id
    BY <2>7 DEF NewId
  <2>9. e.next_order_id <= NewId(req) /\ NewId(req) < f.next_order_id
    BY <2>4, <2>8, SMTT(30)
  <2>11. Translated(e, c, Entry!replace_(e, c, msg))
    BY <2>1, <2>5, <2>6, <2>7, <2>8, <2>9 DEF Translated, Request
  <2>12. Creates(req)
    BY <2>7, NoneAssumption DEF Creates, Request
  <2>13. Explained(e, c, Entry!replace_(e, c, msg))
    BY <2>1, <2>6, <2>8, <2>10, <2>12, <1>1 DEF Explained
  <2> QED BY <2>11, <2>13
<1> QED BY <1>2, <1>3, <1>4

(* Whatever the message. *)
LEMMA MessageOK ==
  ASSUME NEW e, EntryOK(e), NEW c \in Clients, NEW msg \in Messages,
         Entry!translate(e, c, msg).entry.next_order_id - 1 \in OrderIds \cup {0}
  PROVE  /\ Translated(e, c, Entry!translate(e, c, msg))
         /\ Explained(e, c, Entry!translate(e, c, msg))
<1>1. msg.type \in {"ENTER_ORDER", "CANCEL_ORDER", "REPLACE_ORDER"}
  BY MessagesAssumption
<1>2. CASE msg.type = "ENTER_ORDER"
  BY <1>2, EnterMessageOK DEF Entry!translate
<1>3. CASE msg.type = "CANCEL_ORDER"
  BY <1>3, CancelMessageOK DEF Entry!translate
<1>4. CASE msg.type = "REPLACE_ORDER"
  BY <1>4, ReplaceMessageOK DEF Entry!translate
<1> QED BY <1>1, <1>2, <1>3, <1>4
-----------------------------------------------------------------------------
(* What the responder holds and the clients were told.                     *)

(* OrderEntry has given the id to one order only. *)
Numbered(e) ==
  /\ \A c \in Clients, r \in UserRefNums :
       e.orders[c][r] # None => e.orders[c][r].id < e.next_order_id
  /\ \A c, d \in Clients, r, q \in UserRefNums :
       (e.orders[c][r] # None /\ e.orders[d][q] # None /\ e.orders[c][r].id = e.orders[d][q].id)
         => c = d /\ r = q

(* OrderEntry has the order under this number of the client. *)
Owns(e, c, r, id) == e.orders[c][r] # None /\ e.orders[c][r].id = id
Belongs(e, record, id) == Owns(e, record.client, record.ref, id)

(* What the responder holds, with what the clients were told. *)
State == [orders : [OrderIds -> LiveOrder \cup {None}],
          view : [Clients -> [UserRefNums -> Nat \cup {None}]]]

(* What a client was told of an order is what the responder has of it. *)
Agrees(told, live) ==
  \/ told = None /\ (live = None \/ live.open = 0)
  \/ told = 0 /\ live = None
  \/ told # None /\ told # 0 /\ live # None /\ live.open = told

(* Every order the responder holds is one of OrderEntry, and its client    *)
(* was told of the same shares.                                            *)
Proper(e, s) ==
  /\ s \in State
  /\ \A id \in OrderIds : s.orders[id] # None => Belongs(e, s.orders[id].record, id)
  /\ \A c \in Clients, r \in UserRefNums :
       e.orders[c][r] # None => Agrees(s.view[c][r], s.orders[e.orders[c][r].id])

(* The note makes an order known to the responder. *)
Announces(note) == note # None /\ note.kind # "REJECTED"

(* Nobody has heard of an order that has no id yet, or whose note is still *)
(* to be pushed.                                                           *)
Silent(e, note, s) ==
  /\ \A id \in OrderIds : id >= e.next_order_id => s.orders[id] = None
  /\ \A c \in Clients, r \in UserRefNums :
       r > e.last_user_ref_num[c] => s.view[c][r] = None
  /\ Announces(note) => /\ s.orders[note.id] = None
                        /\ s.view[note.record.client][note.record.ref] = None

(* A state that the answers may lead through. *)
Fits(e, note, s) == Proper(e, s) /\ Silent(e, note, s)

(* A note that is still to be pushed is that of an order of OrderEntry. *)
Pending(e, note) == Announces(note) => note \in KnownNote /\ Belongs(e, note.record, note.id)
-----------------------------------------------------------------------------
(* Messages of the engine.                                                 *)

(* The message can be answered: its order is known, and has the shares     *)
(* that go.                                                                *)
Answerable(s, ev) ==
  ev.type \in EngineEventTypes =>
    /\ \A id \in {ev.id, ev.orig_id} :
         s.orders[id] # None /\ s.orders[id].record.client = ev.client
    /\ ev.type \in {"ACCEPTED", "REPLACED"} => ev.quantity # 0
    /\ ev.type = "REPLACED" => ev.id # ev.orig_id
    /\ ev.type \in {"CANCELED", "EXECUTED"} =>
         ev.quantity # 0 /\ ev.quantity <= s.orders[ev.id].open

(* What is left of its order. *)
Left(s, ev) ==
  LET live == s.orders[ev.id]
  IN  CASE ev.type \in {"ACCEPTED", "REPLACED"} -> [live EXCEPT !.open = ev.quantity]
        [] ev.type \in {"CANCELED", "EXECUTED"} ->
             IF ev.quantity < live.open THEN [live EXCEPT !.open = @ - ev.quantity] ELSE None
        [] ev.type = "REJECTED" -> None

(* The shares the responder holds of an order. *)
Shares(live) == IF live = None THEN 0 ELSE live.open

(* The message ends another order. *)
Ends(ev, id) == ev.type = "REPLACED" /\ id = ev.orig_id

(* The fields of an event, a note, a state and an order of the responder. *)
LEMMA EventFields ==
  ASSUME NEW ev \in EngineEvent
  PROVE  /\ ev.type \in EngineEventTypes /\ ev.id \in OrderIds /\ ev.orig_id \in OrderIds
         /\ ev.client \in Clients /\ ev.quantity \in Nat
  BY QuantityAssumption, SMTT(30) DEF EngineEvent

LEMMA NoteFields ==
  ASSUME NEW note \in KnownNote
  PROVE  /\ note.id \in OrderIds /\ note.record \in OrderRecord
         /\ note.record.client \in Clients /\ note.record.ref \in UserRefNums
         /\ note.kind # "REJECTED" /\ note # None
  BY NoneAssumption DEF KnownNote, OrderRecord

LEMMA StateFields ==
  ASSUME NEW s \in State
  PROVE  /\ s = [orders |-> s.orders, view |-> s.view]
         /\ s.orders \in [OrderIds -> LiveOrder \cup {None}]
         /\ s.view \in [Clients -> [UserRefNums -> Nat \cup {None}]]
         /\ \A id \in OrderIds : s.orders[id] # None => s.orders[id] \in LiveOrder
  BY DEF State

LEMMA LiveFields ==
  ASSUME NEW live \in LiveOrder
  PROVE  /\ live.record \in OrderRecord /\ live.record.client \in Clients
         /\ live.record.ref \in UserRefNums /\ live.open \in Nat /\ live # None
         /\ live = [record |-> live.record, open |-> live.open]
  BY NoneAssumption DEF LiveOrder, OrderRecord

(* Shares that go. *)
LEMMA Less ==
  ASSUME NEW a \in Nat, NEW q \in Nat
  PROVE  /\ q < a => a - q \in Nat /\ a - q # 0
         /\ q <= a /\ ~ (q < a) => a - q = 0
         /\ q <= a => a - q \in Nat
         /\ q <= a /\ q # 0 => a # 0
  BY SMTT(30)

(* The shares of an order of the responder are set. *)
LEMMA OpenSet ==
  ASSUME NEW live \in LiveOrder, NEW n \in Nat
  PROVE  /\ [live EXCEPT !.open = n] \in LiveOrder
         /\ [live EXCEPT !.open = n].record = live.record
         /\ [live EXCEPT !.open = n] # None
         /\ Shares([live EXCEPT !.open = n]) = n /\ [live EXCEPT !.open = n].open = n
<1>1. /\ [live EXCEPT !.open = n] \in LiveOrder
      /\ [live EXCEPT !.open = n].record = live.record
      /\ [live EXCEPT !.open = n].open = n
  BY DEF LiveOrder
<1>2. [live EXCEPT !.open = n] # None
  BY <1>1, NoneAssumption
<1> QED BY <1>1, <1>2 DEF Shares

(* What is left of the order of a message is an order, or none. *)
LEMMA LeftIsLive ==
  ASSUME NEW s \in State, NEW ev \in EngineEvent, Answerable(s, ev)
  PROVE  /\ s.orders[ev.id] \in LiveOrder
         /\ Left(s, ev) \in LiveOrder \cup {None}
         /\ Left(s, ev) # None => /\ Left(s, ev).record = s.orders[ev.id].record
                                  /\ Left(s, ev).open # 0
         /\ ev.type \in {"ACCEPTED", "REPLACED"} => Shares(Left(s, ev)) = ev.quantity
         /\ ev.type \in {"CANCELED", "EXECUTED"} =>
              Shares(Left(s, ev)) = s.orders[ev.id].open - ev.quantity
         /\ ev.type = "REJECTED" => Shares(Left(s, ev)) = 0
<1>0. /\ ev.type \in EngineEventTypes /\ ev.id \in OrderIds /\ ev.quantity \in Nat
  BY EventFields
<1>1. s.orders[ev.id] \in LiveOrder
  BY <1>0, StateFields DEF Answerable
<1>2. PICK live \in LiveOrder : live = s.orders[ev.id]
  BY <1>1
<1>3. PICK q \in Nat : q = ev.quantity
  BY <1>0
<1>4. PICK a \in Nat : a = live.open
  BY LiveFields
<1>5. CASE ev.type \in {"ACCEPTED", "REPLACED"}
  <2>1. q # 0
    BY <1>0, <1>3, <1>5 DEF Answerable
  <2>2. Left(s, ev) = [live EXCEPT !.open = q]
    BY <1>2, <1>3, <1>5 DEF Left
  <2>3. Left(s, ev) \in LiveOrder /\ Left(s, ev).record = live.record
        /\ Left(s, ev).open = q /\ Shares(Left(s, ev)) = q
    BY <2>2, OpenSet, SMTT(30)
  <2> QED BY <2>1, <2>3, <1>2, <1>3, <1>5
<1>6. CASE ev.type \in {"CANCELED", "EXECUTED"}
  <2>1. q <= a
    BY <1>0, <1>2, <1>3, <1>4, <1>6 DEF Answerable
  <2>2. CASE q < a
    <3>1. a - q \in Nat /\ a - q # 0
      BY <2>2, Less
    <3>2. Left(s, ev) = [live EXCEPT !.open = a - q]
      BY <2>2, <1>2, <1>3, <1>4, <1>6 DEF Left
    <3>3. Left(s, ev) \in LiveOrder /\ Left(s, ev).record = live.record
          /\ Left(s, ev).open = a - q /\ Shares(Left(s, ev)) = a - q
      BY <3>1, <3>2, OpenSet, SMTT(30)
    <3> QED BY <3>1, <3>3, <1>2, <1>3, <1>4, <1>6
  <2>3. CASE ~ (q < a)
    <3>1. a - q = 0
      BY <2>1, <2>3, Less
    <3>2. Left(s, ev) = None
      BY <2>3, <1>2, <1>3, <1>4, <1>6 DEF Left
    <3>3. Shares(Left(s, ev)) = 0
      BY <3>2 DEF Shares
    <3> QED BY <3>1, <3>2, <3>3, <1>2, <1>3, <1>4, <1>6
  <2> QED BY <2>2, <2>3
<1>7. CASE ev.type = "REJECTED"
  <2>1. Left(s, ev) = None
    BY <1>7 DEF Left
  <2>2. Shares(Left(s, ev)) = 0
    BY <2>1 DEF Shares
  <2> QED BY <2>1, <2>2, <1>1, <1>7
<1> QED BY <1>0, <1>5, <1>6, <1>7 DEF EngineEventTypes

(* on_event() changes what it holds of the order, and of the one that is   *)
(* replaced.                                                               *)
LEMMA HeardOrders ==
  ASSUME NEW s \in State, NEW ev \in EngineEvent, Answerable(s, ev)
  PROVE  Heard(s, ev).orders =
           [id \in OrderIds |-> IF id = ev.id THEN Left(s, ev)
                                ELSE IF Ends(ev, id) THEN None ELSE s.orders[id]]
<1>0. /\ ev.type \in EngineEventTypes /\ ev.id \in OrderIds /\ ev.orig_id \in OrderIds
  BY EventFields
<1>1. s.orders \in [OrderIds -> LiveOrder \cup {None}]
  BY StateFields
<1>2. s.orders[ev.id] # None /\ s.orders[ev.orig_id] # None
      /\ (ev.type = "REPLACED" => ev.id # ev.orig_id)
  BY <1>0 DEF Answerable
<1>3. Heard(s, ev).orders = Responder!on_event(s.orders, ev).orders
  BY <1>0 DEF Heard
<1>4. CASE ev.type = "ACCEPTED"
  BY <1>0, <1>1, <1>2, <1>3, <1>4
     DEF Responder!on_event, Responder!Accepted, Responder!Answered, Left, Ends
<1>5. CASE ev.type = "REPLACED"
  BY <1>0, <1>1, <1>2, <1>3, <1>5
     DEF Responder!on_event, Responder!Replaced, Responder!Answered, Left, Ends
<1>6. CASE ev.type \in {"CANCELED", "EXECUTED"}
  BY <1>0, <1>1, <1>2, <1>3, <1>6
     DEF Responder!on_event, Responder!Reduced, Responder!reduce_, Responder!Answered, Left, Ends
<1>7. CASE ev.type = "REJECTED"
  BY <1>0, <1>1, <1>2, <1>3, <1>7
     DEF Responder!on_event, Responder!Rejected, Responder!Answered, Left, Ends
<1> QED BY <1>0, <1>4, <1>5, <1>6, <1>7 DEF EngineEventTypes

(* What is written down of what a client is told. *)
Views == [Clients -> [UserRefNums -> Nat \cup {None}]]

(* A client was told of one order, or of a replacement and the end of its  *)
(* original.                                                               *)
PutOne(v, c, r, n) == [v EXCEPT ![c] = [v[c] EXCEPT ![r] = n]]
PutTwo(v, c, o, r, n) == [v EXCEPT ![c] = [v[c] EXCEPT ![o] = 0, ![r] = n]]

(* What is written down is read back. *)
LEMMA ViewSet ==
  ASSUME NEW v \in Views, NEW c \in Clients, NEW r \in UserRefNums, NEW n \in Nat,
         NEW w, w = PutOne(v, c, r, n)
  PROVE  /\ w \in Views
         /\ \A d \in Clients, q \in UserRefNums :
              w[d][q] = IF d = c /\ q = r THEN n ELSE v[d][q]
<1>1. PICK m : m = [v[c] EXCEPT ![r] = n]
  OBVIOUS
<1>2. /\ m \in [UserRefNums -> Nat \cup {None}]
      /\ \A q \in UserRefNums : m[q] = IF q = r THEN n ELSE v[c][q]
  BY <1>1 DEF Views
<1>3. w = [v EXCEPT ![c] = m]
  BY <1>1 DEF PutOne
<1>4. w \in Views
  BY <1>2, <1>3 DEF Views
<1>5. \A d \in Clients : w[d] = IF d = c THEN m ELSE v[d]
  BY <1>3 DEF Views
<1> QED BY <1>2, <1>4, <1>5

LEMMA ViewSetTwo ==
  ASSUME NEW v \in Views, NEW c \in Clients, NEW r \in UserRefNums, NEW n \in Nat,
         NEW o \in UserRefNums, NEW w, w = PutTwo(v, c, o, r, n)
  PROVE  /\ w \in Views
         /\ \A d \in Clients, q \in UserRefNums :
              w[d][q] = IF d = c /\ q = r THEN n
                        ELSE IF d = c /\ q = o THEN 0 ELSE v[d][q]
<1>1. PICK m : m = [v[c] EXCEPT ![o] = 0, ![r] = n]
  OBVIOUS
<1>2. /\ m \in [UserRefNums -> Nat \cup {None}]
      /\ \A q \in UserRefNums : m[q] = IF q = r THEN n ELSE IF q = o THEN 0 ELSE v[c][q]
  BY <1>1 DEF Views
<1>3. w = [v EXCEPT ![c] = m]
  BY <1>1 DEF PutTwo
<1>4. w \in Views
  BY <1>2, <1>3 DEF Views
<1>5. \A d \in Clients : w[d] = IF d = c THEN m ELSE v[d]
  BY <1>3 DEF Views
<1> QED BY <1>2, <1>4, <1>5

(* A response that is sent is not None. *)
LEMMA SomeMessage ==
  ASSUME NEW c \in Clients, NEW type \in EngineEventTypes, NEW r \in UserRefNums,
         NEW o \in UserRefNums, NEW n \in Nat
  PROVE  [client |-> c, type |-> type, ref |-> r, orig_ref |-> o, quantity |-> n] # None
<1>1. [client |-> c, type |-> type, ref |-> r, orig_ref |-> o, quantity |-> n] \in Message
  BY DEF Message
<1> QED BY <1>1, NoneAssumption

(* The client was told the shares that go. *)
LEMMA ToldOpen ==
  ASSUME NEW told, NEW live \in LiveOrder, Agrees(told, live), live.open # 0
  PROVE  told = live.open
  BY LiveFields DEF Agrees

(* The client and the UserRefNum of the order of a message, and that of    *)
(* the original of a replaced one.                                         *)
Addressed(s, ev, c, r, o) ==
  /\ c = s.orders[ev.id].record.client /\ r = s.orders[ev.id].record.ref
  /\ o = s.orders[ev.orig_id].record.ref
  /\ Agrees(s.view[c][r], s.orders[ev.id])

(* What a message tells the client is what is left of the order, and that  *)
(* the one that is replaced is over.                                       *)
LEMMA HeardView ==
  ASSUME NEW s \in State, NEW ev \in EngineEvent, Answerable(s, ev),
         NEW c \in Clients, NEW r \in UserRefNums, NEW o \in UserRefNums,
         Addressed(s, ev, c, r, o)
  PROVE  /\ Heard(s, ev).view \in Views
         /\ \A d \in Clients, q \in UserRefNums :
              Heard(s, ev).view[d][q] =
                IF d = c /\ q = r THEN Shares(Left(s, ev))
                ELSE IF ev.type = "REPLACED" /\ d = c /\ q = o THEN 0
                ELSE s.view[d][q]
<1>0. /\ ev.type \in EngineEventTypes /\ ev.id \in OrderIds /\ ev.orig_id \in OrderIds
      /\ ev.quantity \in Nat
  BY EventFields
<1>1. s.orders[ev.id] # None /\ s.orders[ev.orig_id] # None
  BY <1>0 DEF Answerable
<1>2. PICK v \in Views : v = s.view
  BY StateFields DEF Views
<1>3. PICK w : w = Heard(s, ev).view
  OBVIOUS
<1>4. PICK n : n = Shares(Left(s, ev))
  OBVIOUS
<1>5. PICK q \in Nat : q = ev.quantity
  BY <1>0
<1>6. w = Told(v, Responder!on_event(s.orders, ev).response)
  BY <1>0, <1>2, <1>3 DEF Heard
<1> DEFINE Says(type, orig, k) ==
             [client |-> c, type |-> type, ref |-> r, orig_ref |-> orig, quantity |-> k]
<1>7. CASE ev.type = "REPLACED"
  <2>1. Responder!on_event(s.orders, ev).response = Says("REPLACED", o, q)
    BY <1>1, <1>5, <1>7
       DEF Responder!on_event, Responder!Replaced, Responder!Answered, Responder!Response, Addressed
  <2>2. Says("REPLACED", o, q) # None
    BY SomeMessage DEF EngineEventTypes
  <2>3. Told(v, Says("REPLACED", o, q)) = PutTwo(v, c, o, r, q)
    BY <2>2 DEF Told, PutTwo
  <2>4. n = q
    BY <1>4, <1>5, <1>7, LeftIsLive
  <2>5. w = PutTwo(v, c, o, r, n) /\ n \in Nat
    BY <1>6, <2>1, <2>3, <2>4
  <2>6. /\ w \in Views
        /\ \A d \in Clients, k \in UserRefNums :
             w[d][k] = IF d = c /\ k = r THEN n ELSE IF d = c /\ k = o THEN 0 ELSE v[d][k]
    BY <2>5, ViewSetTwo, SMTT(30)
  <2> QED BY <2>6, <1>2, <1>3, <1>4, <1>7
<1>8. CASE ev.type # "REPLACED"
  <2>1. w = PutOne(v, c, r, n) /\ n \in Nat
    <3>1. CASE ev.type = "ACCEPTED"
      <4>1. Responder!on_event(s.orders, ev).response = Says("ACCEPTED", r, q)
        BY <1>1, <1>5, <3>1
           DEF Responder!on_event, Responder!Accepted, Responder!Answered, Responder!Response, Addressed
      <4>2. Says("ACCEPTED", r, q) # None
        BY SomeMessage DEF EngineEventTypes
      <4>3. Told(v, Says("ACCEPTED", r, q)) = PutOne(v, c, r, q)
        BY <4>2 DEF Told, PutOne
      <4>4. n = q
        BY <1>4, <1>5, <3>1, LeftIsLive
      <4> QED BY <1>6, <4>1, <4>3, <4>4
    <3>2. CASE ev.type \in {"CANCELED", "EXECUTED"}
      <4>1. Responder!on_event(s.orders, ev).response = Says(ev.type, r, q)
        BY <1>1, <1>5, <3>2
           DEF Responder!on_event, Responder!Reduced, Responder!Answered, Responder!Response, Addressed
      <4>2. Says(ev.type, r, q) # None
        BY <1>0, SomeMessage
      <4>3. Told(v, Says(ev.type, r, q)) = PutOne(v, c, r, v[c][r] - q)
        BY <4>2, <3>2 DEF Told, PutOne
      <4>4. PICK live \in LiveOrder : live = s.orders[ev.id]
        BY LeftIsLive
      <4>5. PICK a \in Nat : a = live.open
        BY LiveFields
      <4>6. q # 0 /\ q <= a
        BY <1>0, <1>5, <3>2, <4>4, <4>5 DEF Answerable
      <4>7. a # 0
        BY <4>6, Less
      <4>8. v[c][r] = a
        BY <4>4, <4>5, <4>7, <1>2, ToldOpen DEF Addressed
      <4>9. n = a - q
        BY <1>4, <1>5, <3>2, <4>4, <4>5, LeftIsLive
      <4>10. a - q \in Nat
        BY <4>6, Less
      <4> QED BY <1>6, <4>1, <4>3, <4>8, <4>9, <4>10
    <3>3. CASE ev.type = "REJECTED"
      <4>1. Responder!on_event(s.orders, ev).response = Says("REJECTED", r, 0)
        BY <1>1, <3>3
           DEF Responder!on_event, Responder!Rejected, Responder!Answered, Responder!Response, Addressed
      <4>2. Says("REJECTED", r, 0) # None
        BY SomeMessage DEF EngineEventTypes
      <4>3. Told(v, Says("REJECTED", r, 0)) = PutOne(v, c, r, 0)
        BY <4>2 DEF Told, PutOne
      <4>4. n = 0
        BY <1>4, <3>3, LeftIsLive
      <4> QED BY <1>6, <4>1, <4>3, <4>4
    <3> QED BY <1>0, <1>8, <3>1, <3>2, <3>3 DEF EngineEventTypes
  <2>2. /\ w \in Views
        /\ \A d \in Clients, k \in UserRefNums :
             w[d][k] = IF d = c /\ k = r THEN n ELSE v[d][k]
    BY <2>1, ViewSet, SMTT(30)
  <2> QED BY <2>2, <1>2, <1>3, <1>4, <1>8
<1> QED BY <1>7, <1>8

(* What the entry of the gateway says of the client and the numbers. *)
LEMMA Address ==
  ASSUME NEW e, NEW s, Proper(e, s), NEW ev \in EngineEvent, Answerable(s, ev)
  PROVE  \E c \in Clients, r \in UserRefNums, o \in UserRefNums :
           Addressed(s, ev, c, r, o) /\ Owns(e, c, r, ev.id) /\ Owns(e, c, o, ev.orig_id)
<1>0. /\ ev.type \in EngineEventTypes /\ ev.id \in OrderIds /\ ev.orig_id \in OrderIds
  BY EventFields
<1>1. /\ s.orders[ev.id] # None /\ s.orders[ev.orig_id] # None
      /\ s.orders[ev.id].record.client = s.orders[ev.orig_id].record.client
  BY <1>0 DEF Answerable
<1>2. PICK x \in LiveOrder : x = s.orders[ev.id]
  BY <1>0, <1>1, StateFields DEF Proper
<1>3. PICK y \in LiveOrder : y = s.orders[ev.orig_id]
  BY <1>0, <1>1, StateFields DEF Proper
<1>4. PICK c \in Clients, r \in UserRefNums, o \in UserRefNums :
        c = x.record.client /\ r = x.record.ref /\ o = y.record.ref
  BY LiveFields
<1>5. Owns(e, c, r, ev.id) /\ Owns(e, c, o, ev.orig_id)
  BY <1>0, <1>1, <1>2, <1>3, <1>4 DEF Proper, Belongs
<1>6. Agrees(s.view[c][r], s.orders[ev.id])
  BY <1>5 DEF Proper, Owns
<1>7. Addressed(s, ev, c, r, o)
  BY <1>2, <1>3, <1>4, <1>6 DEF Addressed
<1> QED BY <1>5, <1>7

(* What a message of the engine changes. *)
Changes(s, ev, c, r, o, t) ==
  /\ t \in State
  /\ \A id \in OrderIds :
       t.orders[id] = IF id = ev.id THEN Left(s, ev)
                      ELSE IF Ends(ev, id) THEN None ELSE s.orders[id]
  /\ \A d \in Clients, q \in UserRefNums :
       t.view[d][q] = IF d = c /\ q = r THEN Shares(Left(s, ev))
                      ELSE IF ev.type = "REPLACED" /\ d = c /\ q = o THEN 0
                      ELSE s.view[d][q]

(* on_event() changes the order of the message, and what its client was    *)
(* told of it.                                                             *)
LEMMA HeardChanges ==
  ASSUME NEW s \in State, NEW ev \in EngineEvent, Answerable(s, ev),
         NEW c \in Clients, NEW r \in UserRefNums, NEW o \in UserRefNums,
         Addressed(s, ev, c, r, o)
  PROVE  Changes(s, ev, c, r, o, Heard(s, ev))
<1>1. PICK t : t = Heard(s, ev)
  OBVIOUS
<1>2. t = [orders |-> t.orders, view |-> t.view]
  BY <1>1, EventFields DEF Heard
<1>3. /\ t.view \in Views
      /\ \A d \in Clients, q \in UserRefNums :
           t.view[d][q] = IF d = c /\ q = r THEN Shares(Left(s, ev))
                          ELSE IF ev.type = "REPLACED" /\ d = c /\ q = o THEN 0
                          ELSE s.view[d][q]
  BY <1>1, HeardView, SMTT(30)
<1>4. t.orders = [id \in OrderIds |-> IF id = ev.id THEN Left(s, ev)
                                      ELSE IF Ends(ev, id) THEN None ELSE s.orders[id]]
  BY <1>1, HeardOrders
<1>5. Left(s, ev) \in LiveOrder \cup {None}
  BY LeftIsLive
<1>6. \A id \in OrderIds : s.orders[id] \in LiveOrder \cup {None}
  BY StateFields
<1>7. t.orders \in [OrderIds -> LiveOrder \cup {None}]
  BY <1>4, <1>5, <1>6
<1>8. t \in State
  BY <1>2, <1>3, <1>7 DEF State, Views
<1>9. \A id \in OrderIds :
        t.orders[id] = IF id = ev.id THEN Left(s, ev)
                       ELSE IF Ends(ev, id) THEN None ELSE s.orders[id]
  BY <1>4
<1> QED BY <1>1, <1>3, <1>8, <1>9 DEF Changes

(* The id of an order is that of one number only. *)
LEMMA OneOwner ==
  ASSUME NEW e, Numbered(e), NEW c \in Clients, NEW d \in Clients,
         NEW r \in UserRefNums, NEW q \in UserRefNums, NEW id,
         Owns(e, c, r, id), Owns(e, d, q, id)
  PROVE  c = d /\ r = q
  BY SMTT(30) DEF Numbered, Owns

(* The state after a message that can be answered fits, if it did before. *)
LEMMA HeardFits ==
  ASSUME NEW e, EntryOK(e), Numbered(e), NEW note, NEW s, Fits(e, note, s),
         Pending(e, note), NEW ev \in EngineEvent, Answerable(s, ev)
  PROVE  Fits(e, note, Heard(s, ev))
<1>0. ev.id \in OrderIds /\ ev.orig_id \in OrderIds /\ ev.type \in EngineEventTypes
  BY EventFields
<1>1. s \in State /\ Proper(e, s) /\ Silent(e, note, s)
  BY DEF Fits, Proper
<1>2. PICK c \in Clients, r \in UserRefNums, o \in UserRefNums :
        Addressed(s, ev, c, r, o) /\ Owns(e, c, r, ev.id) /\ Owns(e, c, o, ev.orig_id)
  BY <1>1, Address
<1>3. PICK t : t = Heard(s, ev)
  OBVIOUS
<1>4. Changes(s, ev, c, r, o, t)
  BY <1>1, <1>2, <1>3, HeardChanges
<1>5. s.orders[ev.id] # None /\ s.orders[ev.orig_id] # None
      /\ (ev.type = "REPLACED" => ev.id # ev.orig_id)
  BY <1>0 DEF Answerable
<1>6. PICK left : left = Left(s, ev)
  OBVIOUS
<1>7. /\ left \in LiveOrder \cup {None}
      /\ left # None => left.record = s.orders[ev.id].record /\ left.open # 0
  BY <1>1, <1>6, LeftIsLive
<1>8. ASSUME NEW id \in OrderIds, t.orders[id] # None
      PROVE  Belongs(e, t.orders[id].record, id)
  <2>1. CASE id = ev.id
    <3>1. t.orders[id].record = s.orders[id].record
      BY <2>1, <1>4, <1>6, <1>7, <1>8 DEF Changes
    <3> QED BY <2>1, <3>1, <1>1, <1>5 DEF Proper
  <2>2. CASE id # ev.id
    <3>1. t.orders[id] = s.orders[id]
      BY <2>2, <1>4, <1>8 DEF Changes
    <3> QED BY <3>1, <1>1, <1>8 DEF Proper
  <2> QED BY <2>1, <2>2
<1>9. ASSUME NEW d \in Clients, NEW q \in UserRefNums, e.orders[d][q] # None
      PROVE  Agrees(t.view[d][q], t.orders[e.orders[d][q].id])
  <2>1. PICK y \in OrderIds : y = e.orders[d][q].id
    BY <1>9, EntryOrders DEF KnownOrder
  <2>2. Owns(e, d, q, y)
    BY <2>1, <1>9 DEF Owns
  <2>3. CASE d = c /\ q = r
    <3>1. y = ev.id
      BY <2>2, <2>3, <1>2 DEF Owns
    <3>2. t.orders[y] = left /\ t.view[d][q] = Shares(left)
      BY <2>3, <3>1, <1>4, <1>6 DEF Changes
    <3>3. Agrees(Shares(left), left)
      BY <1>7, LiveFields, NoneAssumption DEF Agrees, Shares
    <3> QED BY <2>1, <3>2, <3>3
  <2>4. CASE ~ (d = c /\ q = r) /\ ev.type = "REPLACED" /\ d = c /\ q = o
    <3>1. y = ev.orig_id
      BY <2>2, <2>4, <1>2 DEF Owns
    <3>2. t.orders[y] = None /\ t.view[d][q] = 0
      BY <2>4, <3>1, <1>4, <1>5 DEF Changes, Ends
    <3> QED BY <2>1, <3>2 DEF Agrees
  <2>5. CASE ~ (d = c /\ q = r) /\ ~ (ev.type = "REPLACED" /\ d = c /\ q = o)
    <3>1. y # ev.id
      BY <2>2, <2>5, <1>2, OneOwner, SMTT(30)
    <3>2. ev.type = "REPLACED" => y # ev.orig_id
      BY <2>2, <2>5, <1>2, OneOwner, SMTT(30)
    <3>3. t.orders[y] = s.orders[y] /\ t.view[d][q] = s.view[d][q]
      BY <2>5, <3>1, <3>2, <1>4 DEF Changes, Ends
    <3>4. Agrees(s.view[d][q], s.orders[y])
      BY <2>1, <1>1, <1>9 DEF Proper
    <3> QED BY <2>1, <3>3, <3>4
  <2> QED BY <2>3, <2>4, <2>5
<1>10. Proper(e, t)
  BY <1>4, <1>8, <1>9 DEF Proper, Changes
<1>11. \A id \in OrderIds : s.orders[id] = None => t.orders[id] = None
  BY <1>4, <1>5 DEF Changes
<1>12. ASSUME NEW d \in Clients, NEW q \in UserRefNums, s.view[d][q] = None,
              ~ Owns(e, d, q, ev.id), ~ Owns(e, d, q, ev.orig_id)
       PROVE  t.view[d][q] = None
  <2>1. ~ (d = c /\ q = r) /\ ~ (d = c /\ q = o)
    BY <1>2, <1>12
  <2> QED BY <2>1, <1>4, <1>12 DEF Changes
<1>13. ASSUME NEW d \in Clients, NEW q \in UserRefNums, q > e.last_user_ref_num[d]
       PROVE  t.view[d][q] = None
  <2>1. q \in Nat /\ e.last_user_ref_num[d] \in Nat
    BY NumbersAssumption DEF EntryOK
  <2>2. e.orders[d][q] = None
    BY <2>1, <1>13, SMTT(30) DEF EntryOK
  <2>3. s.view[d][q] = None
    BY <1>1, <1>13 DEF Silent
  <2> QED BY <2>2, <2>3, <1>12 DEF Owns
<1>14. ASSUME Announces(note)
       PROVE  t.orders[note.id] = None /\ t.view[note.record.client][note.record.ref] = None
  <2>1. PICK x \in OrderIds, d \in Clients, q \in UserRefNums :
          x = note.id /\ d = note.record.client /\ q = note.record.ref
    BY <1>14, NoteFields DEF Pending
  <2>2. s.orders[x] = None /\ s.view[d][q] = None
    BY <2>1, <1>1, <1>14 DEF Silent
  <2>3. Owns(e, d, q, x)
    BY <2>1, <1>14 DEF Pending, Belongs
  <2>4. x # ev.id /\ x # ev.orig_id
    BY <2>2, <1>5
  <2>5. ~ Owns(e, d, q, ev.id) /\ ~ Owns(e, d, q, ev.orig_id)
    BY <2>3, <2>4 DEF Owns
  <2> QED BY <2>1, <2>2, <2>5, <1>11, <1>12
<1> QED BY <1>3, <1>10, <1>11, <1>13, <1>14, <1>1 DEF Fits, Silent
-----------------------------------------------------------------------------
(* Notes.                                                                  *)

(* A note is that of an order of OrderEntry, or refuses a message that     *)
(* made none.                                                              *)
NoteOK(e, note) ==
  \/ note \in KnownNote /\ Belongs(e, note.record, note.id)
  \/ /\ note.kind = "REJECTED"
     /\ note.record.client \in Clients /\ note.record.ref \in UserRefNums
     /\ e.orders[note.record.client][note.record.ref] = None
     /\ note.record.ref <= e.last_user_ref_num[note.record.client]

(* A note announces an order of which its client has heard nothing. *)
Notable(e, s, note) ==
  /\ NoteOK(e, note)
  /\ Announces(note) => s.view[note.record.client][note.record.ref] = None

(* What on_note() changes. *)
Notes(s, note, t) ==
  /\ t \in State
  /\ \A id \in OrderIds :
       t.orders[id] = IF Announces(note) /\ id = note.id
                        THEN [record |-> note.record, open |-> 0] ELSE s.orders[id]
  /\ \A d \in Clients, q \in UserRefNums :
       t.view[d][q] = IF ~ Announces(note) /\ d = note.record.client /\ q = note.record.ref
                        THEN 0 ELSE s.view[d][q]

(* A note of OrderEntry that announces an order is one of its orders. *)
LEMMA NotePending ==
  ASSUME NEW e, NEW note, note # None => NoteOK(e, note)
  PROVE  Pending(e, note)
  BY DEF NoteOK, Pending, Announces

(* on_note() makes the order known, or tells the client of a refusal. *)
LEMMA NotedChanges ==
  ASSUME NEW e, NEW s \in State, NEW note, note # None, NoteOK(e, note)
  PROVE  Notes(s, note, Noted(s, note))
<1>0. /\ s.orders \in [OrderIds -> LiveOrder \cup {None}] /\ s.view \in Views
  BY StateFields DEF Views
<1>1. PICK t : t = Noted(s, note)
  OBVIOUS
<1>2. t = [orders |-> t.orders, view |-> t.view]
  BY <1>1 DEF Noted
<1>3. CASE note \in KnownNote
  <2>1. note.id \in OrderIds /\ note.kind # "REJECTED" /\ Announces(note)
    BY <1>3, NoteFields DEF Announces
  <2>2. [record |-> note.record, open |-> 0] \in LiveOrder
    BY <1>3, NoteFields DEF LiveOrder
  <2>3. t.orders = [s.orders EXCEPT ![note.id] = [record |-> note.record, open |-> 0]]
    BY <1>1, <2>1 DEF Noted, Responder!on_note, Responder!Answered
  <2>4. t.view = s.view
    BY <1>1, <2>1 DEF Noted, Responder!on_note, Responder!Answered, Told
  <2>5. t.orders \in [OrderIds -> LiveOrder \cup {None}]
    BY <1>0, <2>1, <2>2, <2>3
  <2>6. t \in State
    BY <1>0, <1>2, <2>4, <2>5 DEF State, Views
  <2>7. \A id \in OrderIds :
          t.orders[id] = IF id = note.id THEN [record |-> note.record, open |-> 0] ELSE s.orders[id]
    BY <1>0, <2>1, <2>3
  <2> QED BY <1>1, <2>1, <2>4, <2>6, <2>7 DEF Notes
<1>4. CASE note \notin KnownNote
  <2>1. note.kind = "REJECTED" /\ ~ Announces(note)
    BY <1>4 DEF NoteOK, Announces
  <2>2. PICK c \in Clients, r \in UserRefNums : c = note.record.client /\ r = note.record.ref
    BY <1>4 DEF NoteOK
  <2>3. PICK v \in Views : v = s.view
    BY <1>0
  <2> DEFINE refusal == [client |-> c, type |-> "REJECTED", ref |-> r, orig_ref |-> r,
                         quantity |-> 0]
  <2>4. t.orders = s.orders /\ t.view = Told(v, refusal)
    BY <1>1, <2>1, <2>2, <2>3 DEF Noted, Responder!on_note, Responder!Answered, Responder!Response
  <2>5. refusal # None
    BY SomeMessage DEF EngineEventTypes
  <2>6. Told(v, refusal) = PutOne(v, c, r, 0)
    BY <2>5 DEF Told, PutOne
  <2> HIDE DEF refusal
  <2>7. PICK w : w = t.view
    OBVIOUS
  <2>8. w = PutOne(v, c, r, 0)
    BY <2>4, <2>6, <2>7
  <2>9. /\ w \in Views
        /\ \A d \in Clients, q \in UserRefNums :
             w[d][q] = IF d = c /\ q = r THEN 0 ELSE v[d][q]
    BY <2>8, ViewSet, SMTT(30)
  <2>10. t \in State
    BY <1>0, <1>2, <2>4, <2>7, <2>9 DEF State, Views
  <2> QED BY <1>1, <2>1, <2>2, <2>3, <2>4, <2>7, <2>9, <2>10, SMTT(30) DEF Notes
<1> QED BY <1>3, <1>4

(* The state after a pending note fits, if it did before. *)
LEMMA NotedFits ==
  ASSUME NEW e, EntryOK(e), Numbered(e), NEW note, note # None, NoteOK(e, note),
         NEW s, Fits(e, note, s)
  PROVE  Notable(e, s, note) /\ Fits(e, None, Noted(s, note))
<1>0. s \in State /\ Proper(e, s) /\ Silent(e, note, s)
  BY DEF Fits, Proper
<1>1. Notable(e, s, note)
  BY <1>0 DEF Notable, Silent
<1>2. PICK t : t = Noted(s, note)
  OBVIOUS
<1>3. Notes(s, note, t)
  BY <1>0, <1>2, NotedChanges
<1>4. CASE note \in KnownNote
  <2>1. PICK x \in OrderIds, c \in Clients, r \in UserRefNums :
          x = note.id /\ c = note.record.client /\ r = note.record.ref
    BY <1>4, NoteFields
  <2>2. Announces(note) /\ Belongs(e, note.record, x)
    BY <1>4, <2>1, NoteFields DEF NoteOK, Announces
  <2>3. Owns(e, c, r, x) /\ s.orders[x] = None /\ s.view[c][r] = None
    BY <2>1, <2>2, <1>0 DEF Belongs, Silent
  <2>4. PICK new \in LiveOrder : new.record = note.record /\ new.open = 0 /\ t.orders[x] = new
    <3>1. [record |-> note.record, open |-> 0] \in LiveOrder
      BY <1>4, NoteFields DEF LiveOrder
    <3> QED BY <3>1, <2>1, <2>2, <1>3 DEF Notes
  <2>5. \A id \in OrderIds : id # x => t.orders[id] = s.orders[id]
    BY <2>1, <1>3 DEF Notes
  <2>6. \A d \in Clients, q \in UserRefNums : t.view[d][q] = s.view[d][q]
    BY <2>2, <1>3 DEF Notes
  <2>7. ASSUME NEW id \in OrderIds, t.orders[id] # None
        PROVE  Belongs(e, t.orders[id].record, id)
    <3>1. CASE id = x
      BY <3>1, <2>2, <2>4
    <3>2. CASE id # x
      BY <3>2, <2>5, <2>7, <1>0 DEF Proper
    <3> QED BY <3>1, <3>2
  <2>8. ASSUME NEW d \in Clients, NEW q \in UserRefNums, e.orders[d][q] # None
        PROVE  Agrees(t.view[d][q], t.orders[e.orders[d][q].id])
    <3>1. PICK y \in OrderIds : y = e.orders[d][q].id
      BY <2>8, EntryOrders DEF KnownOrder
    <3>2. Owns(e, d, q, y)
      BY <3>1, <2>8 DEF Owns
    <3>3. CASE y = x
      <4>1. d = c /\ q = r
        BY <3>2, <3>3, <2>3, OneOwner
      <4>2. t.view[d][q] = None /\ t.orders[y].open = 0
        BY <4>1, <3>3, <2>3, <2>4, <2>6
      <4> QED BY <4>2, <3>1 DEF Agrees
    <3>4. CASE y # x
      <4>1. Agrees(s.view[d][q], s.orders[y])
        BY <3>1, <2>8, <1>0 DEF Proper
      <4> QED BY <4>1, <3>1, <3>4, <2>5, <2>6
    <3> QED BY <3>3, <3>4
  <2>9. Proper(e, t)
    BY <2>7, <2>8, <1>3 DEF Proper, Notes
  <2>10. x < e.next_order_id
    BY <2>3 DEF Numbered, Owns
  <2>11. \A id \in OrderIds : id >= e.next_order_id => id # x
    BY <2>10, NumbersAssumption, SMTT(30) DEF EntryOK
  <2>12. Silent(e, None, t)
    BY <2>5, <2>6, <2>11, <1>0, SMTT(30) DEF Silent, Announces
  <2> QED BY <2>9, <2>12, <1>1, <1>2 DEF Fits
<1>5. CASE note \notin KnownNote
  <2>1. PICK c \in Clients, r \in UserRefNums :
          /\ c = note.record.client /\ r = note.record.ref
          /\ e.orders[c][r] = None /\ r <= e.last_user_ref_num[c]
    BY <1>5 DEF NoteOK
  <2>2. ~ Announces(note)
    BY <1>5 DEF NoteOK, Announces
  <2>3. /\ \A id \in OrderIds : t.orders[id] = s.orders[id]
        /\ \A d \in Clients, q \in UserRefNums : ~ (d = c /\ q = r) => t.view[d][q] = s.view[d][q]
    BY <2>1, <2>2, <1>3 DEF Notes
  <2>4. \A d \in Clients, q \in UserRefNums :
          e.orders[d][q] # None => t.view[d][q] = s.view[d][q] /\ e.orders[d][q].id \in OrderIds
    BY <2>1, <2>3, EntryOrders DEF KnownOrder
  <2>5. Proper(e, t)
    <3>1. \A id \in OrderIds : t.orders[id] # None => Belongs(e, t.orders[id].record, id)
      BY <2>3, <1>0 DEF Proper
    <3>2. \A d \in Clients, q \in UserRefNums :
            e.orders[d][q] # None => Agrees(t.view[d][q], t.orders[e.orders[d][q].id])
      BY <2>3, <2>4, <1>0, SMTT(30) DEF Proper
    <3> QED BY <3>1, <3>2, <1>3 DEF Proper, Notes
  <2>6. \A d \in Clients, q \in UserRefNums :
          q > e.last_user_ref_num[d] => ~ (d = c /\ q = r)
    BY <2>1, NumbersAssumption, SMTT(30) DEF EntryOK
  <2>7. Silent(e, None, t)
    BY <2>3, <2>6, <1>0, SMTT(30) DEF Silent, Announces
  <2> QED BY <2>5, <2>7, <1>1, <1>2 DEF Fits
<1> QED BY <1>4, <1>5

(* A state is what it holds of each order and what each client was told. *)
LEMMA SameState ==
  ASSUME NEW s \in State, NEW t \in State,
         \A id \in OrderIds : s.orders[id] = t.orders[id],
         \A d \in Clients, q \in UserRefNums : s.view[d][q] = t.view[d][q]
  PROVE  s = t
<1>1. s.orders = t.orders
  BY StateFields, SMTT(30)
<1>2. ASSUME NEW d \in Clients PROVE s.view[d] = t.view[d]
  BY StateFields, SMTT(30)
<1>3. s.view = t.view
  BY <1>2, StateFields, SMTT(30)
<1> QED BY <1>1, <1>3, StateFields

(* A note and a message of the engine that was sent before it can be       *)
(* answered in either order: they are about different orders.              *)
LEMMA NotedThenHeard ==
  ASSUME NEW e, EntryOK(e), Numbered(e), NEW note, note # None, NoteOK(e, note),
         NEW s, Fits(e, note, s), NEW ev \in EngineEvent, Answerable(s, ev)
  PROVE  /\ Answerable(Noted(s, note), ev)
         /\ Heard(Noted(s, note), ev) = Noted(Heard(s, ev), note)
<1>0. ev.id \in OrderIds /\ ev.orig_id \in OrderIds /\ ev.type \in EngineEventTypes
  BY EventFields
<1>1. s \in State /\ Proper(e, s) /\ Silent(e, note, s)
  BY DEF Fits, Proper
<1>2. PICK c \in Clients, r \in UserRefNums, o \in UserRefNums :
        Addressed(s, ev, c, r, o) /\ Owns(e, c, r, ev.id) /\ Owns(e, c, o, ev.orig_id)
  BY <1>1, Address
<1>3. PICK n : n = Noted(s, note)
  OBVIOUS
<1>4. PICK h : h = Heard(s, ev)
  OBVIOUS
<1>5. PICK a : a = Noted(h, note)
  OBVIOUS
<1>6. PICK b : b = Heard(n, ev)
  OBVIOUS
<1>7. Changes(s, ev, c, r, o, h)
  BY <1>1, <1>2, <1>4, HeardChanges
<1>8. h \in State
  BY <1>7 DEF Changes
<1>9. Notes(s, note, n)
  BY <1>1, <1>3, NotedChanges
<1>10. Notes(h, note, a)
  BY <1>5, <1>8, NotedChanges
<1>11. s.orders[ev.id] # None /\ s.orders[ev.orig_id] # None
  BY <1>0 DEF Answerable
<1>12. Announces(note) => note.id # ev.id /\ note.id # ev.orig_id
  BY <1>1, <1>11 DEF Silent
<1>13. n.orders[ev.id] = s.orders[ev.id] /\ n.orders[ev.orig_id] = s.orders[ev.orig_id]
  BY <1>0, <1>9, <1>12 DEF Notes
<1>14. ~ Announces(note) => e.orders[note.record.client][note.record.ref] = None
  BY DEF NoteOK, Announces, KnownNote
<1>15. /\ ~ Announces(note) => ~ (c = note.record.client /\ r = note.record.ref)
       /\ ~ Announces(note) => ~ (c = note.record.client /\ o = note.record.ref)
  BY <1>2, <1>14 DEF Owns
<1>16. n.view[c][r] = s.view[c][r]
  BY <1>9, <1>15 DEF Notes
<1>17. Answerable(n, ev)
  BY <1>0, <1>13 DEF Answerable
<1>18. Addressed(n, ev, c, r, o)
  BY <1>2, <1>13, <1>16 DEF Addressed
<1>19. n \in State
  BY <1>9 DEF Notes
<1>20. Changes(n, ev, c, r, o, b)
  BY <1>6, <1>17, <1>18, <1>19, HeardChanges
<1>21. PICK left : left = Left(s, ev) /\ left = Left(n, ev)
  BY <1>13 DEF Left
<1>22. ASSUME NEW id \in OrderIds PROVE a.orders[id] = b.orders[id]
  <2>1. CASE id = ev.id
    <3>1. a.orders[id] = h.orders[id] /\ h.orders[id] = left
      BY <2>1, <1>7, <1>10, <1>12, <1>21 DEF Changes, Notes
    <3>2. b.orders[id] = left
      BY <2>1, <1>20, <1>21 DEF Changes
    <3> QED BY <3>1, <3>2
  <2>2. CASE id # ev.id /\ Ends(ev, id)
    <3>1. a.orders[id] = h.orders[id] /\ h.orders[id] = None
      BY <2>2, <1>7, <1>10, <1>12 DEF Changes, Notes, Ends
    <3>2. b.orders[id] = None
      BY <2>2, <1>20 DEF Changes
    <3> QED BY <3>1, <3>2
  <2>3. CASE id # ev.id /\ ~ Ends(ev, id)
    <3>1. h.orders[id] = s.orders[id] /\ b.orders[id] = n.orders[id]
      BY <2>3, <1>7, <1>20 DEF Changes
    <3> QED BY <3>1, <1>9, <1>10 DEF Notes
  <2> QED BY <2>1, <2>2, <2>3
<1>23. ASSUME NEW d \in Clients, NEW q \in UserRefNums PROVE a.view[d][q] = b.view[d][q]
  <2>1. CASE d = c /\ q = r
    <3>1. a.view[d][q] = h.view[d][q] /\ h.view[d][q] = Shares(left)
      BY <2>1, <1>7, <1>10, <1>15, <1>21, SMTT(30) DEF Changes, Notes
    <3>2. b.view[d][q] = Shares(left)
      BY <2>1, <1>20, <1>21 DEF Changes
    <3> QED BY <3>1, <3>2
  <2>2. CASE ~ (d = c /\ q = r) /\ ev.type = "REPLACED" /\ d = c /\ q = o
    <3>1. a.view[d][q] = h.view[d][q] /\ h.view[d][q] = 0
      BY <2>2, <1>7, <1>10, <1>15, SMTT(30) DEF Changes, Notes
    <3>2. b.view[d][q] = 0
      BY <2>2, <1>20 DEF Changes
    <3> QED BY <3>1, <3>2
  <2>3. CASE ~ (d = c /\ q = r) /\ ~ (ev.type = "REPLACED" /\ d = c /\ q = o)
    <3>1. h.view[d][q] = s.view[d][q] /\ b.view[d][q] = n.view[d][q]
      BY <2>3, <1>7, <1>20 DEF Changes
    <3> QED BY <3>1, <1>9, <1>10, SMTT(30) DEF Notes
  <2> QED BY <2>1, <2>2, <2>3
<1>24. a \in State /\ b \in State
  BY <1>10, <1>20 DEF Changes, Notes
<1>25. a = b
  BY <1>22, <1>23, <1>24, SameState
<1> QED BY <1>3, <1>4, <1>5, <1>6, <1>17, <1>25
-----------------------------------------------------------------------------
(* Queues of notes and of messages: the states their answers lead through. *)

(* Each of n notes can be answered in its turn, and the states fit. *)
NotesPath(e, note, n, ns, f) ==
  /\ \A i \in 0..n : Fits(e, note, f[i])
  /\ \A i \in 1..n : ns[i] # None /\ Notable(e, f[i - 1], ns[i]) /\ f[i] = Noted(f[i - 1], ns[i])

(* The same of n messages of the engine. *)
MessagesPath(e, note, n, ms, g) ==
  /\ \A i \in 1..n : ms[i] \in EngineEvent \cup ITCH
  /\ \A i \in 0..n : Fits(e, note, g[i])
  /\ \A i \in 1..n : Answerable(g[i - 1], ms[i]) /\ g[i] = Heard(g[i - 1], ms[i])

(* What the feed is sent is not for the responder. *)
LEMMA FeedMessage ==
  ASSUME NEW ev \in EngineEvent \cup ITCH
  PROVE  /\ ev \notin EngineEvent => ev.type \notin EngineEventTypes
         /\ ev.type \notin EngineEventTypes => \A s : Answerable(s, ev) /\ Heard(s, ev) = s
  BY DEF ITCH, EngineEventTypes, EngineEvent, Answerable, Heard

(* An answer leads from a fitting state to another. *)
LEMMA MessageFits ==
  ASSUME NEW e, EntryOK(e), Numbered(e), NEW note, Pending(e, note),
         NEW s, Fits(e, note, s), NEW ev \in EngineEvent \cup ITCH, Answerable(s, ev)
  PROVE  Fits(e, note, Heard(s, ev))
<1>1. CASE ev \in EngineEvent
  BY <1>1, HeardFits
<1>2. CASE ev \notin EngineEvent
  BY <1>2, FeedMessage
<1> QED BY <1>1, <1>2

(* A message that can be answered before a note can be answered after it,  *)
(* with the same result.                                                   *)
LEMMA NotedThenMessage ==
  ASSUME NEW e, EntryOK(e), Numbered(e), NEW note, note # None, NoteOK(e, note),
         NEW s, Fits(e, note, s), NEW ev \in EngineEvent \cup ITCH, Answerable(s, ev)
  PROVE  /\ Answerable(Noted(s, note), ev)
         /\ Heard(Noted(s, note), ev) = Noted(Heard(s, ev), note)
<1>1. CASE ev \in EngineEvent
  BY <1>1, NotedThenHeard
<1>2. CASE ev \notin EngineEvent
  BY <1>2, FeedMessage
<1> QED BY <1>1, <1>2

(* A message more. *)
LEMMA MessageAdded ==
  ASSUME NEW e, EntryOK(e), Numbered(e), NEW note, Pending(e, note),
         NEW n \in Nat, NEW ms, NEW g, MessagesPath(e, note, n, ms, g),
         NEW ks, \A i \in 1..n : ks[i] = ms[i],
         ks[n + 1] \in EngineEvent \cup ITCH, Answerable(g[n], ks[n + 1])
  PROVE  \E h : /\ MessagesPath(e, note, n + 1, ks, h)
                /\ h[0] = g[0] /\ h[n + 1] = Heard(g[n], ks[n + 1])
<1>1. PICK t : t = Heard(g[n], ks[n + 1])
  OBVIOUS
<1>2. Fits(e, note, g[n])
  BY SMTT(30) DEF MessagesPath
<1>3. Fits(e, note, t)
  BY <1>1, <1>2, MessageFits
<1>4. PICK h : h = [i \in 0..(n + 1) |-> IF i = n + 1 THEN t ELSE g[i]]
  OBVIOUS
<1>5. (\A i \in 0..n : h[i] = g[i]) /\ h[n + 1] = t
  BY <1>4, SMTT(30)
<1>6. \A i \in 0..(n + 1) : Fits(e, note, h[i])
  <2>1. \A i \in 0..(n + 1) : i \in 0..n \/ i = n + 1
    BY SMTT(30)
  <2> QED BY <2>1, <1>3, <1>5 DEF MessagesPath
<1>7. ASSUME NEW i \in 1..(n + 1)
      PROVE  /\ ks[i] \in EngineEvent \cup ITCH
             /\ Answerable(h[i - 1], ks[i]) /\ h[i] = Heard(h[i - 1], ks[i])
  <2>1. CASE i = n + 1
    BY <2>1, <1>1, <1>5, SMTT(30)
  <2>2. CASE i # n + 1
    <3>1. i \in 1..n /\ i - 1 \in 0..n /\ i \in 0..n
      BY <2>2, SMTT(30)
    <3> QED BY <3>1, <1>5 DEF MessagesPath
  <2> QED BY <2>1, <2>2
<1>8. MessagesPath(e, note, n + 1, ks, h)
  BY <1>6, <1>7 DEF MessagesPath
<1>9. h[0] = g[0]
  BY <1>5, SMTT(30)
<1> QED BY <1>1, <1>5, <1>8, <1>9

(* The first message is answered. *)
LEMMA MessageTaken ==
  ASSUME NEW e, NEW note, NEW n \in Nat \ {0}, NEW ms, NEW g, MessagesPath(e, note, n, ms, g),
         NEW ks, \A i \in 1..(n - 1) : ks[i] = ms[i + 1]
  PROVE  /\ ms[1] \in EngineEvent \cup ITCH /\ Answerable(g[0], ms[1])
         /\ \E h : /\ MessagesPath(e, note, n - 1, ks, h)
                   /\ h[0] = Heard(g[0], ms[1]) /\ h[n - 1] = g[n]
<1>1. ms[1] \in EngineEvent \cup ITCH /\ Answerable(g[0], ms[1]) /\ g[1] = Heard(g[0], ms[1])
  BY SMTT(30) DEF MessagesPath
<1>2. PICK h : h = [i \in 0..(n - 1) |-> g[i + 1]]
  OBVIOUS
<1>3. \A i \in 0..(n - 1) : h[i] = g[i + 1] /\ i + 1 \in 0..n
  BY <1>2, SMTT(30)
<1>4. \A i \in 1..(n - 1) : h[i - 1] = g[i] /\ h[i] = g[i + 1] /\ i + 1 \in 1..n
  BY <1>2, SMTT(30)
<1>5. ASSUME NEW i \in 1..(n - 1)
      PROVE  /\ ks[i] \in EngineEvent \cup ITCH
             /\ Answerable(h[i - 1], ks[i]) /\ h[i] = Heard(h[i - 1], ks[i])
  <2>1. /\ ms[i + 1] \in EngineEvent \cup ITCH
        /\ Answerable(g[(i + 1) - 1], ms[i + 1]) /\ g[i + 1] = Heard(g[(i + 1) - 1], ms[i + 1])
    BY <1>4 DEF MessagesPath
  <2>2. (i + 1) - 1 = i
    BY SMTT(30)
  <2> QED BY <2>1, <2>2, <1>4
<1>6. MessagesPath(e, note, n - 1, ks, h)
  BY <1>3, <1>5 DEF MessagesPath
<1>7. h[0] = g[1] /\ h[n - 1] = g[n]
  BY <1>2, SMTT(30)
<1> QED BY <1>1, <1>6, <1>7

(* A message to the feed leaves the queue, from whatever place. *)
LEMMA FeedMessageTaken ==
  ASSUME NEW e, NEW note, NEW n \in Nat, NEW ms, NEW g, MessagesPath(e, note, n, ms, g),
         NEW k \in 1..n, ms[k].type \notin EngineEventTypes,
         NEW ks, \A i \in 1..(n - 1) : ks[i] = IF i < k THEN ms[i] ELSE ms[i + 1]
  PROVE  \E h : /\ MessagesPath(e, note, n - 1, ks, h)
                /\ h[0] = g[0] /\ h[n - 1] = g[n]
<1>1. g[k] = g[k - 1]
  BY FeedMessage DEF MessagesPath
<1>2. PICK h : h = [i \in 0..(n - 1) |-> IF i < k THEN g[i] ELSE g[i + 1]]
  OBVIOUS
<1>3. ASSUME NEW i \in 0..(n - 1) PROVE Fits(e, note, h[i])
  <2>1. i \in 0..n /\ i + 1 \in 0..n /\ (h[i] = g[i] \/ h[i] = g[i + 1])
    BY <1>2, SMTT(30)
  <2> QED BY <2>1 DEF MessagesPath
<1>4. ASSUME NEW i \in 1..(n - 1)
      PROVE  /\ ks[i] \in EngineEvent \cup ITCH
             /\ Answerable(h[i - 1], ks[i]) /\ h[i] = Heard(h[i - 1], ks[i])
  <2>1. CASE i < k
    <3>1. ks[i] = ms[i] /\ h[i - 1] = g[i - 1] /\ h[i] = g[i] /\ i \in 1..n
      BY <2>1, <1>2, SMTT(30)
    <3> QED BY <3>1 DEF MessagesPath
  <2>2. CASE ~ (i < k)
    <3>0. i + 1 \in 1..n /\ (i + 1) - 1 = i /\ i \in 0..(n - 1)
      BY SMTT(30)
    <3>1. ks[i] = ms[i + 1] /\ h[i] = g[i + 1] /\ i + 1 \in 1..n /\ (i + 1) - 1 = i
      BY <2>2, <3>0, <1>2
    <3>2. h[i - 1] = g[i]
      <4>1. CASE i - 1 < k
        <5>1. i = k /\ h[i - 1] = g[i - 1]
          BY <2>2, <4>1, <1>2, SMTT(30)
        <5> QED BY <5>1, <1>1
      <4>2. CASE ~ (i - 1 < k)
        BY <4>2, <1>2, SMTT(30)
      <4> QED BY <4>1, <4>2
    <3>3. /\ ms[i + 1] \in EngineEvent \cup ITCH
          /\ Answerable(g[(i + 1) - 1], ms[i + 1]) /\ g[i + 1] = Heard(g[(i + 1) - 1], ms[i + 1])
      BY <3>1 DEF MessagesPath
    <3> QED BY <3>1, <3>2, <3>3
  <2> QED BY <2>1, <2>2
<1>5. MessagesPath(e, note, n - 1, ks, h)
  BY <1>3, <1>4 DEF MessagesPath
<1>6. h[0] = g[0]
  BY <1>2, SMTT(30)
<1>7. h[n - 1] = g[n]
  <2>1. CASE n - 1 < k
    <3>1. k = n /\ h[n - 1] = g[n - 1]
      BY <2>1, <1>2, SMTT(30)
    <3> QED BY <3>1, <1>1
  <2>2. CASE ~ (n - 1 < k)
    BY <2>2, <1>2, SMTT(30)
  <2> QED BY <2>1, <2>2
<1> QED BY <1>5, <1>6, <1>7

(* A pending note is answered before the messages that were sent before it. *)
LEMMA NoteAhead ==
  ASSUME NEW e, EntryOK(e), Numbered(e), NEW note, note # None, NoteOK(e, note),
         NEW n \in Nat, NEW ms, NEW g, MessagesPath(e, note, n, ms, g)
  PROVE  \E h : /\ MessagesPath(e, None, n, ms, h)
                /\ h[0] = Noted(g[0], note) /\ h[n] = Noted(g[n], note)
<1>1. PICK h : h = [i \in 0..n |-> Noted(g[i], note)]
  OBVIOUS
<1>2. \A i \in 0..n : h[i] = Noted(g[i], note)
  BY <1>1
<1>3. ASSUME NEW i \in 0..n PROVE Fits(e, None, h[i])
  <2>1. Fits(e, note, g[i])
    BY DEF MessagesPath
  <2> QED BY <2>1, <1>2, NotedFits
<1>4. ASSUME NEW i \in 1..n
      PROVE  Answerable(h[i - 1], ms[i]) /\ h[i] = Heard(h[i - 1], ms[i])
  <2>1. i \in 0..n /\ i - 1 \in 0..n
    BY SMTT(30)
  <2>2. /\ ms[i] \in EngineEvent \cup ITCH /\ Fits(e, note, g[i - 1])
        /\ Answerable(g[i - 1], ms[i]) /\ g[i] = Heard(g[i - 1], ms[i])
    BY <2>1 DEF MessagesPath
  <2>3. /\ Answerable(Noted(g[i - 1], note), ms[i])
        /\ Heard(Noted(g[i - 1], note), ms[i]) = Noted(g[i], note)
    BY <2>2, NotedThenMessage, SMTT(30)
  <2> QED BY <2>1, <2>3, <1>2
<1>5. MessagesPath(e, None, n, ms, h)
  BY <1>3, <1>4 DEF MessagesPath
<1>6. 0 \in 0..n /\ n \in 0..n
  BY SMTT(30)
<1> QED BY <1>2, <1>5, <1>6
-----------------------------------------------------------------------------
(* A message of a client is translated while notes and messages are on     *)
(* their way.                                                              *)

(* A slot of OrderEntry that was filled stays as it is. *)
LEMMA SlotKept ==
  ASSUME NEW e, EntryOK(e), NEW f, NEW c \in Clients, NEW ref \in UserRefNums, NEW order,
         Consumes(e, f, c, ref, order), NEW d \in Clients, NEW q \in UserRefNums,
         q <= e.last_user_ref_num[d]
  PROVE  f.orders[d][q] = e.orders[d][q]
<1>2. e.last_user_ref_num[c] \in Nat /\ ref \in Nat /\ ref > e.last_user_ref_num[c]
  BY NumbersAssumption DEF EntryOK, Consumes
<1>3. ~ (d = c /\ q = ref)
  BY <1>2, SMTT(30)
<1> QED BY <1>3 DEF Consumes

(* The new order has an id of its own. *)
LEMMA NumberedAfter ==
  ASSUME NEW e, EntryOK(e), Numbered(e), NEW f, NEW c \in Clients, NEW ref \in UserRefNums,
         NEW order, Consumes(e, f, c, ref, order), order # None => order.id = e.next_order_id
  PROVE  Numbered(f)
<1>0. e.next_order_id \in Nat /\ e.next_order_id <= f.next_order_id /\ f.next_order_id \in Nat
  BY SMTT(30) DEF EntryOK, Consumes
<1>1. ASSUME NEW d \in Clients, NEW q \in UserRefNums, f.orders[d][q] # None
      PROVE  \/ d = c /\ q = ref /\ f.orders[d][q].id = e.next_order_id
                /\ f.next_order_id = e.next_order_id + 1
             \/ /\ f.orders[d][q] = e.orders[d][q] /\ e.orders[d][q] # None
                /\ f.orders[d][q].id < e.next_order_id /\ f.orders[d][q].id \in Nat
  <2>1. CASE d = c /\ q = ref
    BY <1>1, <2>1 DEF Consumes
  <2>2. CASE ~ (d = c /\ q = ref)
    <3>1. f.orders[d][q] = e.orders[d][q]
      BY <2>2 DEF Consumes
    <3>2. e.orders[d][q].id < e.next_order_id
      BY <1>1, <3>1 DEF Numbered
    <3>3. e.orders[d][q] \in KnownOrder
      BY <1>1, <3>1, EntryOrders
    <3>4. e.orders[d][q].id \in Nat
      <4>1. e.orders[d][q].id \in OrderIds
        BY <3>3 DEF KnownOrder
      <4> QED BY <4>1, NumbersAssumption
    <3> QED BY <1>1, <3>1, <3>2, <3>4
  <2> QED BY <2>1, <2>2
<1>2. ASSUME NEW d \in Clients, NEW q \in UserRefNums, f.orders[d][q] # None
      PROVE  f.orders[d][q].id < f.next_order_id
  BY <1>0, <1>1, <1>2, SMTT(30)
<1>3. ASSUME NEW k \in Clients, NEW d \in Clients, NEW r \in UserRefNums, NEW q \in UserRefNums,
             f.orders[k][r] # None, f.orders[d][q] # None, f.orders[k][r].id = f.orders[d][q].id
      PROVE  k = d /\ r = q
  <2>1. CASE (k = c /\ r = ref) /\ (d = c /\ q = ref)
    BY <2>1
  <2>2. CASE ~ (k = c /\ r = ref) /\ ~ (d = c /\ q = ref)
    <3>1. /\ f.orders[k][r] = e.orders[k][r] /\ e.orders[k][r] # None
          /\ f.orders[d][q] = e.orders[d][q] /\ e.orders[d][q] # None
      BY <2>2, <1>1, <1>3
    <3> QED BY <3>1, <1>3, SMTT(30) DEF Numbered
  <2>3. CASE (k = c /\ r = ref) /\ ~ (d = c /\ q = ref)
    <3>1. f.orders[d][q].id < e.next_order_id /\ f.orders[d][q].id \in Nat
      BY <2>3, <1>1, <1>3
    <3>2. f.orders[k][r].id = e.next_order_id
      BY <2>3, <1>3 DEF Consumes
    <3> QED BY <3>1, <3>2, <1>0, <1>3, SMTT(30)
  <2>4. CASE ~ (k = c /\ r = ref) /\ (d = c /\ q = ref)
    <3>1. f.orders[k][r].id < e.next_order_id /\ f.orders[k][r].id \in Nat
      BY <2>4, <1>1, <1>3
    <3>2. f.orders[d][q].id = e.next_order_id
      BY <2>4, <1>3 DEF Consumes
    <3> QED BY <3>1, <3>2, <1>0, <1>3, SMTT(30)
  <2> QED BY <2>1, <2>2, <2>3, <2>4
<1> QED BY <1>2, <1>3, SMTT(30) DEF Numbered

(* Nobody has heard of the new order, and what is known of others stays.   *)
LEMMA FitsAfter ==
  ASSUME NEW e, EntryOK(e), NEW f, NEW c \in Clients, NEW ref \in UserRefNums,
         NEW order, Consumes(e, f, c, ref, order),
         order # None => order.id = e.next_order_id /\ order.id \in OrderIds,
         NEW note, Announces(note) => /\ order # None /\ note.id = order.id
                                      /\ note.record.client = c /\ note.record.ref = ref,
         NEW s, Fits(e, None, s)
  PROVE  Fits(f, note, s)
<1>0. /\ e.next_order_id \in Nat /\ e.next_order_id <= f.next_order_id /\ f.next_order_id \in Nat
      /\ \A d \in Clients : e.last_user_ref_num[d] \in Nat
      /\ \A id \in OrderIds : id \in Nat
      /\ ref \in Nat /\ ref > e.last_user_ref_num[c]
  BY NumbersAssumption, SMTT(30) DEF EntryOK, Consumes
<1>1. s \in State /\ Proper(e, s) /\ Silent(e, None, s)
  BY DEF Fits, Proper
<1>2. /\ \A id \in OrderIds : id >= e.next_order_id => s.orders[id] = None
      /\ \A d \in Clients, r \in UserRefNums :
           r > e.last_user_ref_num[d] => s.view[d][r] = None
  BY <1>1 DEF Silent
<1>3. ASSUME NEW id \in OrderIds, s.orders[id] # None
      PROVE  Belongs(f, s.orders[id].record, id)
  <2>0. PICK record : record = s.orders[id].record
    OBVIOUS
  <2>1. PICK d, r : d = record.client /\ r = record.ref
    OBVIOUS
  <2>2. Owns(e, d, r, id)
    BY <1>1, <1>3, <2>0, <2>1 DEF Proper, Belongs
  <2>3. d \in Clients /\ r \in UserRefNums
    <3>1. s.orders[id] \in LiveOrder
      BY <1>1, <1>3, StateFields
    <3> QED BY <3>1, <2>0, <2>1, LiveFields
  <2>4. f.orders[d][r] = e.orders[d][r]
    <3>1. r <= e.last_user_ref_num[d]
      BY <2>2, <2>3 DEF Owns, EntryOK
    <3> QED BY <2>3, <3>1, SlotKept, SMTT(30)
  <2> QED BY <2>0, <2>1, <2>2, <2>4 DEF Belongs, Owns
<1>4. ASSUME NEW d \in Clients, NEW r \in UserRefNums, f.orders[d][r] # None
      PROVE  Agrees(s.view[d][r], s.orders[f.orders[d][r].id])
  <2>1. CASE d = c /\ r = ref
    <3>1. f.orders[d][r] = order /\ order # None
      BY <1>4, <2>1 DEF Consumes
    <3>2. s.orders[order.id] = None /\ s.view[d][r] = None
      BY <2>1, <3>1, <1>0, <1>2, SMTT(30)
    <3> QED BY <3>1, <3>2 DEF Agrees
  <2>2. CASE ~ (d = c /\ r = ref)
    <3>1. f.orders[d][r] = e.orders[d][r]
      BY <2>2 DEF Consumes
    <3> QED BY <3>1, <1>1, <1>4 DEF Proper
  <2> QED BY <2>1, <2>2
<1>5. Proper(f, s)
  BY <1>1, <1>3, <1>4 DEF Proper
<1>6. \A id \in OrderIds : id >= f.next_order_id => s.orders[id] = None
  BY <1>0, <1>2, SMTT(30)
<1>7. \A d \in Clients, r \in UserRefNums : r > f.last_user_ref_num[d] => s.view[d][r] = None
  <2> SUFFICES ASSUME NEW d \in Clients, NEW r \in UserRefNums, r > f.last_user_ref_num[d]
               PROVE  r > e.last_user_ref_num[d]
    BY <1>2
  <2>1. f.last_user_ref_num[d] = IF d = c THEN ref ELSE e.last_user_ref_num[d]
    BY DEF Consumes
  <2>2. r \in Nat
    BY NumbersAssumption
  <2> QED BY <2>1, <2>2, <1>0, SMTT(30)
<1>8. Announces(note) => /\ s.orders[note.id] = None
                         /\ s.view[note.record.client][note.record.ref] = None
  BY <1>0, <1>2, SMTT(30)
<1>9. Silent(f, note, s)
  BY <1>6, <1>7, <1>8 DEF Silent
<1> QED BY <1>5, <1>9 DEF Fits

(* A note on its way announces an order that nobody has heard of, still. *)
LEMMA NotableAfter ==
  ASSUME NEW e, EntryOK(e), NEW f, NEW c \in Clients, NEW ref \in UserRefNums,
         NEW order, Consumes(e, f, c, ref, order), NEW s, NEW note, Notable(e, s, note)
  PROVE  Notable(f, s, note)
<1>1. PICK d, r : d = note.record.client /\ r = note.record.ref
  OBVIOUS
<1>2. d \in Clients /\ r \in UserRefNums
  BY <1>1, NoteFields DEF Notable, NoteOK
<1>3. CASE note \in KnownNote /\ Belongs(e, note.record, note.id)
  <2>1. f.orders[d][r] = e.orders[d][r]
    <3>1. r <= e.last_user_ref_num[d]
      BY <1>1, <1>2, <1>3 DEF Belongs, Owns, EntryOK
    <3> QED BY <1>2, <3>1, SlotKept, SMTT(30)
  <2>2. Belongs(f, note.record, note.id)
    BY <1>1, <1>3, <2>1 DEF Belongs, Owns
  <2> QED BY <1>3, <2>2 DEF Notable, NoteOK
<1>4. CASE /\ note.kind = "REJECTED" /\ e.orders[d][r] = None
           /\ r <= e.last_user_ref_num[d]
  <2>1. f.orders[d][r] = None
    <3>1. r <= e.last_user_ref_num[d]
      BY <1>4
    <3>2. f.orders[d][r] = e.orders[d][r]
      BY <1>2, <3>1, SlotKept, SMTT(30)
    <3> QED BY <3>2, <1>4
  <2>2. r <= f.last_user_ref_num[d]
    <3>1. f.last_user_ref_num[d] = IF d = c THEN ref ELSE e.last_user_ref_num[d]
      BY <1>2 DEF Consumes
    <3>2. r \in Nat /\ ref \in Nat /\ e.last_user_ref_num[d] \in Nat
          /\ e.last_user_ref_num[c] \in Nat /\ ref > e.last_user_ref_num[c]
      BY <1>2, NumbersAssumption DEF EntryOK, Consumes
    <3> QED BY <3>1, <3>2, <1>4, SMTT(30)
  <2>3. NoteOK(f, note)
    BY <1>1, <1>2, <1>4, <2>1, <2>2 DEF NoteOK
  <2> QED BY <2>3 DEF Notable
<1> QED BY <1>1, <1>3, <1>4 DEF Notable, NoteOK

(* All of it, for a message that was translated. *)
LEMMA EntryChanges ==
  ASSUME NEW e, EntryOK(e), Numbered(e), NEW c \in Clients, NEW t, Explained(e, c, t)
  PROVE  /\ Numbered(t.entry)
         /\ t.note # None => NoteOK(t.entry, t.note)
         /\ \A s : Fits(e, None, s) => Fits(t.entry, t.note, s)
         /\ \A s, x : Notable(e, s, x) => Notable(t.entry, s, x)
         /\ Announces(t.note) => Creates(t.request) /\ NewId(t.request) = t.note.id
<1>1. PICK f, note, req : f = t.entry /\ note = t.note /\ req = t.request
  OBVIOUS
<1> DEFINE Goal ==
      /\ Numbered(f)
      /\ note # None => NoteOK(f, note)
      /\ \A s : Fits(e, None, s) => Fits(f, note, s)
      /\ \A s, x : Notable(e, s, x) => Notable(f, s, x)
      /\ Announces(note) => Creates(req) /\ NewId(req) = note.id
<1>2. ASSUME f = e, note = None PROVE Goal
  BY <1>2 DEF Announces
<1>3. ASSUME NEW ref \in UserRefNums, note.kind = "REJECTED",
             note.record.client = c, note.record.ref = ref, Consumes(e, f, c, ref, None)
      PROVE  Goal
  <2>1. ~ Announces(note)
    BY <1>3 DEF Announces
  <2>2. Numbered(f)
    BY <1>3, NumberedAfter
  <2>3. ASSUME NEW s, Fits(e, None, s) PROVE Fits(f, note, s)
    BY <1>3, <2>1, <2>3, FitsAfter, SMTT(30)
  <2>4. ASSUME NEW s, NEW x, Notable(e, s, x) PROVE Notable(f, s, x)
    BY <1>3, <2>4, NotableAfter, SMTT(30)
  <2>5. NoteOK(f, note)
    <3>1. f.orders[c][ref] = None /\ f.last_user_ref_num[c] = ref /\ ref \in Nat
      BY <1>3, NumbersAssumption DEF Consumes
    <3> QED BY <1>3, <3>1, SMTT(30) DEF NoteOK
  <2> QED BY <2>1, <2>2, <2>3, <2>4, <2>5
<1>4. ASSUME NEW ref \in UserRefNums, NEW order \in KnownOrder,
             note \in KnownNote, note.id = order.id,
             note.record.client = c, note.record.ref = ref,
             Creates(req), NewId(req) = order.id, order.id = e.next_order_id,
             Consumes(e, f, c, ref, order)
      PROVE  Goal
  <2>1. order # None /\ order.id \in OrderIds
    BY NoneAssumption DEF KnownOrder
  <2>2. Numbered(f)
    BY <1>4, NumberedAfter
  <2>3. ASSUME NEW s, Fits(e, None, s) PROVE Fits(f, note, s)
    BY <1>4, <2>1, <2>3, FitsAfter, SMTT(30)
  <2>4. ASSUME NEW s, NEW x, Notable(e, s, x) PROVE Notable(f, s, x)
    BY <1>4, <2>4, NotableAfter, SMTT(30)
  <2>5. NoteOK(f, note)
    <3>1. f.orders[c][ref] = order
      BY <1>4 DEF Consumes
    <3> QED BY <1>4, <2>1, <3>1 DEF NoteOK, Belongs, Owns
  <2> QED BY <1>4, <2>2, <2>3, <2>4, <2>5
<1> QED BY <1>1, <1>2, <1>3, <1>4 DEF Explained
-----------------------------------------------------------------------------
(* The queues, as the steps of the exchange change them.                   *)

(* The same messages. *)
LEMMA SameMessages ==
  ASSUME NEW e, NEW note, NEW n \in Nat, NEW ms, NEW g, MessagesPath(e, note, n, ms, g),
         NEW ks, \A i \in 1..n : ks[i] = ms[i]
  PROVE  MessagesPath(e, note, n, ks, g)
  BY DEF MessagesPath

(* The same states, for an OrderEntry that has taken another message. *)
LEMMA PathsAfter ==
  ASSUME NEW e, NEW f, NEW note,
         \A s : Fits(e, None, s) => Fits(f, note, s),
         \A s, x : Notable(e, s, x) => Notable(f, s, x),
         NEW n \in Nat, NEW ns, NEW a, NotesPath(e, None, n, ns, a),
         NEW k \in Nat, NEW ms, NEW g, MessagesPath(e, None, k, ms, g)
  PROVE  NotesPath(f, note, n, ns, a) /\ MessagesPath(f, note, k, ms, g)
<1>1. NotesPath(f, note, n, ns, a)
  BY DEF NotesPath
<1>2. MessagesPath(f, note, k, ms, g)
  BY DEF MessagesPath
<1> QED BY <1>1, <1>2

(* A note is pushed. *)
LEMMA NoteAdded ==
  ASSUME NEW e, EntryOK(e), Numbered(e), NEW note, note # None, NoteOK(e, note),
         NEW n \in Nat, NEW ns, NEW f, NotesPath(e, note, n, ns, f),
         NEW ks, \A i \in 1..n : ks[i] = ns[i], ks[n + 1] = note
  PROVE  \E h : /\ NotesPath(e, None, n + 1, ks, h)
                /\ h[0] = f[0] /\ h[n + 1] = Noted(f[n], note)
<1>1. PICK t : t = Noted(f[n], note)
  OBVIOUS
<1>2. \A i \in 0..n : Fits(e, note, f[i])
  BY DEF NotesPath
<1>3. Fits(e, None, t)
  BY <1>1, <1>2, NotedFits, SMTT(30)
<1>4. Notable(e, f[n], note)
  BY <1>2, SMTT(30) DEF Fits, Silent, Notable
<1>5. PICK h : h = [i \in 0..(n + 1) |-> IF i = n + 1 THEN t ELSE f[i]]
  OBVIOUS
<1>6. (\A i \in 0..n : h[i] = f[i]) /\ h[n + 1] = t
  BY <1>5, SMTT(30)
<1>7. \A i \in 0..(n + 1) : Fits(e, None, h[i])
  <2>1. \A i \in 0..(n + 1) : i \in 0..n \/ i = n + 1
    BY SMTT(30)
  <2>2. \A s : Fits(e, note, s) => Fits(e, None, s)
    BY DEF Fits, Silent, Announces
  <2> QED BY <2>1, <2>2, <1>2, <1>3, <1>6
<1>8. ASSUME NEW i \in 1..(n + 1)
      PROVE  ks[i] # None /\ Notable(e, h[i - 1], ks[i]) /\ h[i] = Noted(h[i - 1], ks[i])
  <2>1. CASE i = n + 1
    BY <2>1, <1>1, <1>4, <1>6, SMTT(30)
  <2>2. CASE i # n + 1
    <3>1. i \in 1..n /\ i - 1 \in 0..n /\ i \in 0..n
      BY <2>2, SMTT(30)
    <3> QED BY <3>1, <1>6 DEF NotesPath
  <2> QED BY <2>1, <2>2
<1>9. NotesPath(e, None, n + 1, ks, h)
  BY <1>7, <1>8 DEF NotesPath
<1>10. h[0] = f[0]
  BY <1>6, SMTT(30)
<1> QED BY <1>1, <1>6, <1>9, <1>10

(* The first note is answered. *)
LEMMA NoteTaken ==
  ASSUME NEW e, NEW note, NEW n \in Nat \ {0}, NEW ns, NEW f, NotesPath(e, note, n, ns, f),
         NEW ks, \A i \in 1..(n - 1) : ks[i] = ns[i + 1]
  PROVE  \E h : /\ NotesPath(e, note, n - 1, ks, h)
                /\ h[0] = Noted(f[0], ns[1]) /\ h[n - 1] = f[n]
<1>1. f[1] = Noted(f[0], ns[1])
  BY SMTT(30) DEF NotesPath
<1>2. PICK h : h = [i \in 0..(n - 1) |-> f[i + 1]]
  OBVIOUS
<1>3. \A i \in 0..(n - 1) : h[i] = f[i + 1] /\ i + 1 \in 0..n
  BY <1>2, SMTT(30)
<1>4. \A i \in 1..(n - 1) : h[i - 1] = f[i] /\ h[i] = f[i + 1] /\ i + 1 \in 1..n
  BY <1>2, SMTT(30)
<1>5. ASSUME NEW i \in 1..(n - 1)
      PROVE  ks[i] # None /\ Notable(e, h[i - 1], ks[i]) /\ h[i] = Noted(h[i - 1], ks[i])
  <2>1. /\ ns[i + 1] # None /\ Notable(e, f[(i + 1) - 1], ns[i + 1])
        /\ f[i + 1] = Noted(f[(i + 1) - 1], ns[i + 1])
    BY <1>4 DEF NotesPath
  <2>2. (i + 1) - 1 = i
    BY SMTT(30)
  <2> QED BY <2>1, <2>2, <1>4
<1>6. NotesPath(e, note, n - 1, ks, h)
  BY <1>3, <1>5 DEF NotesPath
<1>7. h[0] = f[1] /\ h[n - 1] = f[n]
  BY <1>2, SMTT(30)
<1> QED BY <1>1, <1>6, <1>7

-----------------------------------------------------------------------------
(* Rings and queues.                                                       *)

(* What Len, Append, Head, Tail and \o give for a queue. *)
LEMMA QueueLength ==
  ASSUME NEW S, NEW q \in Seq(S)
  PROVE  Len(q) \in Nat /\ q \in [1..Len(q) -> S] /\ DOMAIN q = 1..Len(q)
  BY SMTT(30)
LEMMA QueueEmpty ==
  ASSUME NEW S
  PROVE  /\ << >> \in Seq(S) /\ Len(<< >>) = 0
         /\ \A q \in Seq(S) : q # << >> => Len(q) \in Nat \ {0}
  BY SMTT(30)
LEMMA QueueWider ==
  ASSUME NEW S, NEW T, NEW q \in Seq(S), S \subseteq T
  PROVE  q \in Seq(T)
  BY SMTT(30)
LEMMA QueuePush ==
  ASSUME NEW S, NEW q \in Seq(S), NEW x \in S
  PROVE  /\ Append(q, x) \in Seq(S) /\ Append(q, x) # << >>
         /\ Len(Append(q, x)) = Len(q) + 1
         /\ \A i \in 1..Len(q) : Append(q, x)[i] = q[i]
         /\ Append(q, x)[Len(q) + 1] = x
  BY SMTT(30)
LEMMA QueuePop ==
  ASSUME NEW S, NEW q \in Seq(S), q # << >>
  PROVE  /\ Head(q) \in S /\ Tail(q) \in Seq(S)
         /\ Len(Tail(q)) = Len(q) - 1
         /\ \A i \in 1..Len(Tail(q)) : Tail(q)[i] = q[i + 1]
  BY SMTT(30)
LEMMA QueueJoin ==
  ASSUME NEW S, NEW q \in Seq(S), NEW r \in Seq(S)
  PROVE  /\ q \o r \in Seq(S) /\ Len(q \o r) = Len(q) + Len(r)
         /\ \A i \in 1..(Len(q) + Len(r)) :
               (q \o r)[i] = IF i <= Len(q) THEN q[i] ELSE r[i - Len(q)]
  BY SMTT(30)

(* The first of a ring and the others. *)
LEMMA Popped ==
  ASSUME NEW ring \in Seq(Request), ring # <<>>
  PROVE  /\ Head(ring) \in Request /\ Head(ring) = ring[1]
         /\ Tail(ring) \in Seq(Request) /\ Len(Tail(ring)) = Len(ring) - 1
         /\ \A i \in 1..Len(Tail(ring)) : Tail(ring)[i] = ring[i + 1] /\ i + 1 \in 1..Len(ring)
         /\ Len(ring) \in Nat /\ 1 \in 1..Len(ring)
<1>1. Len(ring) \in Nat /\ Len(ring) # 0
  BY QueueLength, QueueEmpty
<1>2. /\ Head(ring) \in Request /\ Tail(ring) \in Seq(Request)
      /\ Len(Tail(ring)) = Len(ring) - 1
      /\ \A i \in 1..Len(Tail(ring)) : Tail(ring)[i] = ring[i + 1]
  BY QueuePop
<1>3. Head(ring) = ring[1]
  BY SMTT(30)
<1> QED BY <1>1, <1>2, <1>3, SMTT(30)

-----------------------------------------------------------------------------
(* Requests in a ring.                                                     *)

(* Of two requests that create orders the first has the smaller id. *)
Before(a, b) == Creates(a) /\ Creates(b) => NewId(a) < NewId(b)

(* The id of a request is an id. *)
LEMMA RequestIds ==
  ASSUME NEW req \in Request
  PROVE  req.client \in Clients /\ NewId(req) \in OrderIds /\ NewId(req) \in Nat
<1>1. req.client \in Clients /\ req.id \in OrderIds
      /\ (req.type = "REPLACE" => req.new_id \in OrderIds)
  BY DEF Request, NewRequest, MarketRequest, CancelRequest, ReplaceRequest
<1> QED BY <1>1, NumbersAssumption DEF NewId

(* A ring in the order of the ids, and its first request. *)
LEMMA RingOrder ==
  ASSUME NEW ring \in Seq(Request), ring # <<>>,
         \A i, j \in 1..Len(ring) : i < j => Before(ring[i], ring[j])
  PROVE  /\ \A i, j \in 1..Len(Tail(ring)) : i < j => Before(Tail(ring)[i], Tail(ring)[j])
         /\ \A i \in 1..Len(Tail(ring)) : Before(Head(ring), Tail(ring)[i])
<1>0. Len(ring) \in Nat /\ Len(Tail(ring)) = Len(ring) - 1
  BY Popped
<1>1. ASSUME NEW i \in 1..Len(Tail(ring)), NEW j \in 1..Len(Tail(ring)), i < j
      PROVE  Before(Tail(ring)[i], Tail(ring)[j])
  <2>1. /\ Tail(ring)[i] = ring[i + 1] /\ i + 1 \in 1..Len(ring)
        /\ Tail(ring)[j] = ring[j + 1] /\ j + 1 \in 1..Len(ring)
    BY Popped
  <2>2. i + 1 < j + 1
    BY <1>1, <1>0, SMTT(30)
  <2> QED BY <2>1, <2>2
<1>2. ASSUME NEW i \in 1..Len(Tail(ring)) PROVE Before(Head(ring), Tail(ring)[i])
  <2>1. /\ Tail(ring)[i] = ring[i + 1] /\ i + 1 \in 1..Len(ring)
        /\ Head(ring) = ring[1] /\ 1 \in 1..Len(ring)
    BY Popped
  <2>2. 1 < i + 1
    BY <1>0, SMTT(30)
  <2> QED BY <2>1, <2>2
<1> QED BY <1>1, <1>2

-----------------------------------------------------------------------------
(* What an event and a note change of the shares held.                     *)

(* The event reports the shares to one who has the shares before. *)
Tells(e, t, ev, q, r, created) ==
  /\ Reports(ev, q, r, created)
  /\ \A id \in OrderIds : Shares(t.orders[id]) = q[id]
  /\ \A id \in {ev.id, ev.orig_id} :
       Names(e, ev.client, id) /\ (id \in created => t.orders[id] # None)

(* What they have then. *)
SharesNow(ev, t, u, r) ==
  /\ \A id \in OrderIds : Shares(u.orders[id]) = r[id]
  /\ \A id \in OrderIds : id \notin {ev.id, ev.orig_id} => u.orders[id] = t.orders[id]

(* An event that reports the change of the shares can be answered, and the *)
(* responder then holds the shares after it.                               *)
LEMMA HeardReports ==
  ASSUME NEW e, EntryOK(e), Numbered(e), NEW note, NEW s, Fits(e, note, s),
         NEW ev, NEW q, NEW r, NEW created, Tells(e, s, ev, q, r, created)
  PROVE  ev \in EngineEvent /\ Answerable(s, ev) /\ SharesNow(ev, s, Heard(s, ev), r)
<1>0. /\ ev \in EngineEvent
      /\ \A id \in OrderIds :
           r[id] = IF id = ev.id THEN LeftOpen(ev, q[id])
                   ELSE IF ev.type = "REPLACED" /\ id = ev.orig_id THEN 0 ELSE q[id]
      /\ ev.type \in {"ACCEPTED", "REPLACED"} => ev.quantity # 0
      /\ ev.type = "REPLACED" => ev.id # ev.orig_id
      /\ ev.type \in {"CANCELED", "EXECUTED"} => ev.quantity # 0 /\ ev.quantity <= q[ev.id]
      /\ \A id \in {ev.id, ev.orig_id} : q[id] # 0 \/ id \in created
      /\ \A id \in OrderIds : Shares(s.orders[id]) = q[id]
      /\ \A id \in {ev.id, ev.orig_id} :
           Names(e, ev.client, id) /\ (id \in created => s.orders[id] # None)
  BY DEF Tells, Reports
<1>1. /\ ev.id \in OrderIds /\ ev.orig_id \in OrderIds /\ ev.type \in EngineEventTypes
      /\ ev.client \in Clients /\ ev.quantity \in Nat
  BY <1>0, EventFields
<1>2. s \in State /\ Proper(e, s)
  BY DEF Fits, Proper
<1>3. ASSUME NEW id \in {ev.id, ev.orig_id}
      PROVE  s.orders[id] # None /\ s.orders[id].record.client = ev.client
  <2>1. id \in OrderIds /\ s.orders[id] # None
    BY <1>0, <1>1 DEF Shares
  <2>2. s.orders[id] \in LiveOrder
    BY <2>1, <1>2, StateFields
  <2>3. PICK c, p : c = s.orders[id].record.client /\ p = s.orders[id].record.ref
    OBVIOUS
  <2>4. c \in Clients /\ p \in UserRefNums
    BY <2>2, <2>3, LiveFields
  <2>5. Owns(e, c, p, id)
    BY <2>1, <2>3, <1>2 DEF Proper, Belongs
  <2>6. PICK u \in UserRefNums : Owns(e, ev.client, u, id)
    BY <1>0 DEF Names, Owns
  <2>7. c = ev.client
    BY <2>4, <2>5, <2>6, <1>1, OneOwner
  <2> QED BY <2>1, <2>3, <2>7
<1>4. Shares(s.orders[ev.id]) = s.orders[ev.id].open /\ s.orders[ev.id].open = q[ev.id]
  BY <1>0, <1>1, <1>3 DEF Shares
<1>5. Answerable(s, ev)
  BY <1>0, <1>3, <1>4 DEF Answerable
<1>6. PICK c \in Clients, p \in UserRefNums, o \in UserRefNums : Addressed(s, ev, c, p, o)
  BY <1>0, <1>2, <1>5, Address
<1>7. PICK t : t = Heard(s, ev)
  OBVIOUS
<1>8. \A id \in OrderIds :
        t.orders[id] = IF id = ev.id THEN Left(s, ev)
                       ELSE IF Ends(ev, id) THEN None ELSE s.orders[id]
  <2>1. Changes(s, ev, c, p, o, t)
    BY <1>0, <1>2, <1>5, <1>6, <1>7, HeardChanges
  <2> QED BY <2>1 DEF Changes
<1>9. Shares(Left(s, ev)) = LeftOpen(ev, q[ev.id])
  BY <1>0, <1>1, <1>2, <1>4, <1>5, LeftIsLive DEF LeftOpen, EngineEventTypes
<1>10. \A id \in OrderIds : Shares(t.orders[id]) = r[id]
  <2>1. Shares(None) = 0
    BY DEF Shares
  <2> QED BY <2>1, <1>0, <1>8, <1>9 DEF Ends
<1>11. \A id \in OrderIds : id \notin {ev.id, ev.orig_id} => t.orders[id] = s.orders[id]
  BY <1>8 DEF Ends
<1>12. SharesNow(ev, s, t, r)
  BY <1>10, <1>11 DEF SharesNow
<1> QED BY <1>0, <1>5, <1>7, <1>12

(* A message that asks for an order has a note that names it. *)
LEMMA NoteNamesOrder ==
  ASSUME NEW e, EntryOK(e), NEW c \in Clients, NEW t, Translated(e, c, t), Explained(e, c, t),
         Creates(t.request)
  PROVE  Announces(t.note) /\ NewId(t.request) = t.note.id /\ t.note # None
<1>1. /\ e.next_order_id \in Nat /\ NewId(t.request) \in Nat
      /\ e.next_order_id <= NewId(t.request) /\ NewId(t.request) < t.entry.next_order_id
  BY NumbersAssumption DEF Translated, EntryOK
<1>2. t.entry.next_order_id # e.next_order_id
  BY <1>1, SMTT(30)
<1>3. PICK ref \in UserRefNums, order \in KnownOrder :
        /\ t.note \in KnownNote /\ t.note.id = order.id /\ NewId(t.request) = order.id
  BY <1>2 DEF Explained, Consumes
<1> QED BY <1>3, NoteFields DEF Announces

(* The note announces the order, which has no shares yet. *)
LEMMA NotedShares ==
  ASSUME NEW e, NEW note, note # None, NoteOK(e, note), NEW s, Fits(e, note, s), NEW u,
         u = Noted(s, note)
  PROVE  /\ \A id \in OrderIds : Shares(u.orders[id]) = Shares(s.orders[id])
         /\ \A id \in OrderIds : s.orders[id] # None => u.orders[id] # None
         /\ Announces(note) => u.orders[note.id] # None
<1>1. s \in State /\ Silent(e, note, s)
  BY DEF Fits, Proper
<1>2. Notes(s, note, u)
  BY <1>1, NotedChanges
<1>3. CASE Announces(note)
  <2>1. note \in KnownNote
    BY <1>3 DEF NoteOK, Announces
  <2>2. PICK live : live = [record |-> note.record, open |-> 0]
    OBVIOUS
  <2>3. live \in LiveOrder /\ live.open = 0
    BY <2>1, <2>2, NoteFields DEF LiveOrder
  <2>4. live # None /\ Shares(live) = 0 /\ Shares(None) = 0
    BY <2>3, NoneAssumption DEF Shares
  <2>5. \A id \in OrderIds : u.orders[id] = IF id = note.id THEN live ELSE s.orders[id]
    BY <1>2, <1>3, <2>2 DEF Notes
  <2>6. s.orders[note.id] = None /\ note.id \in OrderIds
    BY <1>1, <1>3, <2>1, NoteFields DEF Silent
  <2> QED BY <2>4, <2>5, <2>6
<1>4. CASE ~ Announces(note)
  <2>1. \A id \in OrderIds : u.orders[id] = s.orders[id]
    BY <1>2, <1>4 DEF Notes
  <2> QED BY <2>1, <1>4
<1> QED BY <1>3, <1>4

-----------------------------------------------------------------------------
(* The answers to notes and messages, in turn.                             *)

(* The answers to n notes and then to k messages lead from s to t. *)
Leads(e, note, s, n, ns, k, ms, t) ==
  \E f, g : /\ f[0] = s /\ NotesPath(e, note, n, ns, f)
            /\ g[0] = f[n] /\ MessagesPath(e, note, k, ms, g) /\ g[k] = t

(* The way begins and ends in states that fit. *)
LEMMA LeadsFits ==
  ASSUME NEW e, NEW note, NEW s, NEW n \in Nat, NEW ns, NEW k \in Nat, NEW ms, NEW t,
         Leads(e, note, s, n, ns, k, ms, t)
  PROVE  Fits(e, note, s) /\ Fits(e, note, t)
<1>1. 0 \in 0..n /\ k \in 0..k
  BY SMTT(30)
<1> QED BY <1>1 DEF Leads, NotesPath, MessagesPath

(* It depends on the messages alone. *)
LEMMA LeadsSame ==
  ASSUME NEW e, NEW note, NEW s, NEW n \in Nat, NEW ns, NEW k \in Nat, NEW ms, NEW t,
         Leads(e, note, s, n, ns, k, ms, t), NEW ks, \A i \in 1..k : ks[i] = ms[i]
  PROVE  Leads(e, note, s, n, ns, k, ks, t)
  BY SameMessages DEF Leads

(* A message more, at the end. *)
LEMMA LeadsMessage ==
  ASSUME NEW e, EntryOK(e), Numbered(e), NEW note, Pending(e, note),
         NEW s, NEW n \in Nat, NEW ns, NEW k \in Nat, NEW ms, NEW t,
         Leads(e, note, s, n, ns, k, ms, t),
         NEW ks, \A i \in 1..k : ks[i] = ms[i],
         ks[k + 1] \in EngineEvent \cup ITCH, Answerable(t, ks[k + 1])
  PROVE  Leads(e, note, s, n, ns, k + 1, ks, Heard(t, ks[k + 1]))
<1>1. PICK f, g : /\ f[0] = s /\ NotesPath(e, note, n, ns, f)
                  /\ g[0] = f[n] /\ MessagesPath(e, note, k, ms, g) /\ g[k] = t
  BY DEF Leads
<1>2. PICK h : /\ MessagesPath(e, note, k + 1, ks, h)
               /\ h[0] = g[0] /\ h[k + 1] = Heard(g[k], ks[k + 1])
  BY <1>1, MessageAdded, SMTT(30)
<1> QED BY <1>1, <1>2 DEF Leads

(* OrderEntry has taken another message. *)
LEMMA LeadsEntry ==
  ASSUME NEW e, NEW d, NEW note,
         \A x : Fits(e, None, x) => Fits(d, note, x),
         \A x, y : Notable(e, x, y) => Notable(d, x, y),
         NEW s, NEW n \in Nat, NEW ns, NEW k \in Nat, NEW ms, NEW t,
         Leads(e, None, s, n, ns, k, ms, t)
  PROVE  Leads(d, note, s, n, ns, k, ms, t)
<1>1. PICK f, g : /\ f[0] = s /\ NotesPath(e, None, n, ns, f)
                  /\ g[0] = f[n] /\ MessagesPath(e, None, k, ms, g) /\ g[k] = t
  BY DEF Leads
<1>2. NotesPath(d, note, n, ns, f) /\ MessagesPath(d, note, k, ms, g)
  BY <1>1, PathsAfter
<1> QED BY <1>1, <1>2 DEF Leads

(* A note more, which is answered before all messages. *)
LEMMA LeadsNote ==
  ASSUME NEW e, EntryOK(e), Numbered(e), NEW note, note # None, NoteOK(e, note),
         NEW s, NEW n \in Nat, NEW ns, NEW k \in Nat, NEW ms, NEW t,
         Leads(e, note, s, n, ns, k, ms, t),
         NEW ls, \A i \in 1..n : ls[i] = ns[i], ls[n + 1] = note
  PROVE  Leads(e, None, s, n + 1, ls, k, ms, Noted(t, note))
<1>1. PICK f, g : /\ f[0] = s /\ NotesPath(e, note, n, ns, f)
                  /\ g[0] = f[n] /\ MessagesPath(e, note, k, ms, g) /\ g[k] = t
  BY DEF Leads
<1>2. PICK a : /\ NotesPath(e, None, n + 1, ls, a)
               /\ a[0] = f[0] /\ a[n + 1] = Noted(f[n], note)
  BY <1>1, NoteAdded, SMTT(30)
<1>3. PICK h : /\ MessagesPath(e, None, k, ms, h)
               /\ h[0] = Noted(g[0], note) /\ h[k] = Noted(g[k], note)
  BY <1>1, NoteAhead, SMTT(30)
<1> QED BY <1>1, <1>2, <1>3 DEF Leads

(* The first note is answered. *)
LEMMA LeadsNoteTaken ==
  ASSUME NEW e, NEW note, NEW s, NEW n \in Nat \ {0}, NEW ns, NEW k \in Nat, NEW ms, NEW t,
         Leads(e, note, s, n, ns, k, ms, t),
         NEW ls, \A i \in 1..(n - 1) : ls[i] = ns[i + 1]
  PROVE  Leads(e, note, Noted(s, ns[1]), n - 1, ls, k, ms, t)
<1>1. PICK f, g : /\ f[0] = s /\ NotesPath(e, note, n, ns, f)
                  /\ g[0] = f[n] /\ MessagesPath(e, note, k, ms, g) /\ g[k] = t
  BY DEF Leads
<1>2. PICK h : /\ NotesPath(e, note, n - 1, ls, h)
               /\ h[0] = Noted(f[0], ns[1]) /\ h[n - 1] = f[n]
  BY <1>1, NoteTaken, SMTT(30)
<1> QED BY <1>1, <1>2 DEF Leads

(* The first message is answered; no note is left. *)
LEMMA LeadsMessageTaken ==
  ASSUME NEW e, NEW note, NEW s, NEW ns, NEW k \in Nat \ {0}, NEW ms, NEW t,
         Leads(e, note, s, 0, ns, k, ms, t),
         NEW ks, \A i \in 1..(k - 1) : ks[i] = ms[i + 1]
  PROVE  /\ Answerable(s, ms[1]) /\ ms[1] \in EngineEvent \cup ITCH
         /\ Leads(e, note, Heard(s, ms[1]), 0, ns, k - 1, ks, t)
<1>1. PICK f, g : /\ f[0] = s /\ NotesPath(e, note, 0, ns, f)
                  /\ g[0] = f[0] /\ MessagesPath(e, note, k, ms, g) /\ g[k] = t
  BY DEF Leads
<1>2. /\ ms[1] \in EngineEvent \cup ITCH /\ Answerable(g[0], ms[1])
      /\ \E h : /\ MessagesPath(e, note, k - 1, ks, h)
                /\ h[0] = Heard(g[0], ms[1]) /\ h[k - 1] = g[k]
  BY <1>1, MessageTaken, SMTT(30)
<1>3. PICK h : /\ MessagesPath(e, note, k - 1, ks, h)
               /\ h[0] = Heard(g[0], ms[1]) /\ h[k - 1] = g[k]
  BY <1>2
<1>4. Fits(e, note, h[0])
  <2>1. 0 \in 0..(k - 1)
    BY SMTT(30)
  <2> QED BY <2>1, <1>3 DEF MessagesPath
<1>5. PICK a : a = [i \in {0} |-> h[0]]
  OBVIOUS
<1>6. a[0] = h[0] /\ NotesPath(e, note, 0, ns, a)
  BY <1>4, <1>5, SMTT(30) DEF NotesPath
<1> QED BY <1>1, <1>2, <1>3, <1>6 DEF Leads

(* A message to the feed goes, from whatever place. *)
LEMMA LeadsFeed ==
  ASSUME NEW e, NEW note, NEW s, NEW n \in Nat, NEW ns, NEW k \in Nat, NEW ms, NEW t,
         Leads(e, note, s, n, ns, k, ms, t),
         NEW p \in 1..k, ms[p].type \notin EngineEventTypes,
         NEW ks, \A i \in 1..(k - 1) : ks[i] = IF i < p THEN ms[i] ELSE ms[i + 1]
  PROVE  Leads(e, note, s, n, ns, k - 1, ks, t)
<1>1. PICK f, g : /\ f[0] = s /\ NotesPath(e, note, n, ns, f)
                  /\ g[0] = f[n] /\ MessagesPath(e, note, k, ms, g) /\ g[k] = t
  BY DEF Leads
<1>2. PICK h : /\ MessagesPath(e, note, k - 1, ks, h) /\ h[0] = g[0] /\ h[k - 1] = g[k]
  BY <1>1, FeedMessageTaken, SMTT(30)
<1> QED BY <1>1, <1>2 DEF Leads

-----------------------------------------------------------------------------
(* The answers to what the engine sends next.                              *)

(* The way so far, which the next message continues. *)
Course(e, note, s, n, ns, k, ms, t) ==
  /\ EntryOK(e) /\ Numbered(e) /\ Pending(e, note) /\ n \in Nat /\ k \in Nat
  /\ Leads(e, note, s, n, ns, k, ms, t)
Continues(k, ms, ks) == \A i \in 1..k : ks[i] = ms[i]

LEMMA Continued == \A k, ks : Continues(k, ks, ks)
  BY DEF Continues

(* The engine sends a message to the feed: the responder is not concerned. *)
LEMMA FeedAdded ==
  ASSUME NEW e, NEW note, NEW s, NEW n, NEW ns, NEW k, NEW ms, NEW t,
         Course(e, note, s, n, ns, k, ms, t),
         NEW ks, Continues(k, ms, ks), ks[k + 1] \in ITCH
  PROVE  Course(e, note, s, n, ns, k + 1, ks, t)
<1>1. ks[k + 1] \in EngineEvent \cup ITCH /\ ks[k + 1].type \notin EngineEventTypes
  BY DEF ITCH, EngineEventTypes
<1>2. Answerable(t, ks[k + 1]) /\ Heard(t, ks[k + 1]) = t
  BY <1>1, FeedMessage
<1>3. Leads(e, note, s, n, ns, k + 1, ks, Heard(t, ks[k + 1]))
  BY <1>1, <1>2, LeadsMessage DEF Course, Continues
<1>4. k + 1 \in Nat
  BY SMTT(30) DEF Course
<1> QED BY <1>2, <1>3, <1>4 DEF Course

(* The engine sends an event that reports what became of the shares: it    *)
(* can be answered when its turn comes, and the responder then holds those *)
(* shares.                                                                 *)
LEMMA ReportAdded ==
  ASSUME NEW e, NEW note, NEW s, NEW n, NEW ns, NEW k, NEW ms, NEW t,
         Course(e, note, s, n, ns, k, ms, t),
         NEW ks, Continues(k, ms, ks), NEW ev, ks[k + 1] = ev,
         NEW q, NEW r, NEW created, Tells(e, t, ev, q, r, created)
  PROVE  \E u : Course(e, note, s, n, ns, k + 1, ks, u) /\ SharesNow(ev, t, u, r)
<1>0. EntryOK(e) /\ Numbered(e)
  BY DEF Course
<1>1. Fits(e, note, t)
  BY LeadsFits DEF Course
<1>2. ev \in EngineEvent /\ Answerable(t, ev) /\ SharesNow(ev, t, Heard(t, ev), r)
  BY <1>0, <1>1, HeardReports
<1>3. Leads(e, note, s, n, ns, k + 1, ks, Heard(t, ev))
  BY <1>2, LeadsMessage DEF Course, Continues
<1>4. k + 1 \in Nat
  BY SMTT(30) DEF Course
<1> QED BY <1>2, <1>3, <1>4 DEF Course
=============================================================================
