------------------------------ MODULE OrderEntry ------------------------------
(***************************************************************************)
(* src/exchange/server/src/order_entry.cpp: one OUCH message of a client   *)
(* becomes a note for the outbound thread, a request for the engine, both  *)
(* or neither.                                                             *)
(*                                                                         *)
(* The state of OrderEntry is a record: the last UserRefNum of every       *)
(* client, the orders by client and UserRefNum, and the next OrderId.  Of  *)
(* an OrderRecord, the fields that are only echoed are left out.           *)
(***************************************************************************)
EXTENDS Validation

CONSTANTS Clients, UserRefNums

Empty == [last_user_ref_num |-> [c \in Clients |-> 0],
          orders |-> [c \in Clients |-> [r \in UserRefNums |-> None]],
          next_order_id |-> 1]

(* What a message turns into: the new state, a note and a request. *)
Translation(entry, note, request) ==
  [entry |-> entry, note |-> note, request |-> request]
Ignored(entry) == Translation(entry, None, None)

Used(entry, client, ref) == ref <= entry.last_user_ref_num[client]

(* Mutant: the next OrderId stays. *)
AssignedSame(entry, client, ref, record) ==
  [entry EXCEPT !.last_user_ref_num[client] = ref,
                !.orders[client][ref] = [id |-> entry.next_order_id, record |-> record]]

(* A new order under the next OrderId; emplace() keeps an order already there. *)
Assigned(entry, client, ref, record) ==
  [last_user_ref_num |-> [entry.last_user_ref_num EXCEPT ![client] = ref],
   orders |-> [entry.orders EXCEPT ![client][ref] =
                 IF @ = None THEN [id |-> entry.next_order_id, record |-> record] ELSE @],
   next_order_id |-> entry.next_order_id + 1]

Record(client, ref, side) == [client |-> client, ref |-> ref, side |-> side]

NewOrder(id, client, check, quantity) ==
  [type |-> "NEW", id |-> id, client |-> client, side |-> check.side, price |-> check.price,
   quantity |-> quantity, order_type |-> check.order_type, tif |-> check.tif]
CancelOrder(id, client, quantity) ==
  [type |-> "CANCEL", id |-> id, client |-> client, quantity |-> quantity]

(* Mutant: a retransmission is entered again. *)
enter_Again(entry, client, msg) ==
  LET record == Record(client, msg.ref, msg.side)
      check == check_enter(msg)
      id == entry.next_order_id
  IN  IF check.reject_reason # None
      THEN Translation([entry EXCEPT !.last_user_ref_num[client] = msg.ref],
                       [kind |-> "REJECTED", id |-> 0, record |-> record], None)
      ELSE Translation(Assigned(entry, client, msg.ref, record),
                       [kind |-> "ORDER_ENTERED", id |-> id, record |-> record],
                       NewOrder(id, client, check, msg.quantity))

(* Enter Order: a used UserRefNum is a retransmission; any other is        *)
(* consumed, whether the order is accepted or rejected.                    *)
enter_(entry, client, msg) ==
  LET record == Record(client, msg.ref, msg.side)
      check == check_enter(msg)
      id == entry.next_order_id
  IN  IF Used(entry, client, msg.ref) THEN Ignored(entry)
      ELSE IF check.reject_reason # None
      THEN Translation([entry EXCEPT !.last_user_ref_num[client] = msg.ref],
                       [kind |-> "REJECTED", id |-> 0, record |-> record], None)
      ELSE Translation(Assigned(entry, client, msg.ref, record),
                       [kind |-> "ORDER_ENTERED", id |-> id, record |-> record],
                       NewOrder(id, client, check, msg.quantity))

(* Cancel Order: only the engine knows whether the order is still there. *)
cancel_(entry, client, msg) ==
  LET order == entry.orders[client][msg.ref]
  IN  IF order = None THEN Ignored(entry)
      ELSE Translation(entry, None, CancelOrder(order.id, client, msg.quantity))

(* Replace Order: an unknown original or a used UserRefNum is ignored,     *)
(* invalid details cancel the original, and neither consumes the number.   *)
replace_(entry, client, msg) ==
  LET orig == entry.orders[client][msg.orig_ref]
      check == check_replace(msg, orig.record.side)
      record == Record(client, msg.ref, orig.record.side)
      id == entry.next_order_id
  IN  IF orig = None \/ Used(entry, client, msg.ref) THEN Ignored(entry)
      ELSE IF ~ check.valid
      THEN Translation(entry, None, CancelOrder(orig.id, client, 0))
      ELSE Translation(Assigned(entry, client, msg.ref, record),
                       [kind |-> "ORDER_REPLACING", id |-> id, record |-> record],
                       [type |-> "REPLACE", id |-> orig.id, new_id |-> id, client |-> client,
                        price |-> check.price, quantity |-> msg.quantity, tif |-> check.tif])

translate(entry, client, msg) ==
  CASE msg.type = "ENTER_ORDER"   -> enter_(entry, client, msg)
    [] msg.type = "CANCEL_ORDER"  -> cancel_(entry, client, msg)
    [] msg.type = "REPLACE_ORDER" -> replace_(entry, client, msg)
=============================================================================
