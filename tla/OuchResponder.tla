---------------------------- MODULE OuchResponder ----------------------------
(***************************************************************************)
(* src/exchange/server/src/ouch_responder.cpp: notes and engine events     *)
(* become OUCH messages for the owner of the order.                        *)
(*                                                                         *)
(* The state is orders_: the record and the open shares of every order     *)
(* that the events so far leave alive.  A response keeps the fields that   *)
(* tell a client what became of its order.                                 *)
(***************************************************************************)
EXTENDS Naturals

CONSTANTS OrderIds, None

Empty == [id \in OrderIds |-> None]

Response(type, record, quantity) ==
  [client |-> record.client, type |-> type, ref |-> record.ref, orig_ref |-> record.ref,
   quantity |-> quantity]

(* The new orders_ and the message to send, if any. *)
Answered(orders, response) == [orders |-> orders, response |-> response]

on_note(orders, note) ==
  IF note.kind = "REJECTED" THEN Answered(orders, Response("REJECTED", note.record, 0))
  ELSE Answered([orders EXCEPT ![note.id] = [record |-> note.record, open |-> 0]], None)

(* Mutant: the record of a filled order is kept. *)
reduce_Keeps(orders, id, shares) ==
  [orders EXCEPT ![id].open = IF shares < @ THEN @ - shares ELSE 0]

(* The open shares go down, and an order without any is forgotten. *)
reduce_(orders, id, shares) ==
  IF shares < orders[id].open THEN [orders EXCEPT ![id].open = @ - shares]
  ELSE [orders EXCEPT ![id] = None]

(* ACCEPTED carries the shares that are open. *)
Accepted(orders, event) ==
  Answered([orders EXCEPT ![event.id].open = event.quantity],
           Response("ACCEPTED", orders[event.id].record, event.quantity))

(* REPLACED names the original by its UserRefNum and ends it. *)
Replaced(orders, event) ==
  LET orig == orders[event.orig_id]
  IN  IF orig = None THEN Answered(orders, None)
      ELSE Answered([orders EXCEPT ![event.orig_id] = None, ![event.id].open = event.quantity],
                    [Response("REPLACED", orders[event.id].record, event.quantity)
                       EXCEPT !.orig_ref = orig.record.ref])

(* CANCELED and EXECUTED carry the shares that go. *)
Reduced(orders, event) ==
  Answered(reduce_(orders, event.id, event.quantity),
           Response(event.type, orders[event.id].record, event.quantity))

(* The engine had no room for the order. *)
Rejected(orders, event) ==
  Answered([orders EXCEPT ![event.id] = None],
           Response("REJECTED", orders[event.id].record, 0))

on_event(orders, event) ==
  IF orders[event.id] = None THEN Answered(orders, None)
  ELSE CASE event.type = "ACCEPTED" -> Accepted(orders, event)
         [] event.type = "REPLACED" -> Replaced(orders, event)
         [] event.type \in {"CANCELED", "EXECUTED"} -> Reduced(orders, event)
         [] event.type = "REJECTED" -> Rejected(orders, event)
=============================================================================
