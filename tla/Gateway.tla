------------------------------- MODULE Gateway -------------------------------
(***************************************************************************)
(* The path of an order through the three threads of the exchange:         *)
(*                                                                         *)
(*   inbound    translates a message, pushes its note and then its request *)
(*   matching   takes requests one ahead and processes them (Orderbook)    *)
(*   outbound   drains the notes, takes an event, drains the notes again   *)
(*              and answers it                                             *)
(*                                                                         *)
(* The rings between them are the bounded queues that RingBuffer is shown  *)
(* to implement.  Sessions are left out: every client is logged in.        *)
(***************************************************************************)
EXTENDS Orderbook, GatewayEnds

CONSTANTS
  MaxMessages,        \* bound: messages received that had an effect
  NotesCapacity, InboundCapacity, OutboundCapacity,
  kOutboundBatch      \* events the outbound thread takes between two flushes

VARIABLES
  entry,              \* OrderEntry
  received,           \* messages received, up to MaxMessages
  translation,        \* what the inbound thread still has to push
  notes,              \* notes_
  inbound_ring,
  cur, nxt,           \* handleMatching(): the request to process and the one after
  matching_pc,        \* where handleMatching() is
  outbound_ring,
  outbound_pc,        \* where outbound_() is
  taken,              \* events taken since the last flush
  event,              \* the event the outbound thread holds
  responder,          \* OuchResponder's orders_
  view                \* what the responses told the clients: open shares per UserRefNum

inbound_vars  == <<entry, received, translation>>
matching_vars == <<cur, nxt, matching_pc>>
outbound_vars == <<outbound_pc, taken, event, responder, view>>
ring_vars     == <<notes, inbound_ring, outbound_ring>>
gwvars == <<vars, inbound_vars, matching_vars, outbound_vars, ring_vars>>

Pushed == [note |-> None, request |-> None]

GWInit ==
  /\ Init
  /\ entry = Entry!Empty
  /\ received = 0
  /\ translation = Pushed
  /\ notes = <<>> /\ inbound_ring = <<>> /\ outbound_ring = <<>>
  /\ cur = None /\ nxt = None /\ matching_pc = "take"
  /\ outbound_pc = "drain" /\ taken = 0 /\ event = None
  /\ responder = Responder!Empty
  /\ view = [c \in Clients |-> [r \in UserRefNums |-> None]]
-----------------------------------------------------------------------------
(* The inbound thread.                                                     *)

(* handle_ouch_() up to its first push, for a message that is not ignored, *)
(* while the instance has OrderIds.                                         *)
receive(client, msg) ==
  LET t == Entry!translate(entry, client, msg)
  IN  /\ translation = Pushed
      /\ received < MaxMessages
      /\ t # Entry!Ignored(entry)
      /\ t.entry.next_order_id - 1 \in OrderIds \cup {0}
      /\ entry' = t.entry
      /\ received' = received + 1
      /\ translation' = [note |-> t.note, request |-> t.request]
      /\ UNCHANGED <<vars, matching_vars, outbound_vars, ring_vars>>

(* push_note_() spins until the note ring has room. *)
push_note_ ==
  /\ translation.note # None
  /\ Len(notes) < NotesCapacity
  /\ notes' = Append(notes, translation.note)
  /\ translation' = [translation EXCEPT !.note = None]
  /\ UNCHANGED <<vars, entry, received, matching_vars, outbound_vars, inbound_ring, outbound_ring>>

(* Mutant: the request does not wait for its note. *)
push_requestFirst ==
  /\ translation.request # None
  /\ Len(inbound_ring) < InboundCapacity
  /\ inbound_ring' = Append(inbound_ring, translation.request)
  /\ translation' = [translation EXCEPT !.request = None]
  /\ UNCHANGED <<vars, entry, received, matching_vars, outbound_vars, notes, outbound_ring>>

(* The request follows its note, when the request ring has room. *)
push_request ==
  /\ translation.note = None /\ translation.request # None
  /\ Len(inbound_ring) < InboundCapacity
  /\ inbound_ring' = Append(inbound_ring, translation.request)
  /\ translation' = Pushed
  /\ UNCHANGED <<vars, entry, received, matching_vars, outbound_vars, notes, outbound_ring>>
-----------------------------------------------------------------------------
(* The matching thread: handleMatching().                                  *)

(* cur is empty: pop, and start over when there is nothing. *)
take ==
  /\ matching_pc = "take"
  /\ inbound_ring # <<>>
  /\ cur' = Head(inbound_ring)
  /\ inbound_ring' = Tail(inbound_ring)
  /\ matching_pc' = "execute"
  /\ UNCHANGED <<vars, nxt, inbound_vars, outbound_vars, notes, outbound_ring>>

(* Pop the request after it, if it is there already, for the prefetch, and *)
(* run executeRequest() up to the point where process() can be held up.    *)
execute ==
  /\ matching_pc = "execute"
  /\ \/ inbound_ring = <<>> /\ nxt' = None /\ UNCHANGED inbound_ring
     \/ /\ inbound_ring # <<>>
        /\ nxt' = Head(inbound_ring)
        /\ inbound_ring' = Tail(inbound_ring)
  /\ process(cur)
  /\ matching_pc' = "executing"
  /\ UNCHANGED <<cur, inbound_vars, outbound_vars, notes, outbound_ring>>

(* match() and the market data ring are the matching thread's own. *)
matching ==
  /\ matching_pc = "executing"
  /\ match_step \/ match_done \/ publish
  /\ UNCHANGED <<inbound_vars, matching_vars, outbound_vars, ring_vars>>

(* emit() spins until the outbound ring has room. *)
push_event ==
  /\ matching_pc = "executing"
  /\ emit
  /\ Len(outbound_ring) < OutboundCapacity
  /\ outbound_ring' = Append(outbound_ring, Head(out))
  /\ UNCHANGED <<inbound_vars, matching_vars, outbound_vars, notes, inbound_ring>>

(* Mutant: the request popped ahead is dropped. *)
advanceDrops ==
  /\ matching_pc = "executing" /\ Idle
  /\ cur' = None /\ nxt' = None
  /\ matching_pc' = "take"
  /\ UNCHANGED <<vars, inbound_vars, outbound_vars, ring_vars>>

(* process() returns, and the request popped ahead is next. *)
advance ==
  /\ matching_pc = "executing" /\ Idle
  /\ cur' = nxt /\ nxt' = None
  /\ matching_pc' = IF nxt = None THEN "take" ELSE "execute"
  /\ UNCHANGED <<vars, inbound_vars, outbound_vars, ring_vars>>
-----------------------------------------------------------------------------
(* The outbound thread: outbound_().                                       *)

(* drain_notes(): before a batch, and again once an event is taken. *)
drain_notes ==
  LET answer == Responder!on_note(responder, Head(notes))
  IN  /\ outbound_pc \in {"drain", "respond"}
      /\ notes # <<>>
      /\ notes' = Tail(notes)
      /\ responder' = answer.orders
      /\ view' = Told(view, answer.response)
      /\ UNCHANGED <<vars, inbound_vars, matching_vars, outbound_pc, taken, event,
                     inbound_ring, outbound_ring>>

begin_batch ==
  /\ outbound_pc = "drain" /\ notes = <<>>
  /\ outbound_pc' = "batch" /\ taken' = 0
  /\ UNCHANGED <<vars, inbound_vars, matching_vars, event, responder, view, ring_vars>>

take_event ==
  /\ outbound_pc = "batch" /\ taken < kOutboundBatch
  /\ outbound_ring # <<>>
  /\ event' = Head(outbound_ring)
  /\ outbound_ring' = Tail(outbound_ring)
  /\ taken' = taken + 1
  /\ outbound_pc' = "respond"
  /\ UNCHANGED <<vars, inbound_vars, matching_vars, responder, view, notes, inbound_ring>>

respond ==
  LET answer == Responder!on_event(responder, event)
  IN  /\ outbound_pc = "respond" /\ notes = <<>>
      /\ responder' = answer.orders
      /\ view' = Told(view, answer.response)
      /\ event' = None
      /\ outbound_pc' = "batch"
      /\ UNCHANGED <<vars, inbound_vars, matching_vars, taken, ring_vars>>

(* The batch is full or the ring is empty: flush_() and start over. *)
end_batch ==
  /\ outbound_pc = "batch"
  /\ taken = kOutboundBatch \/ outbound_ring = <<>>
  /\ outbound_pc' = "drain"
  /\ taken' = 0
  /\ UNCHANGED <<vars, inbound_vars, matching_vars, event, responder, view, ring_vars>>
-----------------------------------------------------------------------------
Receive  == \E client \in Clients, msg \in Messages : receive(client, msg)
Push     == push_note_ \/ push_request
Match    == take \/ execute \/ matching \/ push_event \/ advance
Outbound == drain_notes \/ begin_batch \/ take_event \/ respond \/ end_batch

GWNext == Receive \/ Push \/ Match \/ Outbound

GWSpec == GWInit /\ [][GWNext]_gwvars

(* The threads are never blocked and never end while the exchange runs: a  *)
(* full ring is waited for in a loop.  Messages may stop coming.           *)
GWFairSpec == GWSpec /\ WF_gwvars(Push) /\ WF_gwvars(Match) /\ WF_gwvars(Outbound)
-----------------------------------------------------------------------------
(* Requests the engine has not begun with. *)
Waiting == {inbound_ring[i] : i \in DOMAIN inbound_ring}
             \cup ({translation.request, nxt} \ {None})
             \cup (IF matching_pc = "executing" THEN {} ELSE {cur} \ {None})

(* The engine inside the exchange is the Orderbook of its own module: the  *)
(* gateway sends it nothing but Requests, so a price it indexes the ladder *)
(* with is on it and no size is 0.                                         *)
EngineSpec == Spec

(* A new order has an id that no order of the book and no other request in *)
(* flight has: enter() and replace() never meet an id that is taken, which *)
(* they would ignore without an answer.                                    *)
FreshIds ==
  \A req \in Waiting : req.type # "CANCEL" =>
    /\ book.orders[NewId(req)] = NoOrder
    /\ match # NoRequest => match.id # NewId(req)
    /\ \A other \in Waiting :
         (other.type # "CANCEL" /\ NewId(other) = NewId(req)) => other = req

(* The record an event needs is always there when it is answered, although *)
(* it travelled in a queue of its own: on_event() never takes one of its   *)
(* silent returns, and the answer goes to the owner of the order.          *)
EventHasRecord ==
  (outbound_pc = "respond" /\ notes = <<>>) =>
    /\ responder[event.id] # None
    /\ responder[event.orig_id] # None
    /\ responder[event.id].record.client = event.client

(* Everything on its way to the outbound thread and, among what the engine *)
(* has not sent yet, to the subscribers of the market data.                *)
InFlight == (IF event = None THEN <<>> ELSE <<event>>) \o outbound_ring \o out

Replayed == AfterEvents(AfterNotes([orders |-> responder, view |-> view], notes), InFlight)

(* Once what is in flight is answered, the messages a client was sent add  *)
(* up to the open shares of each of its orders in the book, whatever was   *)
(* filled, canceled, replaced or rejected meanwhile.  The responder holds  *)
(* the same number, and has forgotten the orders that are over.            *)
ClientsKnowTheBook ==
  \A c \in Clients, r \in UserRefNums :
    LET order == entry.orders[c][r]
        told  == Replayed.view[c][r]
        live  == Replayed.orders[order.id]
    IN  order # None =>
          \/ told = None /\ OpenShares(order.id) = 0
          \/ told = 0 /\ OpenShares(order.id) = 0 /\ live = None
          \/ told # 0 /\ told = OpenShares(order.id) /\ live.open = told

(* Every order that rests can be canceled: its owner has a UserRefNum that *)
(* the gateway translates to its id.                                       *)
OrdersStayNamed ==
  \A id \in Live(book) :
    \E r \in UserRefNums : LET order == entry.orders[book.orders[id].client][r]
                           IN  order # None /\ order.id = id

(* Every Enter Order with a new UserRefNum is answered, as accepted or as  *)
(* rejected: the rings fill up, but no cycle of full rings stops the       *)
(* exchange, and no request is lost between the threads.                   *)
Entered(c, r) == /\ translation.note # None
                 /\ translation.note.kind \in {"ORDER_ENTERED", "REJECTED"}
                 /\ translation.note.record.client = c /\ translation.note.record.ref = r
EnterAnswered ==
  \A c \in Clients, r \in UserRefNums : Entered(c, r) ~> (view[c][r] # None)
=============================================================================
