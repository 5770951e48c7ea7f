----------------------------- MODULE GatewayEnds -----------------------------
(***************************************************************************)
(* The two ends of the gateway, without its threads: OrderEntry makes      *)
(* requests of the messages of the clients, OuchResponder makes messages   *)
(* to the clients of the notes of the one and the events of the engine.    *)
(***************************************************************************)
EXTENDS EngineTypes

CONSTANTS
  UserRefNums,        \* 1..n
  Messages,           \* the OUCH messages that clients may send
  TicksPerCent, MaxLimitPrice, MarketPriceFloor,
  None                \* std::nullopt

(* The fields of a message have the types they are decoded to; what is     *)
(* left of them to check is the gateway's.                                 *)
ASSUME MessagesAssumption ==
  \A msg \in Messages :
    /\ msg.type \in {"ENTER_ORDER", "CANCEL_ORDER", "REPLACE_ORDER"}
    /\ msg.ref \in UserRefNums
    /\ msg.type = "CANCEL_ORDER" => msg.quantity \in CancelQuantities
    /\ msg.type # "CANCEL_ORDER" => msg.quantity \in Nat /\ msg.price \in Nat
    /\ msg.type = "REPLACE_ORDER" => msg.orig_ref \in UserRefNums
ASSUME CancelAssumption == 0 \in CancelQuantities
ASSUME NumbersAssumption ==
  UserRefNums \subseteq Nat /\ OrderIds \subseteq Nat /\ TicksPerCent \in Nat \ {0}

(* An order OrderEntry knows and the note it sends of it, with its         *)
(* OrderRecord; an order OuchResponder knows, and what it sends of it.     *)
OrderRecord == [client : Clients, ref : UserRefNums, side : {"B", "S"}]
KnownOrder  == [id : OrderIds, record : OrderRecord]
KnownNote   == [kind : {"ORDER_ENTERED", "ORDER_REPLACING"}, id : OrderIds,
                record : OrderRecord]
LiveOrder   == [record : OrderRecord, open : Nat]
Message     == [client : Clients, type : EngineEventTypes, ref : UserRefNums,
                orig_ref : UserRefNums, quantity : Nat]
ASSUME NoneAssumption ==
  /\ None \notin KnownOrder /\ None \notin Request
  /\ None \notin KnownNote /\ None \notin EngineEvent
  /\ None \notin LiveOrder /\ None \notin Message /\ None \notin Nat
  /\ None \notin {"InvalidSide", "InvalidQuantity", "InvalidPrice", "Other"}

Entry     == INSTANCE OrderEntry
Responder == INSTANCE OuchResponder
-----------------------------------------------------------------------------
(* What a response tells its client about its orders. *)
Told(v, response) ==
  IF response = None THEN v
  ELSE LET mine == v[response.client]
           q == response.quantity
       IN  [v EXCEPT ![response.client] =
              CASE response.type \in {"ACCEPTED", "REJECTED"} ->
                     [mine EXCEPT ![response.ref] = q]
                [] response.type = "REPLACED" ->
                     [mine EXCEPT ![response.orig_ref] = 0, ![response.ref] = q]
                [] response.type \in {"CANCELED", "EXECUTED"} ->
                     [mine EXCEPT ![response.ref] = @ - q]]

(* What the responder holds and the clients were told, after a note and    *)
(* after a message of the engine.                                          *)
Noted(s, note) ==
  LET answer == Responder!on_note(s.orders, note)
  IN  [orders |-> answer.orders, view |-> Told(s.view, answer.response)]
Heard(s, e) ==
  LET answer == Responder!on_event(s.orders, e)
  IN  IF e.type \notin EngineEventTypes THEN s
      ELSE [orders |-> answer.orders, view |-> Told(s.view, answer.response)]

(* The same after all of them. *)
AfterNotes(s, ns) ==
  LET after[i \in 0..Len(ns)] == IF i = 0 THEN s ELSE Noted(after[i - 1], ns[i])
  IN  after[Len(ns)]
AfterEvents(s, es) ==
  LET after[i \in 0..Len(es)] == IF i = 0 THEN s ELSE Heard(after[i - 1], es[i])
  IN  after[Len(es)]
=============================================================================
