----------------------------- MODULE EngineTypes -----------------------------
(***************************************************************************)
(* What the gateway and the engine say to each other, and the engine to    *)
(* the subscribers of the market data: src/infra/communication_proto.hpp   *)
(* and the messages of src/infra/itch_proto.hpp that the book sends.       *)
(***************************************************************************)
EXTENDS Integers, Sequences, FiniteSets

CONSTANTS
  Clients,              \* ClientIds
  OrderIds,             \* OrderIds the gateway may assign
  MIN_PRICE, MAX_PRICE, \* the ladder's ends
  MaxQuantity,          \* kOuchMaxQuantity: the gateway rejects larger sizes
  CancelQuantities,     \* sizes a cancel may ask for, which nobody checks
  MatchNumbers          \* match numbers wrap here (2^64 in the code)

ASSUME PriceAssumption ==
  MIN_PRICE \in Nat /\ MAX_PRICE \in Nat /\ MIN_PRICE <= MAX_PRICE
ASSUME QuantityAssumption == MaxQuantity \in Nat /\ CancelQuantities \subseteq Nat
ASSUME OrderIdAssumption == IsFiniteSet(OrderIds)
ASSUME MatchAssumption == MatchNumbers \in Nat \ {0}

Sides      == {"BID", "ASK"}
Prices     == MIN_PRICE..MAX_PRICE
Quantities == 1..MaxQuantity

(* EngineRequest, with the values the gateway lets through: a limit order  *)
(* is priced on the ladder, a market order has price 0, sizes to enter or  *)
(* to replace with are valid.  The size of a cancel is not checked.        *)
NewRequest     == [type : {"NEW"}, id : OrderIds, client : Clients, side : Sides,
                   price : Prices, quantity : Quantities,
                   order_type : {"LIMIT"}, tif : {"DAY", "IOC"}]
MarketRequest  == [type : {"NEW"}, id : OrderIds, client : Clients, side : Sides,
                   price : {0}, quantity : Quantities,
                   order_type : {"MARKET"}, tif : {"DAY", "IOC"}]
CancelRequest  == [type : {"CANCEL"}, id : OrderIds, client : Clients,
                   quantity : CancelQuantities]
ReplaceRequest == [type : {"REPLACE"}, id : OrderIds, new_id : OrderIds,
                   client : Clients, price : Prices, quantity : Quantities,
                   tif : {"DAY", "IOC"}]
Request == NewRequest \cup MarketRequest \cup CancelRequest \cup ReplaceRequest

(* The id of the order a request creates. *)
NewId(req) == IF req.type = "REPLACE" THEN req.new_id ELSE req.id

(* EngineEvents are for the gateway, ITCH messages for the subscribers of  *)
(* the market data feed.                                                   *)
EngineEventTypes == {"ACCEPTED", "REJECTED", "CANCELED", "EXECUTED", "REPLACED"}
EngineEvent ==
  [type : EngineEventTypes,
   id : OrderIds, orig_id : OrderIds, client : Clients, price : Prices \cup {0},
   quantity : 0..MaxQuantity, reason : {"none", "F", "U", "I", "R", "A"},
   match_number : 0..(MatchNumbers - 1)]

ITCH ==
  [type : {"Add"}, id : OrderIds, side : Sides, shares : Quantities, price : Prices]
  \cup [type : {"Executed", "Cancel"}, id : OrderIds, shares : Quantities]
  \cup [type : {"Delete"}, id : OrderIds]
  \cup [type : {"Replace"}, orig_id : OrderIds, id : OrderIds, shares : Quantities,
        price : Prices]

-----------------------------------------------------------------------------
(* How an event is read by those who count the shares of the orders.       *)

(* What an event leaves of the shares of its order. *)
LeftOpen(ev, shares) ==
  IF ev.type \in {"ACCEPTED", "REPLACED"} THEN ev.quantity
  ELSE IF ev.type \in {"CANCELED", "EXECUTED"} THEN shares - ev.quantity ELSE 0

(* An event tells what became of the shares: of an order that had some, or *)
(* of one of the new ones.                                                 *)
Reports(ev, old, new, created) ==
  /\ ev \in EngineEvent
  /\ \A id \in OrderIds :
       new[id] = IF id = ev.id THEN LeftOpen(ev, old[id])
                 ELSE IF ev.type = "REPLACED" /\ id = ev.orig_id THEN 0 ELSE old[id]
  /\ ev.type \in {"ACCEPTED", "REPLACED"} => ev.quantity # 0
  /\ ev.type = "REPLACED" => ev.id # ev.orig_id
  /\ ev.type \in {"CANCELED", "EXECUTED"} => ev.quantity # 0 /\ ev.quantity <= old[ev.id]
  /\ \A id \in {ev.id, ev.orig_id} : old[id] # 0 \/ id \in created
=============================================================================
