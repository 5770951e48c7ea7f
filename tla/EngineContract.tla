--------------------------- MODULE EngineContract ---------------------------
(***************************************************************************)
(* The terms in which the proofs about the exchange use those about its    *)
(* engine: the inductive invariant of the book, the open shares of all     *)
(* orders, and who has an order there.                                     *)
(***************************************************************************)
EXTENDS Orderbook

(* The invariant of the book. *)
IInv == TypeOK /\ BookConsistent /\ NotCrossed /\ RestIsSafe /\ LiabilityKept

(* The open shares of every order. *)
Opens == [id \in OrderIds |-> OpenShares(id)]

(* The engine has the order, of this client. *)
HeldBy(id, c) ==
  \/ book.orders[id] # NoOrder /\ book.orders[id].client = c
  \/ match # NoRequest /\ match.id = id /\ match.client = c
=============================================================================
