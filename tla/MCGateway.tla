------------------------------ MODULE MCGateway ------------------------------
(* Gateway for TLC: a ladder of one price, 1 cent; two ticks to the cent;   *)
(* market orders from 5 ticks on.                                           *)
EXTENDS Gateway, TLC

(* The messages have valid fields but for their price: 2 is on the ladder, *)
(* 4 above it, and 5 asks for a market order.                              *)
Enter(r, s, q, p) ==
  [type |-> "ENTER_ORDER", ref |-> r, side |-> s, quantity |-> q, price |-> p, tif |-> "0",
   display |-> "Y", capacity |-> "A", iso |-> "N", cross_type |-> "N", option |-> "default"]
Replace(o, r, q, p) ==
  [type |-> "REPLACE_ORDER", orig_ref |-> o, ref |-> r, side |-> None, quantity |-> q,
   price |-> p, tif |-> "0", display |-> "Y", iso |-> "N", option |-> "default"]
Cancel(r, q) == [type |-> "CANCEL_ORDER", ref |-> r, quantity |-> q]

Symmetry == Permutations(Clients)

MCMessages ==
  {Enter(r, "B", 2, 2) : r \in UserRefNums}
  \cup {Enter(r, "S", 1, p) : r \in UserRefNums, p \in {2, 4, 5}}
  \cup {Replace(o, r, 1, p) : o \in UserRefNums, r \in UserRefNums, p \in {2, 4}}
  \cup {Cancel(r, q) : r \in UserRefNums, q \in {0, 1}}
============================================================================
