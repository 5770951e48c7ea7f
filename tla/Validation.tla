------------------------------ MODULE Validation ------------------------------
(***************************************************************************)
(* src/infra/validation.hpp: which OUCH messages the gateway lets through  *)
(* and what their fields become for the engine.  Pure functions.           *)
(*                                                                         *)
(* A field that only has to be at its default is two-valued, and the       *)
(* options the book does not implement are one field, `option', that says  *)
(* which group of them is away from its default.                           *)
(***************************************************************************)
EXTENDS Naturals, Sequences, FiniteSetsExt

CONSTANTS
  MIN_PRICE, MAX_PRICE,  \* PriceBand, in cents
  MaxQuantity,           \* kOuchMaxQuantity
  TicksPerCent,          \* kOuchTicksPerCent: OUCH prices are in ticks
  MaxLimitPrice,         \* kOuchMaxLimitPrice, in ticks
  MarketPriceFloor,      \* kOuchMarketPriceFloor, in ticks
  None                   \* std::nullopt

(* Mutant: the band is open at its upper end. *)
to_engine_priceOpenBand(ouch_price) ==
  IF ouch_price >= MarketPriceFloor THEN [type |-> "MARKET", price |-> 0]
  ELSE IF ouch_price > MaxLimitPrice \/ ouch_price % TicksPerCent # 0 THEN None
  ELSE LET cents == ouch_price \div TicksPerCent
       IN  IF cents < MIN_PRICE \/ cents > MAX_PRICE + 1 THEN None
           ELSE [type |-> "LIMIT", price |-> cents]

(* The order type a price asks for, and the price in cents. *)
to_engine_price(ouch_price) ==
  IF ouch_price >= MarketPriceFloor THEN [type |-> "MARKET", price |-> 0]
  ELSE IF ouch_price > MaxLimitPrice \/ ouch_price % TicksPerCent # 0 THEN None
  ELSE LET cents == ouch_price \div TicksPerCent
       IN  IF cents < MIN_PRICE \/ cents > MAX_PRICE THEN None
           ELSE [type |-> "LIMIT", price |-> cents]

to_engine_side(side) == IF side = "B" THEN "BID" ELSE IF side = "S" THEN "ASK" ELSE None

to_engine_tif(tif) == IF tif = "0" THEN "DAY" ELSE IF tif = "3" THEN "IOC" ELSE None

valid_quantity(quantity) == quantity > 0 /\ quantity <= MaxQuantity

unsupported_option_reason(m) ==
  CASE m.option = "min_qty"   -> "InvalidMinQuantity"
    [] m.option = "max_floor" -> "InvalidMaxFloor"
    [] m.option = "peg"       -> "InvalidPegType"
    [] m.option = "other"     -> "Other"
    [] m.option = "default"   -> None

(* The tests an Enter Order has to pass, in the order they are made: the   *)
(* reject code of each, unless it passes.                                  *)
Unless(passed, reason) == IF passed THEN None ELSE reason
EnterTests(m) == <<
  Unless(to_engine_side(m.side) # None,       "InvalidSide"),
  Unless(valid_quantity(m.quantity),          "InvalidQuantity"),
  Unless(to_engine_price(m.price) # None,     "InvalidPrice"),
  Unless(to_engine_tif(m.tif) # None,         "Other"),
  Unless(m.display = "Y",                     "InvalidDisplay"),
  Unless(m.capacity \in {"A", "P", "R", "O"}, "Other"),
  Unless(m.iso = "N",                         "IsoNotAllowed"),
  Unless(m.cross_type = "N",                  "InvalidCrossOrder"),
  unsupported_option_reason(m) >>

(* What an accepted Enter Order becomes, or why it is rejected. *)
check_enter(m) ==
  LET tests  == EnterTests(m)
      failed == {i \in DOMAIN tests : tests[i] # None}
  IN  IF failed # {} THEN [reject_reason |-> tests[Min(failed)]]
      ELSE [reject_reason |-> None, side |-> to_engine_side(m.side),
            order_type |-> to_engine_price(m.price).type,
            price |-> to_engine_price(m.price).price, tif |-> to_engine_tif(m.tif)]

(* A Replace that fails a test is no reject: it cancels.  It names a side  *)
(* only if the tag was sent.                                               *)
check_replace(m, orig_side) ==
  LET price == to_engine_price(m.price)
  IN  IF /\ valid_quantity(m.quantity)
         /\ price # None
         /\ price.type = "LIMIT"
         /\ to_engine_tif(m.tif) # None
         /\ m.display = "Y" /\ m.iso = "N"
         /\ m.side \in {None, orig_side}
         /\ unsupported_option_reason(m) = None
      THEN [valid |-> TRUE, price |-> price.price, tif |-> to_engine_tif(m.tif)]
      ELSE [valid |-> FALSE]
=============================================================================
