---------------------------- MODULE MessageLayouts ----------------------------
(***************************************************************************)
(* The fields of every message, in wire order: core() and tags() of the    *)
(* OUCH structs (src/infra/ouch_proto.hpp), core() of the ITCH structs     *)
(* (src/infra/itch_proto.hpp) and the two login packets of                 *)
(* src/infra/soupbintcp_proto.hpp.  The first field of a message is its    *)
(* type; a login has none, its packet has.                                 *)
(***************************************************************************)
EXTENDS WireCodec

CONSTANT kSoupNumericLen   \* 20

Char == Num(1)             \* char, uint8_t or an enum of them

OuchTag ==
  [SECONDARY_ORD_REF_NUM |-> 1, FIRM |-> 2, MIN_QTY |-> 3, CUSTOMER_TYPE |-> 4,
   MAX_FLOOR |-> 5, PRICE_TYPE |-> 6, PEG_OFFSET |-> 7, DISCRETION_PRICE |-> 9,
   DISCRETION_PRICE_TYPE |-> 10, DISCRETION_PEG_OFFSET |-> 11, POST_ONLY |-> 12,
   RANDOM_RESERVES |-> 13, ROUTE |-> 14, EXPIRE_TIME |-> 15, TRADE_NOW |-> 16,
   HANDLE_INST |-> 17, BBO_WEIGHT_INDICATOR |-> 18, DISPLAY_QUANTITY |-> 22,
   DISPLAY_PRICE |-> 23, GROUP_ID |-> 24, SHARES_LOCATED |-> 25, LOCATE_BROKER |-> 26,
   SIDE |-> 27, USER_REF_IDX |-> 28, AIQ_STRATEGY |-> 29, AIQ_GROUP_ID |-> 30]

(* The type of an optional field is the same in every message that has it. *)
TagField ==
  [FIRM |-> Raw(4), MIN_QTY |-> Num(4), CUSTOMER_TYPE |-> Char, MAX_FLOOR |-> Num(4),
   PRICE_TYPE |-> Char, PEG_OFFSET |-> Num(4), DISCRETION_PRICE |-> Num(8),
   DISCRETION_PRICE_TYPE |-> Char, DISCRETION_PEG_OFFSET |-> Num(4), POST_ONLY |-> Char,
   RANDOM_RESERVES |-> Num(4), ROUTE |-> Raw(4), EXPIRE_TIME |-> Num(4), TRADE_NOW |-> Char,
   HANDLE_INST |-> Char, BBO_WEIGHT_INDICATOR |-> Char, GROUP_ID |-> Num(2),
   SHARES_LOCATED |-> Char, LOCATE_BROKER |-> Raw(4), SIDE |-> Char, USER_REF_IDX |-> Char,
   AIQ_STRATEGY |-> Char, AIQ_GROUP_ID |-> Raw(2)]

ClOrdId == Raw(14)
Symbol == Raw(8)
-----------------------------------------------------------------------------
(* Client to exchange.  type is the letter of the message in ASCII.        *)
OuchEnterOrder ==
  [type |-> 79,
   core |-> <<Char, Num(4), Char, Num(4), Symbol, Num(8), Char, Char, Char, Char, Char,
              ClOrdId>>,
   tags |-> <<"FIRM", "MIN_QTY", "CUSTOMER_TYPE", "MAX_FLOOR", "PRICE_TYPE", "PEG_OFFSET",
              "DISCRETION_PRICE", "DISCRETION_PRICE_TYPE", "DISCRETION_PEG_OFFSET", "POST_ONLY",
              "RANDOM_RESERVES", "EXPIRE_TIME", "TRADE_NOW", "HANDLE_INST", "GROUP_ID",
              "SHARES_LOCATED", "LOCATE_BROKER", "USER_REF_IDX", "AIQ_STRATEGY",
              "AIQ_GROUP_ID">>]

OuchReplaceOrder ==
  [type |-> 85,
   core |-> <<Char, Num(4), Num(4), Num(4), Num(8), Char, Char, Char, ClOrdId>>,
   tags |-> <<"MIN_QTY", "MAX_FLOOR", "PRICE_TYPE", "PEG_OFFSET", "DISCRETION_PRICE",
              "DISCRETION_PRICE_TYPE", "DISCRETION_PEG_OFFSET", "POST_ONLY", "RANDOM_RESERVES",
              "EXPIRE_TIME", "TRADE_NOW", "HANDLE_INST", "SHARES_LOCATED", "LOCATE_BROKER",
              "SIDE", "USER_REF_IDX", "AIQ_STRATEGY", "AIQ_GROUP_ID">>]

OuchCancelOrder ==
  [type |-> 88, core |-> <<Char, Num(4), Num(4)>>, tags |-> <<"USER_REF_IDX">>]
-----------------------------------------------------------------------------
(* Exchange to client. *)
OuchOrderAccepted ==
  [type |-> 65,
   core |-> <<Char, Num(8), Num(4), Char, Num(4), Symbol, Num(8), Char, Char, Num(8), Char,
              Char, Char, Char, ClOrdId>>,
   tags |-> <<"FIRM", "MIN_QTY", "CUSTOMER_TYPE", "MAX_FLOOR", "PRICE_TYPE", "PEG_OFFSET",
              "DISCRETION_PRICE", "DISCRETION_PRICE_TYPE", "DISCRETION_PEG_OFFSET", "POST_ONLY",
              "RANDOM_RESERVES", "ROUTE", "EXPIRE_TIME", "TRADE_NOW", "HANDLE_INST",
              "BBO_WEIGHT_INDICATOR", "GROUP_ID", "SHARES_LOCATED", "USER_REF_IDX",
              "AIQ_STRATEGY", "AIQ_GROUP_ID">>]

OuchOrderReplaced ==
  [type |-> 85,
   core |-> <<Char, Num(8), Num(4), Num(4), Char, Num(4), Symbol, Num(8), Char, Char, Num(8),
              Char, Char, Char, Char, ClOrdId>>,
   tags |-> <<"FIRM", "MIN_QTY", "MAX_FLOOR", "PRICE_TYPE", "POST_ONLY", "EXPIRE_TIME",
              "TRADE_NOW", "HANDLE_INST", "BBO_WEIGHT_INDICATOR", "USER_REF_IDX",
              "AIQ_STRATEGY", "AIQ_GROUP_ID">>]

OuchOrderCanceled ==
  [type |-> 67, core |-> <<Char, Num(8), Num(4), Num(4), Char>>, tags |-> <<"USER_REF_IDX">>]

OuchOrderExecuted ==
  [type |-> 69,
   core |-> <<Char, Num(8), Num(4), Num(4), Num(8), Char, Num(8)>>,
   tags |-> <<"USER_REF_IDX">>]

OuchOrderRejected ==
  [type |-> 74, core |-> <<Char, Num(8), Num(4), Num(2), ClOrdId>>, tags |-> <<"USER_REF_IDX">>]
-----------------------------------------------------------------------------
(* Market data: fixed fields only, behind a common header whose time has   *)
(* six bytes.                                                              *)
ItchHeader == <<Char, Num(2), Num(2), Num(6)>>

Itch(type, fields) == [type |-> type, core |-> ItchHeader \o fields, tags |-> <<>>]

ItchAddOrder == Itch(65, <<Num(8), Char, Num(4), Symbol, Num(4)>>)

ItchOrderExecuted == Itch(69, <<Num(8), Num(4), Num(8)>>)

ItchOrderExecutedWithPrice == Itch(67, <<Num(8), Num(4), Num(8), Char, Num(4)>>)

ItchOrderCancel == Itch(88, <<Num(8), Num(4)>>)

ItchOrderDelete == Itch(68, <<Num(8)>>)

ItchOrderReplace == Itch(85, <<Num(8), Num(8), Num(4), Num(4)>>)

ItchTrade == Itch(80, <<Num(8), Char, Num(4), Symbol, Num(4), Num(8)>>)
-----------------------------------------------------------------------------
(* The type here is that of the SoupBinTCP packet. *)
SoupLoginRequest ==
  [type |-> 76, core |-> <<Raw(6), Raw(10), Raw(10), Dec(kSoupNumericLen)>>, tags |-> <<>>]

SoupLoginAccepted ==
  [type |-> 65, core |-> <<Raw(10), Dec(kSoupNumericLen)>>, tags |-> <<>>]
-----------------------------------------------------------------------------
(* Every message by the name of its member in the frames. *)
Layout ==
  [enter_order |-> OuchEnterOrder, replace_order |-> OuchReplaceOrder,
   cancel_order |-> OuchCancelOrder,
   order_accepted |-> OuchOrderAccepted, order_replaced |-> OuchOrderReplaced,
   order_canceled |-> OuchOrderCanceled, order_executed |-> OuchOrderExecuted,
   order_rejected |-> OuchOrderRejected,
   itch_add_order |-> ItchAddOrder, itch_order_executed |-> ItchOrderExecuted,
   itch_order_executed_with_price |-> ItchOrderExecutedWithPrice,
   itch_order_cancel |-> ItchOrderCancel, itch_order_delete |-> ItchOrderDelete,
   itch_order_replace |-> ItchOrderReplace, itch_trade |-> ItchTrade,
   login_request |-> SoupLoginRequest, login_accepted |-> SoupLoginAccepted]

(* The messages that a decoder knows. *)
Known ==
  [ouch_in        |-> {"enter_order", "replace_order", "cancel_order"},
   ouch_out       |-> {"order_accepted", "order_replaced", "order_canceled", "order_executed",
                       "order_rejected"},
   itch           |-> {"itch_add_order", "itch_order_executed", "itch_order_executed_with_price",
                       "itch_order_cancel", "itch_order_delete", "itch_order_replace",
                       "itch_trade"},
   login_request  |-> {"login_request"},
   login_accepted |-> {"login_accepted"}]

(* Where the fields of the core end: at Ends[name][i] for the i-th. *)
Ends ==
  [name \in DOMAIN Layout |->
     LET core == Layout[name].core
         end[i \in 0..Len(core)] == IF i = 0 THEN 0 ELSE end[i - 1] + core[i].w
     IN  [i \in 0..Len(core) |-> end[i]]]

(* WireSizer over the core. *)
CoreSize(name) == Ends[name][Len(Layout[name].core)]

(* The bytes of the i-th field of the core. *)
CoreBytes(name, bytes, i) == SubSeq(bytes, Ends[name][i - 1] + 1, Ends[name][i])
=============================================================================
