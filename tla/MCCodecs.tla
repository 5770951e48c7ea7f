------------------------------- MODULE MCCodecs -------------------------------
(***************************************************************************)
(* The messages and the bytes that Codecs is checked with.                 *)
(***************************************************************************)
EXTENDS Codecs

CONSTANTS
  Seeds,       \* a message is filled from a number
  MaxForeign,  \* bound: bytes of an appendage of another program
  Alphabet     \* bytes of it

(* A value for a field that differs from those of its neighbours. *)
Value(field, n) ==
  CASE field.kind = "num" -> n % (IF field.w = 1 THEN 256 ELSE 65536)
    [] field.kind = "raw" -> [i \in 1..field.w |-> (n + i) % 256]
    [] field.kind = "dec" -> n % NumericLimit

Message(name, seed, tags) ==
  LET core == Layout[name].core
  IN  [name |-> name,
       core |-> [i \in DOMAIN core |->
                   IF i = 1 /\ core[1] = Char THEN Layout[name].type
                   ELSE Value(core[i], i * seed)],
       tags |-> [t \in tags |-> Value(TagField[t], OuchTag[t] * seed)]]

(* None, one, all but one, or all of the optional fields. *)
TagSets(name) ==
  LET all == Range(Layout[name].tags)
  IN  {{}, all} \cup {{t} : t \in all} \cup {all \ {t} : t \in all}

MCMessages ==
  [d \in DOMAIN Known |->
     UNION {{Message(name, seed, tags) :
               seed \in IF d \in {"login_request", "login_accepted"} THEN 0..(NumericLimit - 1)
                        ELSE Seeds,
               tags \in TagSets(name)} : name \in Known[d]}]

Whole(d, m) == encode(d, m, encoded_size(d, m))

(* Encoded messages cut short or with a byte too many. *)
Mangled(d, name, tags) ==
  LET bytes == Whole(d, Message(name, 1, tags))
  IN  {[dir |-> d, bytes |-> SubSeq(bytes, 1, n)] : n \in 0..(Len(bytes) - 1)}
        \cup {[dir |-> d, bytes |-> Append(bytes, 0)]}

(* An Enter Order with an appendage of any bytes, its length right or not. *)
EnterCore == SubSeq(Whole("ouch_in", Message("enter_order", 1, {})), 1, CoreSize("enter_order"))

Foreign ==
  UNION {{EnterCore \o <<0, n>> \o a : a \in [1..n -> Alphabet]} : n \in 0..MaxForeign}
    \cup {EnterCore \o <<0, n>> \o a : n \in {0, 2, 4}, a \in [1..3 -> Alphabet]}

(* Logins whose number is any text. *)
Texts == [1..kSoupNumericLen -> {SPACE, ZERO, ZERO + 1, ZERO + 9, 65}]
Logins == {[i \in 1..10 |-> SPACE] \o text : text \in Texts}

MCPayloads ==
  UNION {UNION {Mangled(d, name, {}) \cup Mangled(d, name, Range(Layout[name].tags)) :
                  name \in Known[d]} : d \in DOMAIN Known}
    \cup {[dir |-> "ouch_in", bytes |-> b] : b \in Foreign}
    \cup {[dir |-> "login_accepted", bytes |-> b] : b \in Logins}
    \cup {[dir |-> d, bytes |-> <<90>>] : d \in DOMAIN Known}

(* Frames of another kind, of another transport, or whose lengths disagree. *)
FramesOf(d, name) ==
  LET bytes == Whole(d, Message(name, 1, {}))
      len == HeaderLen(d) + Len(bytes)
  IN  {[dir |-> d,
        frame |-> [length |-> length, ether_type |-> ether_type, ihl |-> ihl,
                   protocol |-> protocol, total_length |-> total, data |-> bytes]] :
         length \in {10, 20, HeaderLen(d) - 1, len}, ether_type \in {2048, 2054},
         ihl \in {5, 6}, protocol \in {6, 17},
         total \in {0, HeaderLen(d) - 15, HeaderLen(d) - 14, len - 15, len - 14, len - 13}}

MCFrames ==
  FramesOf("itch", "itch_order_delete") \cup FramesOf("ouch_in", "cancel_order")
    \cup FramesOf("ouch_out", "order_canceled")
=============================================================================
