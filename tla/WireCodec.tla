------------------------------ MODULE WireCodec ------------------------------
(***************************************************************************)
(* The fields of the wire formats: src/infra/wire_codec.hpp (big-endian    *)
(* integers, byte arrays, the reader that stops at the end of its input)   *)
(* and the decimal fields of src/infra/soupbintcp_proto.hpp.               *)
(*                                                                         *)
(* A byte is a number below 256.  A field is described by its width and by *)
(* how its value becomes bytes: "num" (a number, big-endian), "raw" (an    *)
(* array, copied), "dec" (a number in ASCII, padded on the left).          *)
(***************************************************************************)
EXTENDS Integers, Sequences, SequencesExt

CONSTANTS
  NumericLimit,  \* 2^64: the decimal fields are read modulo this
  NULL           \* std::nullopt, a message of type NONE

Num(w) == [kind |-> "num", w |-> w]
Raw(w) == [kind |-> "raw", w |-> w]
Dec(w) == [kind |-> "dec", w |-> w]

(* v without its k lowest digits. *)
Shift(v, radix, k) ==
  LET s[i \in 0..k] == IF i = 0 THEN v ELSE s[i - 1] \div radix IN s[k]

(* WireWriter::store() and u48(): the low w bytes of v, highest first. *)
store(v, w) == [i \in 1..w |-> Shift(v, 256, w - i) % 256]

load(bytes) ==
  LET value[i \in 0..Len(bytes)] == IF i = 0 THEN 0 ELSE value[i - 1] * 256 + bytes[i]
  IN  value[Len(bytes)]

SPACE == 32
ZERO == 48

(* ASCII, left-padded with blanks; a zero has one digit. *)
write_numeric(value, w) ==
  [i \in 1..w |-> LET rest == Shift(value, 10, w - i)
                  IN  IF rest = 0 /\ i < w THEN SPACE ELSE ZERO + (rest % 10)]

(* The blanks in front, the digits up to the next blank, and only blanks   *)
(* after them.                                                             *)
read_numeric(in) ==
  LET Blank(i) == in[i] = SPACE
      start == SelectInSeq(in, LAMBDA c : c # SPACE)
      blanks == {i \in start..Len(in) : Blank(i)}
      end == IF blanks = {} THEN Len(in) ELSE Min(blanks) - 1
      digits == SubSeq(in, start, end)
  IN  IF \/ start = 0
         \/ \E i \in 1..Len(digits) : digits[i] \notin ZERO..(ZERO + 9)
         \/ \E i \in (end + 1)..Len(in) : ~ Blank(i)
      THEN NULL
      ELSE FoldLeft(LAMBDA value, c : (value * 10 + (c - ZERO)) % NumericLimit, 0, digits)

(* WireWriter's and WireReader's operator() on one field. *)
write(field, value) ==
  CASE field.kind = "num" -> store(value, field.w)
    [] field.kind = "raw" -> value
    [] field.kind = "dec" -> write_numeric(value, field.w)

read(field, bytes) ==
  CASE field.kind = "num" -> load(bytes)
    [] field.kind = "raw" -> bytes
    [] field.kind = "dec" -> read_numeric(bytes)

(* WireReader::claim(): r = [pos, ok] over an input of size bytes.  A      *)
(* claim past the end takes nothing and every later one fails too.  A      *)
(* negative n is a size_t near its maximum.                                *)
claim(r, n, size) ==
  IF r.ok /\ 0 <= n /\ n <= size - r.pos THEN [r EXCEPT !.pos = @ + n]
  ELSE [r EXCEPT !.ok = FALSE]

remaining(r, size) == size - r.pos
=============================================================================
