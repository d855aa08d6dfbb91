-------------------------------- MODULE Xdr --------------------------------
(***************************************************************************)
(* The XDR codec of src/src/xdr: what Encoder writes for a value and what   *)
(* Decoder makes of the input, as two operators over a schema.  A schema    *)
(* says which calls of the codec a type's Encode or Decode implementation   *)
(* makes, in order; the protocol modules write one per wire type.           *)
(*                                                                          *)
(* A stream is a sequence of 4-byte words, since every XDR item is padded   *)
(* to 4 bytes.  Numbers are 16 bits wide: a u32 is in 0..65535, and a u64   *)
(* below 2^30 is written as its two 16-bit halves, a word each.             *)
(***************************************************************************)
EXTENDS Naturals, Sequences, SequencesExt, FiniteSetsExt, Functions

U32 == [k |-> "u32"]
U64 == [k |-> "u64"]
Bool == [k |-> "bool"]
Nothing == [k |-> "struct", of |-> << >>]
Among(s) == [k |-> "among", set |-> s]
Fixed(n) == [k |-> "fixed", len |-> n]
Opaque(m) == [k |-> "opaque", max |-> m]
Arr(s, m) == [k |-> "array", of |-> s, max |-> m]
Opt(s) == [k |-> "option", of |-> s]
Chain(s, m) == [k |-> "chain", of |-> s, max |-> m]
Struct(fields) == [k |-> "struct", of |-> fields]

(***************************************************************************)
(* A string or array its type cuts to the limit before it is written.       *)
(***************************************************************************)
Cut(s) == [k |-> "cut", of |-> s]

(***************************************************************************)
(* A discriminated union: arms maps a discriminant to the schema of its     *)
(* arm.  Union refuses any other discriminant, UnionElse reads it with the  *)
(* schema other.                                                            *)
(***************************************************************************)
Union(arms) == [k |-> "union", arms |-> arms, other |-> << >>]
UnionElse(arms, other) == [k |-> "union", arms |-> arms, other |-> <<other>>]

Arm(s, d) == IF d \in DOMAIN s.arms THEN s.arms[d] ELSE Head(s.other)
HasArm(s, d) == d \in DOMAIN s.arms \/ s.other # << >>

padding_len(n) == (4 - (n % 4)) % 4

Word(n) == <<0, 0, n \div 256, n % 256>>
Number(w) == 256 * w[3] + w[4]
WordsFor(n) == (n + padding_len(n)) \div 4

(***************************************************************************)
(* write_fixed_opaque: the bytes, then zeros up to a multiple of four.      *)
(***************************************************************************)
FixedOpaque(bytes) ==
  LET padded == bytes \o [i \in 1..padding_len(Len(bytes)) |-> 0]
  IN  [w \in 1..WordsFor(Len(bytes)) |-> SubSeq(padded, 4*w - 3, 4*w)]

(***************************************************************************)
(* The words Encoder appends for value v of schema s.                       *)
(***************************************************************************)
RECURSIVE Put(_, _)
Put(s, v) ==
  CASE s.k \in {"u32", "among"} -> <<Word(v)>>
    [] s.k = "u64" -> <<Word(v \div 65536), Word(v % 65536)>>
    [] s.k = "bool" -> <<Word(IF v THEN 1 ELSE 0)>>
    [] s.k = "fixed" -> FixedOpaque(v)
    [] s.k = "opaque" -> <<Word(Len(v))>> \o FixedOpaque(v)
    [] s.k \in {"array", "option"} ->
         <<Word(Len(v))>> \o FlattenSeq([i \in DOMAIN v |-> Put(s.of, v[i])])
    [] s.k = "chain" ->
         FlattenSeq([i \in DOMAIN v |-> <<Word(1)>> \o Put(s.of, v[i])])
           \o <<Word(0)>>
    [] s.k = "cut" -> Put(s.of, SubSeq(v, 1, Min({Len(v), s.of.max})))
    [] s.k = "struct" -> FlattenSeq([i \in DOMAIN s.of |-> Put(s.of[i], v[i])])
    [] s.k = "union" -> <<Word(v[1])>> \o Put(Arm(s, v[1]), v[2])

(***************************************************************************)
(* The checks the encoder makes before it writes: a length over the limit   *)
(* of write_opaque, write_string or write_array, or a value the type's      *)
(* Encode implementation refuses, makes to_bytes fail.                      *)
(***************************************************************************)
RECURSIVE Fits(_, _)
Fits(s, v) ==
  CASE s.k = "among" -> v \in s.set
    [] s.k = "opaque" -> Len(v) <= s.max
    [] s.k \in {"array", "chain"} ->
         Len(v) <= s.max /\ \A i \in DOMAIN v : Fits(s.of, v[i])
    [] s.k = "option" -> \A i \in DOMAIN v : Fits(s.of, v[i])
    [] s.k = "struct" -> \A i \in DOMAIN s.of : Fits(s.of[i], v[i])
    [] s.k = "union" -> HasArm(s, v[1]) /\ Fits(Arm(s, v[1]), v[2])
    [] OTHER -> TRUE

(***************************************************************************)
(* Decoder: a value and the input left, or a refusal (UnexpectedEof,        *)
(* InvalidBool, LengthLimitExceeded, an unknown discriminant or a value out *)
(* of range).  Padding is skipped, not compared with zero.                  *)
(***************************************************************************)
Got(v, rest) == [ok |-> TRUE, v |-> v, rest |-> rest]
Bad == [ok |-> FALSE, v |-> << >>, rest |-> << >>]

read_u32(in) == IF in = << >> THEN Bad ELSE Got(Number(in[1]), Tail(in))

read_u64(in) ==
  IF Len(in) < 2 THEN Bad
  ELSE Got(65536 * Number(in[1]) + Number(in[2]), SubSeq(in, 3, Len(in)))

read_bool(in) ==
  LET r == read_u32(in) IN IF r.ok /\ r.v \in {0, 1} THEN Got(r.v = 1, r.rest) ELSE Bad

read_fixed_opaque(in, n) ==
  IF Len(in) < WordsFor(n) THEN Bad
  ELSE Got(SubSeq(FlattenSeq(SubSeq(in, 1, WordsFor(n))), 1, n),
           SubSeq(in, WordsFor(n) + 1, Len(in)))

read_len(in, max) ==
  LET r == read_u32(in) IN IF r.ok /\ r.v > max THEN Bad ELSE r

read_opaque(in, max) ==
  LET n == read_len(in, max) IN IF n.ok THEN read_fixed_opaque(n.rest, n.v) ELSE n

RECURSIVE Get(_, _), GetAll(_, _, _), GetChain(_, _, _)
Get(s, in) ==
  CASE s.k = "u32" -> read_u32(in)
    [] s.k = "among" ->
         LET r == read_u32(in) IN IF r.ok /\ r.v \notin s.set THEN Bad ELSE r
    [] s.k = "u64" -> read_u64(in)
    [] s.k = "bool" -> read_bool(in)
    [] s.k = "fixed" -> read_fixed_opaque(in, s.len)
    [] s.k = "opaque" -> read_opaque(in, s.max)
    [] s.k = "array" ->
         LET n == read_len(in, s.max)
         IN  IF n.ok THEN GetAll([i \in 1..n.v |-> s.of], << >>, n.rest) ELSE n
    [] s.k = "option" ->
         LET b == read_bool(in)
         IN  IF b.ok THEN GetAll(IF b.v THEN <<s.of>> ELSE << >>, << >>, b.rest) ELSE b
    [] s.k = "chain" -> GetChain(s, << >>, in)
    [] s.k = "cut" -> Get(s.of, in)
    [] s.k = "struct" -> GetAll(s.of, << >>, in)
    [] s.k = "union" ->
         LET d == read_u32(in)
             x == Get(Arm(s, d.v), d.rest)
         IN  IF d.ok /\ HasArm(s, d.v) /\ x.ok THEN Got(<<d.v, x.v>>, x.rest) ELSE Bad

GetAll(fields, got, in) ==
  IF fields = << >> THEN Got(got, in)
  ELSE LET x == Get(Head(fields), in)
       IN  IF x.ok THEN GetAll(Tail(fields), Append(got, x.v), x.rest) ELSE Bad

GetChain(s, got, in) ==
  LET b == read_bool(in)
      x == Get(s.of, b.rest)
  IN  IF ~b.ok THEN Bad
      ELSE IF ~b.v THEN Got(got, b.rest)
      ELSE IF Len(got) < s.max /\ x.ok THEN GetChain(s, Append(got, x.v), x.rest) ELSE Bad

(***************************************************************************)
(* from_bytes: the value, with trailing input refused.                      *)
(***************************************************************************)
from_bytes(s, in) ==
  LET r == Get(s, in) IN IF r.ok /\ r.rest # << >> THEN Bad ELSE r

(***************************************************************************)
(* Values to try a schema on: for each item its least and its greatest      *)
(* values and the lengths around its limit, one past the limit included.    *)
(* A structure takes as many values as its richest field, so that every     *)
(* value of every field is used.                                            *)
(***************************************************************************)
Bytes(n) == [i \in 1..n |-> i]
Lengths(m) == <<1, 0, m, m + 1>>
Listed(set) == FoldSet(LAMBDA x, xs : Append(xs, x), << >>, set)
Nth(xs, j) == xs[((j - 1) % Len(xs)) + 1]

RECURSIVE Samples(_)
Samples(s) ==
  CASE s.k = "u32" -> <<0, 2, 65535>>
    [] s.k = "u64" -> <<0, 65538, 1073741823>>
    [] s.k = "bool" -> <<FALSE, TRUE>>
    [] s.k = "among" -> Listed(s.set \cup {Max(s.set) + 1})
    [] s.k = "fixed" -> <<Bytes(s.len)>>
    [] s.k = "opaque" -> [i \in 1..4 |-> Bytes(Lengths(s.max)[i])]
    [] s.k = "cut" -> SubSeq(Samples(s.of), 1, 3)
    [] s.k = "option" -> << << >>, <<Samples(s.of)[1]>> >>
    [] s.k \in {"array", "chain"} ->
         LET x == Samples(s.of)[1]
         IN  [i \in 1..4 |-> [j \in 1..Lengths(s.max)[i] |-> x]]
    [] s.k = "struct" ->
         LET xs == [i \in DOMAIN s.of |-> Samples(s.of[i])]
             n == Max({1} \cup {Len(xs[i]) : i \in DOMAIN xs})
         IN  [j \in 1..n |-> [i \in DOMAIN xs |-> Nth(xs[i], j)]]
    [] s.k = "union" ->
         LET arms == [d \in DOMAIN s.arms |-> Samples(s.arms[d])]
             tags == Listed(DOMAIN arms)
         IN  FlattenSeq([n \in DOMAIN tags |->
               [i \in DOMAIN arms[tags[n]] |-> <<tags[n], arms[tags[n]][i]>>]])
             \o [i \in DOMAIN s.other |-> <<9999, Samples(s.other[i])[1]>>]

=============================================================================
