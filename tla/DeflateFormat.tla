---- MODULE DeflateFormat ----
(***************************************************************************)
(* What the compressor and the decompressor of miniz.h must agree on: the  *)
(* symbols that stand for lengths and distances, and the order of the code *)
(* sizes in a block's header.  The compressor looks lengths and distances  *)
(* up in tables indexed by the value less its minimum; the decompressor    *)
(* goes from the symbol to a base and a number of extra bits.              *)
(* Bits are sequences of 0 and 1, in the order in which they are stored.   *)
(***************************************************************************)
EXTENDS Integers, Sequences, SequencesExt, FiniteSetsExt, TLC

MIN_MATCH == 3
EndOfBlock == 256

\* The l low bits of b, the lowest one first (the b, l of TDEFL_PUT_BITS).
BitsOf(b, l) == [k \in 1..l |-> (b \div 2^(k - 1)) % 2]

\* f, its values computed once (TLC evaluates a function defined by an expression
\* again at every application).
Tab(f) == f @@ <<>>

\* LET v == x IN go(v), with x evaluated once: TLC evaluates a LET definition or an
\* argument where it is used, with action coverage or under ENABLED every time.
With(x, go(_)) == CHOOSE y \in {go(v) : v \in {x}} : TRUE

\* A loop over the items of s: op(... op(op(base, s[1]), s[2]) ..., s[n]), by
\* halves (FoldLeft of SequencesExt nests n deep and goes over subsets).
RECURSIVE IterateFrom(_, _, _, _, _)
IterateFrom(op(_, _), base, s, i, j) ==
  LET m == (i + j) \div 2
  IN CASE i > j -> base
       [] i = j -> op(base, s[i])
       [] OTHER -> With(IterateFrom(op, base, s, i, m),
                        LAMBDA v : IterateFrom(op, v, s, m + 1, j))

Iterate(op(_, _), base, s) ==
  With(s, LAMBDA t : With(base, LAMBDA b : IterateFrom(op, b, t, 1, Len(t))))

\* A loop while more(x): at most 2^n turns.
RECURSIVE RepeatFrom(_, _, _, _)
RepeatFrom(more(_), step(_), x, n) ==
  CASE ~more(x) -> x
    [] more(x) /\ n = 0 -> step(x)
    [] OTHER -> With(RepeatFrom(more, step, x, n - 1),
                     LAMBDA v : RepeatFrom(more, step, v, n - 1))

Repeat(more(_), step(_), x, n) == With(x, LAMBDA v : RepeatFrom(more, step, v, n))

Concat(ss) == Iterate(LAMBDA a, b : a \o b, <<>>, ss)

ValueOf(bits) == Iterate(LAMBDA acc, bit : 2 * acc + bit, 0, Reverse(bits))

\* The place of the highest bit of n.
Log2[n \in Nat \ {0}] == IF n = 1 THEN 0 ELSE 1 + Log2[n \div 2]

\* s_tdefl_len_sym and s_tdefl_len_extra: n is a match length less MIN_MATCH.
LenSym(n) ==
  CASE n < 8   -> 257 + n
    [] n = 255 -> 285
    [] OTHER   -> LET e == Log2[n] - 2 IN 257 + 4 * e + n \div 2^e

LenExtra(n) == IF n < 8 \/ n = 255 THEN 0 ELSE Log2[n] - 2

\* One entry of the distance tables: n is a distance less 1.  Distances from
\* 512 are looked up by n >> 8, in tables of their own.
DistClass(n) ==
  IF n < 4 THEN [sym |-> n, extra |-> 0]
  ELSE LET e == Log2[n] - 1 IN [sym |-> 2 * e + n \div 2^e, extra |-> e]

DistSym(n) == DistClass(IF n < 512 THEN n ELSE 256 * (n \div 256)).sym
DistExtra(n) == DistClass(IF n < 512 THEN n ELSE 256 * (n \div 256)).extra

\* s_length_base, s_length_extra, s_dist_base, s_dist_extra: by symbol.
LengthBase == <<3, 4, 5, 6, 7, 8, 9, 10, 11, 13, 15, 17, 19, 23, 27, 31, 35,
                43, 51, 59, 67, 83, 99, 115, 131, 163, 195, 227, 258, 0, 0>>
LengthExtra == <<0, 0, 0, 0, 0, 0, 0, 0, 1, 1, 1, 1, 2, 2, 2, 2, 3, 3, 3, 3,
                 4, 4, 4, 4, 5, 5, 5, 5, 0, 0, 0>>
DistBase == <<1, 2, 3, 4, 5, 7, 9, 13, 17, 25, 33, 49, 65, 97, 129, 193, 257,
              385, 513, 769, 1025, 1537, 2049, 3073, 4097, 6145, 8193, 12289,
              16385, 24577, 0, 0>>
DistExtraOf == <<0, 0, 0, 0, 1, 1, 2, 2, 3, 3, 4, 4, 5, 5, 6, 6, 7, 7, 8, 8, 9,
                 9, 10, 10, 11, 11, 12, 12, 13, 13, 0, 0>>

\* s_tdefl_packed_code_size_syms_swizzle and s_length_dezigzag.
Swizzle == <<16, 17, 18, 0, 8, 7, 9, 6, 10, 5, 11, 4, 12, 3, 13, 2, 14, 1, 15>>
Dezigzag == <<16, 17, 18, 0, 8, 7, 9, 6, 10, 5, 11, 4, 12, 3, 13, 2, 14, 1, 15>>
====
