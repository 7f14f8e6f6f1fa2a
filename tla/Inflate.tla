---- MODULE Inflate ----
(***************************************************************************)
(* tinfl_decompress of miniz.h, for raw deflate streams.  It is a          *)
(* coroutine: it returns where it runs out of input or of room for output, *)
(* keeps where it was in m_state, and goes on from there when it is called *)
(* again with the rest.  r is the tinfl_decompressor with the call's own   *)
(* variables: `in` is the input not yet taken, `room` the bytes of output  *)
(* that still fit, `out` all that was ever written.  pc stands for m_state *)
(* and for the places between two suspension points.                       *)
(***************************************************************************)
EXTENDS Huffman

CONSTANTS
  FAST_LOOKUP_BITS,  \* TINFL_FAST_LOOKUP_BITS
  WINDOW             \* bytes of output it can look back to

ASSUME InflateAssumption == FAST_LOOKUP_BITS \in 1..14 /\ WINDOW \in Nat \ {0}

tinfl_init ==
  [pc |-> "block", status |-> "running", more |-> TRUE, bits |-> <<>>,
   in |-> <<>>, room |-> 0, out |-> <<>>, final |-> 0, type |-> 0,
   counter |-> 0, dist |-> 0, raw_header |-> <<>>, table_sizes |-> <<>>,
   sizes |-> <<>>, len_codes |-> <<>>, tables |-> <<>>, filling |-> FALSE]

Suspend(r, status) == [r EXCEPT !.status = status]

Fail(r) == [r EXCEPT !.pc = "failed", !.status = "failed"]

\* TINFL_GET_BYTE into the bit buffer: after the end of the last input it reads
\* zeros, as much as it likes.
Feed(r) ==
  CASE r.in # <<>> -> [r EXCEPT !.bits = @ \o SubSeq(r.in, 1, 8),
                                !.in = SubSeq(@, 9, Len(@))]
    [] r.in = <<>> /\ r.more -> Suspend(r, "needs_more_input")
    [] OTHER -> [r EXCEPT !.bits = @ \o BitsOf(0, 8)]

\* TINFL_GET_BITS: go(r, b) goes on once the n bits b are there.
GetBits(r, n, go(_, _)) ==
  IF Len(r.bits) < n THEN Feed(r)
  ELSE go([r EXCEPT !.bits = SubSeq(@, n + 1, Len(@))], ValueOf(SubSeq(r.bits, 1, n)))

----------------------------------------------------------------------------
(****************************** Code tables ********************************)

\* A link to a pair of entries of the tree is negative; a code of at most
\* FAST_LOOKUP_BITS bits is its size and its symbol in one number.
Put(f, k, v) == (k :> v) @@ f

\* The entry of a long code: from the pair `cur` on, bit by bit from the i-th.
Grow(t0, code, sym, from, first) ==
  LET step(g, i) ==
        LET k == code[i] - g.cur - 1
            t == g.t
        IN CASE i = Len(code) -> [g EXCEPT !.t.tree = Put(@, k, sym)]
             [] i < Len(code) /\ k \in DOMAIN t.tree -> [g EXCEPT !.cur = t.tree[k]]
             [] OTHER -> [cur |-> t.next,
                          t |-> [t EXCEPT !.tree = Put(@, k, t.next), !.next = @ - 2]]
  IN Iterate(step, [t |-> t0, cur |-> from],
             [n \in 1..Len(code) - first + 1 |-> first + n - 1]).t

AddCode(t, code, sym) ==
  LET n == Len(code)
      k == ValueOf(SubSeq(code, 1, FAST_LOOKUP_BITS))
  IN CASE n <= FAST_LOOKUP_BITS ->
            [t EXCEPT !.look_up = Tab([j \in DOMAIN @ |->
               IF j % 2^n = ValueOf(code) THEN 512 * n + sym ELSE @[j]])]
       [] n > FAST_LOOKUP_BITS /\ t.look_up[k] # 0 ->
            Grow(t, code, sym, t.look_up[k], FAST_LOOKUP_BITS + 1)
       [] OTHER ->
            Grow([t EXCEPT !.look_up[k] = t.next, !.next = @ - 2],
                 code, sym, t.next, FAST_LOOKUP_BITS + 1)

\* The table for the code sizes of symbols 0..n - 1.
Table(sizes) ==
  LET syms(codes) == SelectSeq([s \in 1..288 |-> s - 1], LAMBDA s : s \in DOMAIN codes)
      empty == [look_up |-> Tab([k \in 0..2^FAST_LOOKUP_BITS - 1 |-> 0]),
                tree |-> <<>>, next |-> -1]
      filled(codes) == Iterate(LAMBDA t, s : AddCode(t, codes[s], s), empty, syms(codes))
  IN With(Codes(sizes, 15), LAMBDA codes : With(filled(codes), LAMBDA t :
       [look_up |-> t.look_up, tree |-> t.tree]))

\* The code space must be used up, unless there is one code at most.
TableOk(sizes) ==
  LET sum(num) == Iterate(LAMBDA a, i : 2 * (a + num[i]), 0, [k \in 1..15 |-> k])
  IN \/ Cardinality({s \in DOMAIN sizes : sizes[s] > 0}) <= 1
     \/ With(NumCodes(sizes), sum) = 65536

\* The symbol that the bits begin with, and the length of its code; bits that
\* are not there yet count as 0.
RECURSIVE Descend(_, _, _, _)
Descend(table, bits, entry, i) ==
  LET e == table.tree[(IF i <= Len(bits) THEN bits[i] ELSE 0) - entry - 1]
  IN IF e < 0 THEN Descend(table, bits, e, i + 1) ELSE [sym |-> e, len |-> i]

Decode(table, bits) ==
  LET e == table.look_up[ValueOf(SubSeq(bits, 1, Min({FAST_LOOKUP_BITS, Len(bits)})))]
  IN IF e >= 0 THEN [sym |-> e % 512, len |-> e \div 512]
     ELSE Descend(table, bits, e, FAST_LOOKUP_BITS + 1)

\* TINFL_HUFF_DECODE: near the end of the input it takes one byte at a time,
\* and only while the bits do not make a whole code (TINFL_HUFF_BITBUF_FILL).
HuffDecode(r, table, go(_, _)) ==
  LET d == Decode(table, r.bits)
      next == [r EXCEPT !.bits = SubSeq(@, d.len + 1, Len(@)), !.filling = FALSE]
  IN CASE Len(r.bits) >= 15 -> go(next, d.sym)
       [] Len(r.bits) < 15 /\ ~r.filling /\ Len(r.in) >= 16 -> Feed(Feed(r))
       [] Len(r.bits) < 15 /\ (r.filling \/ Len(r.in) < 16)
            /\ d.len \in 1..Len(r.bits) -> go(next, d.sym)
       [] OTHER -> [Feed(r) EXCEPT !.filling = TRUE]

----------------------------------------------------------------------------
(******************************* The blocks ********************************)

FixedSize == << [s \in 0..287 |-> CASE s <= 143 -> 8
                                    [] s \in 144..255 -> 9
                                    [] s \in 256..279 -> 7
                                    [] OTHER -> 8],
                [s \in 0..31 |-> 5] >>

FixedTables == <<Table(FixedSize[1]), Table(FixedSize[2])>>

\* The head of a block: r.m_final and r.m_type.
Block(r) ==
  LET go(q, b) ==
        LET p == [q EXCEPT !.final = b % 2, !.type = b \div 2]
        IN CASE p.type = 0 -> [p EXCEPT !.pc = "raw_header", !.raw_header = <<>>,
                                        !.bits = SubSeq(@, (Len(@) % 8) + 1, Len(@))]
             [] p.type = 1 -> [p EXCEPT !.pc = "symbols", !.tables = FixedTables]
             [] p.type = 2 -> [p EXCEPT !.pc = "table_sizes", !.table_sizes = <<>>]
             [] OTHER -> Fail(p)
  IN GetBits(r, 3, go)

\* A stored block: its length, the complement of it, its bytes.
RawHeader(r) ==
  LET go(q, b) == [q EXCEPT !.raw_header = Append(@, b)]
      h == r.raw_header
      n == h[1] + 256 * h[2]
  IN CASE Len(h) < 4 -> GetBits(r, 8, go)
       [] Len(h) = 4 /\ n + h[3] + 256 * h[4] = 65535 ->
            [r EXCEPT !.pc = "raw_bytes", !.counter = n]
       [] OTHER -> Fail(r)

Write(r, byte) == [r EXCEPT !.out = Append(@, byte), !.room = @ - 1]

\* First the bytes that are in the bit buffer, each taken before there is room
\* for it, then the rest straight from the input.
RawBytes(r) ==
  LET held(q, b) == [q EXCEPT !.dist = b, !.pc = "raw_held"]
      n == Min({r.room, Len(r.in) \div 8, r.counter})
  IN CASE r.counter = 0 -> [r EXCEPT !.pc = "block_end"]
       [] r.counter > 0 /\ r.bits # <<>> -> GetBits(r, 8, held)
       [] r.counter > 0 /\ r.bits = <<>> /\ r.room = 0 -> Suspend(r, "has_more_output")
       [] r.counter > 0 /\ r.bits = <<>> /\ r.room > 0 /\ r.in = <<>> ->
            IF r.more THEN Suspend(r, "needs_more_input") ELSE Fail(r)
       [] OTHER -> [r EXCEPT !.counter = @ - n, !.room = @ - n,
                     !.in = SubSeq(@, 8 * n + 1, Len(@)),
                     !.out = @ \o [k \in 1..n |-> ValueOf(SubSeq(r.in, 8 * k - 7, 8 * k))]]

RawHeld(r) ==
  IF r.room = 0 THEN Suspend(r, "has_more_output")
  ELSE [Write(r, r.dist) EXCEPT !.counter = @ - 1, !.pc = "raw_bytes"]

\* The head of a dynamic block: how many sizes there are of each table,
TableSizes(r) ==
  LET t == Len(r.table_sizes) + 1
      go(q, b) == [q EXCEPT !.table_sizes = Append(@, b + <<257, 1, 4>>[t])]
  IN IF t = 4 THEN [r EXCEPT !.pc = "code_lens", !.len_codes = <<>>]
     ELSE GetBits(r, <<5, 5, 4>>[t], go)

\* the sizes of the codes for sizes, in their own order,
CodeLens(r) ==
  LET n == Len(r.len_codes)
      go(q, b) == [q EXCEPT !.len_codes = Append(@, b)]
      sizes == [s \in 0..18 |->
                  IF \E k \in 1..n : Dezigzag[k] = s
                  THEN r.len_codes[CHOOSE k \in 1..n : Dezigzag[k] = s] ELSE 0]
  IN CASE n < r.table_sizes[3] -> GetBits(r, 3, go)
       [] n = r.table_sizes[3] /\ TableOk(sizes) ->
            [r EXCEPT !.pc = "lens", !.len_codes = <<>>, !.tables = <<Table(sizes)>>]
       [] OTHER -> Fail(r)

\* the sizes themselves, in codes,
Lens(r) ==
  LET total == r.table_sizes[1] + r.table_sizes[2]
      n == Len(r.len_codes)
      go(q, sym) ==
        CASE sym < 16 -> [q EXCEPT !.len_codes = Append(@, sym)]
          [] sym = 16 /\ n = 0 -> Fail(q)
          [] OTHER -> [q EXCEPT !.dist = sym, !.pc = "lens_extra"]
  IN IF n >= total THEN [r EXCEPT !.pc = "tables"]
     ELSE HuffDecode(r, r.tables[1], go)

LensExtra(r) ==
  LET prev == IF r.dist = 16 THEN r.len_codes[Len(r.len_codes)] ELSE 0
      go(q, b) ==
        [q EXCEPT !.pc = "lens",
                  !.len_codes = @ \o [k \in 1..b + <<3, 3, 11>>[r.dist - 15] |-> prev]]
  IN GetBits(r, <<2, 3, 7>>[r.dist - 15], go)

\* and the tables they make.
Tables(r) ==
  LET n == r.table_sizes[1]
      m == r.table_sizes[2]
      lits  == [s \in 0..n - 1 |-> r.len_codes[s + 1]]
      dists == [s \in 0..m - 1 |-> r.len_codes[n + s + 1]]
  IN IF Len(r.len_codes) # n + m \/ ~TableOk(dists) \/ ~TableOk(lits) THEN Fail(r)
     ELSE [r EXCEPT !.pc = "symbols", !.tables = <<Table(lits), Table(dists)>>,
                    !.len_codes = <<>>, !.table_sizes = <<>>]

\* A symbol that is not a literal.
EndOrLength(r, sym) ==
  IF sym = EndOfBlock THEN [r EXCEPT !.pc = "block_end"]
  ELSE [r EXCEPT !.pc = "length", !.counter = sym]

\* Literals.  While there are four bytes of input and room for two, it loads
\* four bytes at once and decodes two symbols; these bytes are never given back.
Symbols(r) ==
  LET t == r.tables[1]
      slow(q, sym) == IF sym >= 256 THEN EndOrLength(q, sym)
                      ELSE [q EXCEPT !.dist = sym, !.pc = "literal_held"]
      load == IF Len(r.bits) < 30 THEN Feed(Feed(Feed(Feed(r)))) ELSE r
      d1 == Decode(t, load.bits)
      q1 == [load EXCEPT !.bits = SubSeq(@, d1.len + 1, Len(@))]
      d2 == Decode(t, q1.bits)
      q2 == [Write(q1, d1.sym) EXCEPT !.bits = SubSeq(@, d2.len + 1, Len(@))]
  IN CASE Len(r.in) < 32 \/ r.room < 2 \/ r.filling -> HuffDecode(r, t, slow)
       [] OTHER -> CASE d1.sym >= 256 -> EndOrLength(q1, d1.sym)
                     [] d1.sym < 256 /\ d2.sym >= 256 -> EndOrLength(q2, d2.sym)
                     [] OTHER -> Write(q2, d2.sym)

\* Mutant: it needs room for two.
Bug_LiteralHeld(r) ==
  IF r.room < 2 THEN Suspend(r, "has_more_output")
  ELSE [Write(r, r.dist) EXCEPT !.pc = "symbols"]

LiteralHeld(r) ==
  IF r.room = 0 THEN Suspend(r, "has_more_output")
  ELSE [Write(r, r.dist) EXCEPT !.pc = "symbols"]

\* A match: the extra bits of its length, its distance, and its extra bits.
Length(r) ==
  LET k == r.counter - 256
      go(q, b) == [q EXCEPT !.counter = LengthBase[k] + b, !.pc = "distance"]
  IN GetBits(r, LengthExtra[k], go)

Distance(r) ==
  LET go(q, sym) == [q EXCEPT !.dist = sym, !.pc = "distance_extra"]
  IN HuffDecode(r, r.tables[2], go)

DistanceExtra(r) ==
  LET k == r.dist + 1
      go(q, b) == [q EXCEPT !.dist = DistBase[k] + b, !.pc = "copy"]
  IN GetBits(r, DistExtraOf[k], go)

\* The bytes of the match, as many as there is room for; the source may run
\* into what is being written.  Beyond the window, a buffer that wraps around,
\* and before the first byte of output there is nothing of the stream (-1).
Copy(r) ==
  LET n == Min({r.counter, r.room})
      p == Len(r.out) - r.dist
      copied == [k \in 1..n |-> IF r.dist > WINDOW \/ p + 1 + ((k - 1) % r.dist) < 1 THEN -1
                                ELSE r.out[p + 1 + ((k - 1) % r.dist)]]
      q == [r EXCEPT !.out = @ \o copied, !.room = @ - n, !.counter = @ - n]
  IN IF n < r.counter THEN Suspend(q, "has_more_output")
     ELSE [q EXCEPT !.pc = "symbols"]

BlockEnd(r) ==
  IF r.final = 0 THEN [r EXCEPT !.pc = "block"]
  ELSE [r EXCEPT !.pc = "done", !.status = "done", !.tables = <<>>]

Step(r) ==
  CASE r.pc = "block"          -> Block(r)
    [] r.pc = "raw_header"     -> RawHeader(r)
    [] r.pc = "raw_bytes"      -> RawBytes(r)
    [] r.pc = "raw_held"       -> RawHeld(r)
    [] r.pc = "table_sizes"    -> TableSizes(r)
    [] r.pc = "code_lens"      -> CodeLens(r)
    [] r.pc = "lens"           -> Lens(r)
    [] r.pc = "lens_extra"     -> LensExtra(r)
    [] r.pc = "tables"         -> Tables(r)
    [] r.pc = "symbols"        -> Symbols(r)
    [] r.pc = "literal_held"   -> LiteralHeld(r)
    [] r.pc = "length"         -> Length(r)
    [] r.pc = "distance"       -> Distance(r)
    [] r.pc = "distance_extra" -> DistanceExtra(r)
    [] r.pc = "copy"           -> Copy(r)
    [] r.pc = "block_end"      -> BlockEnd(r)
    [] r.pc = "done"           -> Suspend(r, "done")
    [] OTHER                   -> Suspend(r, "failed")

\* A whole call, with more bytes of input and room for so many of output.  more
\* is TINFL_FLAG_HAS_MORE_INPUT.  Bytes not taken stay with the caller.
TinflDecompress(r, input, room, more) ==
  Repeat(LAMBDA q : q.status = "running", Step,
         [r EXCEPT !.in = input, !.room = room, !.more = more, !.status = "running"], 12)
====
