---- MODULE Deflate ----
(***************************************************************************)
(* The compressor of miniz.h as zip.c uses it: tdefl_init, then one        *)
(* tdefl_compress_buffer for each piece of the entry and one with          *)
(* TDEFL_FINISH, the output handed to a callback that may fail.  The flags *)
(* are those of level 6: lazy parsing, raw deflate, no zlib header, no     *)
(* Adler-32.                                                               *)
(*                                                                         *)
(* d is the tdefl_compressor.  Its sizes are parameters here.  Output is   *)
(* kept in bits: `pending` holds the bits of the byte begun (m_bit_buffer).*)
(* The code buffer is a sequence of literals and matches; m_huff_count is  *)
(* its histogram, counted when a block is written.                         *)
(***************************************************************************)
EXTENDS Huffman, Bitwise

CONSTANTS
  MAX_MATCH,         \* TDEFL_MAX_MATCH_LEN
  DICT_SIZE,         \* TDEFL_LZ_DICT_SIZE
  HASH_BITS,         \* TDEFL_LZ_HASH_BITS
  LZ_CODE_BUF_SIZE,  \* TDEFL_LZ_CODE_BUF_SIZE
  OUT_BUF_SIZE,      \* TDEFL_OUT_BUF_SIZE less the 16 bytes of slack
  STATIC_LIMIT,      \* blocks of fewer bytes get the static codes (48)
  FAR,               \* a match of MIN_MATCH from so far is dropped (8 K)
  LONG_MATCH,        \* a match so long is taken at once (128)
  LONG_ENOUGH,       \* from such a length on fewer probes are made (32)
  PROBES, FEW_PROBES, \* m_max_probes
  BLOCK_BYTES        \* a block of more bytes may be closed early (31 K)

ASSUME DeflateAssumption ==
  /\ MIN_MATCH < MAX_MATCH /\ MAX_MATCH < DICT_SIZE
  /\ \E k \in 1..15 : DICT_SIZE = 2^k
  /\ LZ_CODE_BUF_SIZE > 8

\* Positions are kept in 16 bits, one more than the dictionary needs.
POS_SIZE == 2 * DICT_SIZE

\* tdefl_init, on a structure that zip_open has zeroed.
tdefl_init ==
  [lookahead_pos |-> 0, lookahead_size |-> 0, dict_size |-> 0,
   dict |-> Tab([k \in 0..DICT_SIZE + MAX_MATCH - 2 |-> 0]),
   hash |-> Tab([h \in 0..2^HASH_BITS - 1 |-> 0]),
   next |-> Tab([k \in 0..DICT_SIZE - 1 |-> 0]),
   saved_len |-> 0, saved_dist |-> 0, saved_lit |-> 0,
   lz |-> <<>>, total_lz_bytes |-> 0, lz_dict_pos |-> 0,
   pending |-> <<>>, lost |-> FALSE, wants_to_finish |-> FALSE,
   finished |-> FALSE, status |-> "okay",
   file |-> <<>>, puts |-> 0, blocks |-> <<>>]

----------------------------------------------------------------------------
(***************************** Writing a block *****************************)

\* The code sizes of a static block, by symbol.
StaticSize(table, sym) ==
  CASE table = 1  -> 5
    [] sym <= 143 -> 8
    [] sym \in 144..255 -> 9
    [] sym \in 256..279 -> 7
    [] OTHER -> 8

StaticCodes == << Codes([s \in 0..287 |-> StaticSize(0, s)], 15),
                  Codes([s \in 0..31 |-> StaticSize(1, s)], 15) >>

\* TDEFL_RLE_PREV_CODE_SIZE and TDEFL_RLE_ZERO_CODE_SIZE: the codes for n more
\* copies of the last size, or for n zeros, each with its extra bits.
RepeatCode(size, n) ==
  CASE n = 0 -> <<>>
    [] n < 3 -> [k \in 1..n |-> <<size, 0, 0>>]
    [] OTHER -> <<<<16, n - 3, 2>>>>

ZeroCode(n) ==
  CASE n = 0   -> <<>>
    [] n < 3   -> [k \in 1..n |-> <<0, 0, 0>>]
    [] n <= 10 -> <<<<17, n - 3, 3>>>>
    [] OTHER   -> <<<<18, n - 11, 7>>>>

\* One code size of the list: st holds the codes so far, the run of zeros or
\* of repetitions being counted, and the previous size.
RleStep(st, size) ==
  IF size = 0
  THEN LET z == st.zeros + 1
           out == st.out \o RepeatCode(st.prev, st.repeats)
       IN IF z = 138
          THEN [out |-> out \o ZeroCode(z), zeros |-> 0, repeats |-> 0, prev |-> 0]
          ELSE [out |-> out, zeros |-> z, repeats |-> 0, prev |-> 0]
  ELSE LET out == st.out \o ZeroCode(st.zeros)
           r == st.repeats + 1
       IN IF size # st.prev
          THEN [out |-> Append(out \o RepeatCode(st.prev, st.repeats), <<size, 0, 0>>),
                zeros |-> 0, repeats |-> 0, prev |-> size]
          ELSE IF r = 6
               THEN [out |-> out \o RepeatCode(size, r), zeros |-> 0,
                     repeats |-> 0, prev |-> size]
               ELSE [out |-> out, zeros |-> 0, repeats |-> r, prev |-> size]

PackCodeSizes(sizes) ==
  LET st == Iterate(RleStep, [out |-> <<>>, zeros |-> 0, repeats |-> 0, prev |-> 255],
                     sizes)
  IN st.out \o IF st.repeats > 0 THEN RepeatCode(st.prev, st.repeats)
               ELSE ZeroCode(st.zeros)

\* How often each symbol of a table occurs in the code buffer.
IsMatch(c) == c.len > 0

Count(lz, table) ==
  LET sym(c) == CASE table = 0 /\ IsMatch(c)  -> LenSym(c.len - MIN_MATCH)
                  [] table = 0 /\ ~IsMatch(c) -> c.lit
                  [] table = 1 /\ IsMatch(c)  -> DistSym(c.dist - 1)
                  [] OTHER -> -1
      occurs(syms) == [s \in Range(syms) |->
                         Cardinality({i \in DOMAIN syms : syms[i] = s})]
  IN With(Tab([i \in DOMAIN lz |-> sym(lz[i])]), LAMBDA syms :
       With(Tab(occurs(syms)), LAMBDA n :
         Tab([s \in 0..IF table = 0 THEN 287 ELSE 31 |->
                CASE table = 0 /\ s = EndOfBlock -> 1
                  [] s \in DOMAIN n -> n[s]
                  [] OTHER -> 0])))

\* The number of code sizes sent: trailing zeros are cut, down to a minimum.
Trimmed(sizes, most, least) ==
  Max({least} \cup {k \in least + 1..most : sizes[k - 1] # 0})

\* tdefl_start_dynamic_block: the block's codes and the bits of its header.
DynamicBlock(lz) ==
  LET freq(packed) == Tab([s \in 0..18 |->
                             Cardinality({i \in DOMAIN packed : packed[i][1] = s})])
      lens(sizes) == Max({4} \cup {k \in 1..19 : sizes[Swizzle[k]] # 0})
      lengths(sizes) == BitsOf(lens(sizes) - 4, 4) \o
                        Concat([k \in 1..lens(sizes) |-> BitsOf(sizes[Swizzle[k]], 3)])
      packs(packed, codes) ==
        Concat([i \in DOMAIN packed |->
                  codes[packed[i][1]] \o BitsOf(packed[i][2], packed[i][3])])
      body(packed) == With(CodeSizes(freq(packed), 7), LAMBDA sizes :
                        With(Codes(sizes, 7), LAMBDA codes :
                          lengths(sizes) \o packs(packed, codes)))
      block(sizes1, sizes2) ==
        LET lits  == Trimmed(sizes1, 286, 257)
            dists == Trimmed(sizes2, 30, 1)
        IN [codes |-> <<Codes(sizes1, 15), Codes(sizes2, 15)>>,
            head  |-> BitsOf(2, 2) \o BitsOf(lits - 257, 5) \o BitsOf(dists - 1, 5) \o
                      With(PackCodeSizes([k \in 1..lits |-> sizes1[k - 1]] \o
                                         [k \in 1..dists |-> sizes2[k - 1]]), body)]
  IN With(CodeSizes(Count(lz, 0), 15), LAMBDA sizes1 :
       With(CodeSizes(Count(lz, 1), 15), LAMBDA sizes2 : block(sizes1, sizes2)))

StaticBlock(lz) == [codes |-> StaticCodes, head |-> BitsOf(1, 2)]

\* The bits of one entry of the code buffer.
CodeBits(codes, c) ==
  IF ~IsMatch(c) THEN codes[1][c.lit]
  ELSE LET l == c.len - MIN_MATCH
           m == c.dist - 1
       IN codes[1][LenSym(l)] \o BitsOf(l, LenExtra(l))
          \o codes[2][DistSym(m)] \o BitsOf(m, DistExtra(m))

\* tdefl_compress_lz_codes looks whether there is room before it stores what it
\* coded in one go, a match or up to three literals of one byte of flags; when
\* there is none it gives up with the output where the block's header ended.
Together(lz, i) ==
  IF IsMatch(lz[i]) THEN 1
  ELSE Max({n \in 1..Min({3, Len(lz) - i + 1}) :
              /\ (i + n - 2) \div 8 = (i - 1) \div 8
              /\ \A k \in i..i + n - 1 : ~IsMatch(lz[k])})

LzCodes(lz, codes, start) ==
  LET room(st) == st.i <= Len(lz) /\ Len(st.s) \div 8 < OUT_BUF_SIZE
      step(st) == LET n == Together(lz, st.i)
                  IN [i |-> st.i + n, s |-> st.s \o
                        Concat([k \in 1..n |-> CodeBits(codes, lz[st.i + k - 1])])]
      end == Repeat(room, step, [i |-> 1, s |-> start], 12)
  IN [ok |-> end.i > Len(lz), s |-> end.s \o codes[1][EndOfBlock]]

\* Mutant: what fitted is written even when the rest did not.
Bug_CompressBlock(lz, before, block) ==
  With(block, LAMBDA b : [ok |-> TRUE, s |-> LzCodes(lz, b.codes, before \o b.head).s])

\* tdefl_compress_block, after the bits `before`: did it fit, and the bits.
CompressBlock(lz, before, block) ==
  With(block, LAMBDA b : With(LzCodes(lz, b.codes, before \o b.head), LAMBDA done :
    IF done.ok THEN [ok |-> Len(done.s) \div 8 < OUT_BUF_SIZE, s |-> done.s]
    ELSE [ok |-> FALSE, s |-> before \o b.head]))

\* Zeros up to the end of the byte.
Padding(s) == [k \in 1..(7 - ((Len(s) + 7) % 8)) |-> 0]

\* Fallback for a block that would grow: it is stored.  d.dict still has it.
RawBlock(d, before) ==
  LET s == before \o <<0, 0>>
      n == d.total_lz_bytes
  IN s \o Padding(s)
       \o BitsOf(n, 16) \o BitsOf(65535 - n, 16)
       \o Concat([i \in 1..n |->
            BitsOf(d.dict[(d.lz_dict_pos + i - 1) % DICT_SIZE], 8)])

InDict(d) == d.lookahead_pos - d.lz_dict_pos <= d.dict_size

\* The bits of the block, its kind, and whether the output buffer had room for
\* all of them (the code asserts that it had).
BlockOf(d, before) ==
  LET kind == IF d.total_lz_bytes < STATIC_LIMIT THEN "static" ELSE "dynamic"
      grown(first) ==
        /\ d.total_lz_bytes > 0
        /\ Len(first.s) \div 8 - Len(before) \div 8 + 1 >= d.total_lz_bytes
      choose(first) ==
        CASE grown(first) /\ InDict(d) -> [kind |-> "raw", s |-> RawBlock(d, before)]
          [] ~(grown(first) /\ InDict(d)) /\ first.ok -> [kind |-> kind, s |-> first.s]
          [] OTHER -> [kind |-> "again",
                       s |-> CompressBlock(d.lz, before, StaticBlock(d.lz)).s]
  IN With(CompressBlock(d.lz, before, IF kind = "static" THEN StaticBlock(d.lz)
                                      ELSE DynamicBlock(d.lz)), choose)

\* tdefl_flush_block: the bytes completed go to m_pPut_buf_func, and the code
\* buffer starts again empty whatever the callback says.  fail is the call of
\* the callback that fails, 0 for none.
FlushBlock(d, finish, fail) ==
  LET put(kind, s) ==
        LET full == 8 * (Len(s) \div 8)
            puts == IF full > 0 THEN d.puts + 1 ELSE d.puts
            e == [d EXCEPT !.pending = SubSeq(s, full + 1, Len(s)),
                           !.lost = @ \/ full >= 8 * OUT_BUF_SIZE,
                           !.lz = <<>>, !.total_lz_bytes = 0,
                           !.lz_dict_pos = @ + d.total_lz_bytes,
                           !.blocks = Append(@, kind), !.puts = puts]
        IN IF full > 0 /\ puts = fail THEN [e EXCEPT !.status = "put_buf_failed"]
           ELSE [e EXCEPT !.file = @ \o SubSeq(s, 1, full)]
  IN With(BlockOf(d, Append(d.pending, IF finish THEN 1 ELSE 0)), LAMBDA block :
       With(block.s \o IF finish THEN Padding(block.s) ELSE <<>>,
            LAMBDA s : put(block.kind, s)))

----------------------------------------------------------------------------
(******************************* Finding codes *****************************)

\* tdefl_record_literal and tdefl_record_match.
RecordLiteral(d, lit) ==
  [d EXCEPT !.total_lz_bytes = @ + 1,
            !.lz = Append(@, [len |-> 0, dist |-> 0, lit |-> lit])]

RecordMatch(d, len, dist) ==
  [d EXCEPT !.total_lz_bytes = @ + len,
            !.lz = Append(@, [len |-> len, dist |-> dist, lit |-> 0])]

\* Bytes of m_lz_code_buf in use: a literal takes one, a match three, and each
\* eight of them a byte of flags, which is set aside ahead of its first code.
LzCodeBytes(d) ==
  1 + Len(d.lz) \div 8 +
  Iterate(LAMBDA n, c : n + (IF IsMatch(c) THEN 3 ELSE 1), 0, d.lz)

Hash(a, b, c) ==
  LET shift == 2^((HASH_BITS + 2) \div 3)
  IN (((a * shift * shift) ^^ (b * shift)) ^^ c) % 2^HASH_BITS

\* Mutants: no copy past the end; a position that is not cut to 16 bits.
Bug_InsertByte(d, c) ==
  LET dst   == (d.lookahead_pos + d.lookahead_size) % DICT_SIZE
      dict  == [d.dict EXCEPT ![dst] = c]
      size  == d.lookahead_size + 1
      ins   == d.lookahead_pos + size - 3
      h     == Hash(dict[ins % DICT_SIZE], dict[(ins + 1) % DICT_SIZE], c)
      added == [d EXCEPT !.dict = dict, !.lookahead_size = size]
  IN IF size + d.dict_size < MIN_MATCH THEN added
     ELSE [added EXCEPT !.next[ins % DICT_SIZE] = d.hash[h], !.hash[h] = ins % POS_SIZE]

\* One byte of input enters the dictionary.  The first MAX_MATCH - 1 bytes are
\* kept twice, so that comparing may run past the end.  The three last bytes
\* go to the head of the chain of their hash.  (The code keeps a running hash
\* when two bytes are there already; its value is the same.)
InsertByte(d, c) ==
  LET dst   == (d.lookahead_pos + d.lookahead_size) % DICT_SIZE
      dict  == [d.dict EXCEPT ![dst] = c,
                  ![IF dst < MAX_MATCH - 1 THEN DICT_SIZE + dst ELSE dst] = c]
      size  == d.lookahead_size + 1
      ins   == d.lookahead_pos + size - 3
      h     == Hash(dict[ins % DICT_SIZE], dict[(ins + 1) % DICT_SIZE], c)
      added == [d EXCEPT !.dict = dict, !.lookahead_size = size]
  IN IF size + d.dict_size < MIN_MATCH THEN added
     ELSE [added EXCEPT !.next[ins % DICT_SIZE] = d.hash[h],
                        !.hash[h] = ins % POS_SIZE]

\* The lookahead is filled up, and the dictionary gives up what it overwrote.
Fill(d, src) ==
  LET n == Min({Len(src), MAX_MATCH - d.lookahead_size})
  IN With(Iterate(InsertByte, d, SubSeq(src, 1, n)), LAMBDA e :
       [e EXCEPT !.dict_size = Min({DICT_SIZE - e.lookahead_size, @})])

\* How many bytes from a and from b on are the same.
Common(d, a, b) ==
  Max({n \in 0..MAX_MATCH : \A k \in 0..n - 1 : d.dict[a + k] = d.dict[b + k]})

\* tdefl_find_match, along the hash chain.  w: the place last looked at, the
\* probes left (one counts for three steps of the chain), the step of the
\* three, the best match so far, and whether it has returned.
Walk(d, w) ==
  LET pos    == d.lookahead_pos % DICT_SIZE
      probes == IF w.step = 0 THEN w.probes - 1 ELSE w.probes
      next   == d.next[w.at]
      dist   == (d.lookahead_pos - next) % POS_SIZE
      at     == next % DICT_SIZE
      on     == [w EXCEPT !.at = at, !.probes = probes, !.step = 0]
      compare(len) ==
        IF len <= w.len THEN on
        ELSE [on EXCEPT !.dist = dist, !.len = Min({d.lookahead_size, len}),
                        !.end = len >= d.lookahead_size]
  IN CASE probes = 0 \/ next = 0 \/ dist > d.dict_size -> [w EXCEPT !.end = TRUE]
       [] OTHER -> IF \E k \in w.len - 1..w.len : d.dict[at + k] # d.dict[pos + k]
                   THEN [on EXCEPT !.step = (w.step + 1) % 3]
                   ELSE IF dist = 0 THEN [w EXCEPT !.end = TRUE]
                        ELSE With(Common(d, pos, at), compare)

FindMatch(d, len) ==
  Repeat(LAMBDA w : ~w.end, LAMBDA w : Walk(d, w),
         [at |-> d.lookahead_pos % DICT_SIZE, step |-> 0, dist |-> 0, len |-> len,
          probes |-> IF len >= LONG_ENOUGH THEN FEW_PROBES ELSE PROBES,
          end |-> d.lookahead_size <= len], 6)

\* The match that may be used: none that is short and far, and none whose
\* distance equals the place in the dictionary.
Match(d) ==
  With(FindMatch(d, IF d.saved_len > 0 THEN d.saved_len ELSE MIN_MATCH - 1), LAMBDA w :
    IF (w.len = MIN_MATCH /\ w.dist >= FAR) \/ d.lookahead_pos % DICT_SIZE = w.dist
    THEN [len |-> 0, dist |-> 0] ELSE [len |-> w.len, dist |-> w.dist])

\* The lookahead moves on by n bytes.
Advance(d, n) ==
  [d EXCEPT !.lookahead_pos = @ + n, !.lookahead_size = @ - n,
            !.dict_size = Min({@ + n, DICT_SIZE})]

Save(d, m) ==
  [d EXCEPT !.saved_len = m.len, !.saved_dist = m.dist,
            !.saved_lit = d.dict[d.lookahead_pos % DICT_SIZE]]

\* Lazy parsing: a match is saved for one step, and taken unless the next
\* place has a longer one.
ParseMatch(d, m) ==
  LET lit == d.dict[d.lookahead_pos % DICT_SIZE]
      old == RecordLiteral(d, d.saved_lit)
  IN CASE d.saved_len > 0 /\ m.len > d.saved_len /\ m.len >= LONG_MATCH ->
            Advance([RecordMatch(old, m.len, m.dist) EXCEPT !.saved_len = 0], m.len)
       [] d.saved_len > 0 /\ m.len > d.saved_len /\ m.len < LONG_MATCH ->
            Advance(Save(old, m), 1)
       [] d.saved_len > 0 /\ m.len <= d.saved_len ->
            Advance([RecordMatch(d, d.saved_len, d.saved_dist) EXCEPT !.saved_len = 0],
                    d.saved_len - 1)
       [] d.saved_len = 0 /\ m.dist = 0 -> Advance(RecordLiteral(d, lit), 1)
       [] d.saved_len = 0 /\ m.dist > 0 /\ m.len >= LONG_MATCH ->
            Advance(RecordMatch(d, m.len, m.dist), m.len)
       [] OTHER -> Advance(Save(d, m), 1)

Parse(d) == With(Match(d), LAMBDA m : ParseMatch(d, m))

\* Is it time to write a block?
BlockFull(d) ==
  \/ LzCodeBytes(d) > LZ_CODE_BUF_SIZE - 8
  \/ d.total_lz_bytes > BLOCK_BYTES
     /\ (LzCodeBytes(d) * 115) \div 128 >= d.total_lz_bytes

\* Mutant: it does not wait for MAX_MATCH bytes.
Bug_NormalStep(c, finish, fail) ==
  With(Fill(c.d, c.src), LAMBDA e :
    With(Parse(e), LAMBDA p :
      With(IF BlockFull(p) THEN FlushBlock(p, FALSE, fail) ELSE p, LAMBDA f :
        [d |-> f, end |-> f.status = "put_buf_failed",
         src |-> SubSeq(c.src, e.lookahead_size - c.d.lookahead_size + 1, Len(c.src))])))

\* tdefl_compress_normal: c holds the compressor, the input left, and whether
\* it has returned.  Until the last call MAX_MATCH bytes must be ahead.
NormalStep(c, finish, fail) ==
  With(Fill(c.d, c.src), LAMBDA e :
    LET left == SubSeq(c.src, e.lookahead_size - c.d.lookahead_size + 1, Len(c.src))
    IN IF ~finish /\ e.lookahead_size < MAX_MATCH
       THEN [d |-> e, src |-> left, end |-> TRUE]
       ELSE With(Parse(e), LAMBDA p :
              With(IF BlockFull(p) THEN FlushBlock(p, FALSE, fail) ELSE p, LAMBDA f :
                [d |-> f, src |-> left, end |-> f.status = "put_buf_failed"])))

CompressNormal(d, src, finish, fail) ==
  Repeat(LAMBDA c : ~c.end /\ (c.src # <<>> \/ (finish /\ c.d.lookahead_size > 0)),
         LAMBDA c : NormalStep(c, finish, fail),
         [d |-> d, src |-> src, end |-> FALSE], 10).d

\* Mutant: it forgets the status of the call before.
Bug_TdeflCompress(d0, src, finish, fail) ==
  With(CompressNormal([d0 EXCEPT !.status = "okay", !.puts = 0], src, finish, fail),
    LAMBDA e : With(IF finish /\ e.status = "okay" THEN FlushBlock(e, TRUE, fail) ELSE e,
      LAMBDA f : IF f.status = "put_buf_failed" THEN f
                 ELSE [f EXCEPT !.status = IF finish THEN "done" ELSE "okay"]))

\* tdefl_compress_buffer: a whole call.
TdeflCompress(d0, src, finish, fail) ==
  LET d == [d0 EXCEPT !.wants_to_finish = @ \/ finish, !.puts = 0]
      ends(e) == finish /\ e.lookahead_size = 0 /\ e.status = "okay"
      result(f) ==
        IF f.status = "put_buf_failed" THEN f
        ELSE [f EXCEPT !.finished = finish, !.status = IF finish THEN "done" ELSE "okay"]
  IN CASE d0.status # "okay" \/ (d0.wants_to_finish /\ ~finish) ->
            [d0 EXCEPT !.status = "bad_param"]
       [] d0.finished -> [d EXCEPT !.status = "done"]
       [] OTHER -> With(CompressNormal(d, src, finish, fail), LAMBDA e :
                     With(IF ends(e) THEN FlushBlock(e, TRUE, fail) ELSE e, result))
====
