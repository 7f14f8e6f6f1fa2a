---- MODULE Compression ----
(***************************************************************************)
(* An entry of the log archive from end to end: zip_entry_fwrite reads the *)
(* log piece by piece and hands each piece to the CRC and to the           *)
(* compressor, zip_entry_close finishes the stream, and a reader inflates  *)
(* it with the decompressor of the same library, in pieces of its own.     *)
(* A write to the archive may fail at any time.                            *)
(***************************************************************************)
EXTENDS Deflate, Inflate, Crc32

CONSTANTS
  Inputs,      \* the contents of the log
  Pieces,      \* how many bytes fread may return
  InSizes,     \* how much input the reader offers at once
  Rooms,       \* how much room it has for output
  MaxFail,     \* which write of a call may fail
  Weights,     \* frequencies of the symbols 0..n - 1
  Limits       \* code size limits

VARIABLES
  data,    \* the log
  fed,     \* how much of it zip_entry_write has got
  stage,   \* "writing", "closing", "closed", "failed"; "codes": no log, see weights
  d,       \* zip->entry.comp
  crc,     \* zip->entry.uncomp_crc32
  broken,  \* a write has failed (history)
  r,       \* the reader's tinfl_decompressor
  taken,   \* how many bytes of the stream it has consumed
  idle,    \* its last call neither took nor wrote anything (history)
  weights  \* frequencies for which codes are made, beside those of the log

vars == <<data, fed, stage, d, crc, broken, r, taken, idle, weights>>

FileBytes == Len(d.file) \div 8

Init ==
  /\ \/ data \in Inputs /\ weights = <<1>> /\ stage = "writing"
     \/ data = <<>> /\ weights \in Weights /\ stage = "codes"
  /\ fed = 0
  /\ d = tdefl_init
  /\ crc = CRC32_INIT
  /\ broken = FALSE
  /\ r = tinfl_init
  /\ taken = 0
  /\ idle = FALSE

\* One turn of the loop of zip_entry_fwrite: fread, and zip_entry_write.  On an
\* error the loop ends.
WritePiece(n, fail) ==
  LET piece == SubSeq(data, fed + 1, Min({fed + n, Len(data)}))
  IN /\ stage = "writing" /\ fed < Len(data)
     /\ fed' = fed + Len(piece)
     /\ crc' = mz_crc32(crc, piece)
     /\ d' = TdeflCompress(d, piece, FALSE, fail)
     /\ fail > 0 => d'.status = "put_buf_failed"
     /\ broken' = (broken \/ fail > 0)
     /\ stage' = IF d'.status = "okay" THEN "writing" ELSE "closing"
     /\ UNCHANGED <<data, r, taken, idle, weights>>

\* zip_entry_close: TDEFL_FINISH, and the entry counts only if that succeeds.
CloseEntry(fail) ==
  /\ stage = "closing" \/ (stage = "writing" /\ fed = Len(data))
  /\ d' = TdeflCompress(d, <<>>, TRUE, fail)
  /\ fail > 0 => d'.status = "put_buf_failed"
  /\ broken' = (broken \/ fail > 0)
  /\ stage' = IF d'.status \in {"okay", "done"} THEN "closed" ELSE "failed"
  /\ UNCHANGED <<data, fed, crc, r, taken, idle, weights>>

\* The reader: the next bytes of the stream, and where to put the output.  It
\* says whether there is more input to come.
InflateSome(n, room) ==
  LET given == SubSeq(d.file, 8 * taken + 1, 8 * Min({taken + n, FileBytes}))
      more  == taken + n < FileBytes
  IN /\ stage = "closed" /\ r.status \notin {"done", "failed"}
     /\ \E q \in {TinflDecompress(r, given, room, more)} :
          /\ r' = q
          /\ taken' = taken + (Len(given) - Len(q.in)) \div 8
          /\ idle' = (/\ q.status \notin {"done", "failed"}
                      /\ taken' = taken /\ Len(q.out) = Len(r.out))
     /\ UNCHANGED <<data, fed, stage, d, crc, broken, weights>>

Next ==
  \/ \E n \in Pieces, fail \in 0..MaxFail : WritePiece(n, fail)
  \/ \E fail \in 0..MaxFail : CloseEntry(fail)
  \/ \E n \in InSizes, room \in Rooms : InflateSome(n, room)

Spec == Init /\ [][Next]_vars

----------------------------------------------------------------------------
TypeOK ==
  /\ data \in Inputs /\ fed \in 0..Len(data) /\ taken \in 0..FileBytes
  /\ stage \in {"codes", "writing", "closing", "closed", "failed"}
  /\ d.status \in {"okay", "done", "bad_param", "put_buf_failed"}
  /\ \A k \in DOMAIN d.hash : d.hash[k] \in 0..POS_SIZE - 1
  /\ d.lookahead_size + d.dict_size <= DICT_SIZE + MAX_MATCH
  /\ crc \in [1..8 -> 0..15] /\ broken \in BOOLEAN /\ idle \in BOOLEAN
  /\ r.status \in {"running", "needs_more_input", "has_more_output", "done", "failed"}

\* Whatever the pieces in which the log was read and the stream is taken, and
\* wherever the decompressor is suspended, what it has written so far is how the
\* log begins; it never rejects the stream, and says that it is over only when it
\* has written the whole log.
DecodesThePrefix ==
  /\ r.status # "failed" /\ IsPrefix(r.out, data)
  /\ r.status = "done" => r.out = data

\* The compressed stream does not depend on how the log was cut into pieces: it
\* is the one of a single call.  (Looked at before the reader starts.)
PiecesDoNotMatter ==
  stage = "closed" /\ r = tinfl_init =>
    d.file = TdeflCompress(TdeflCompress(tdefl_init, data, FALSE, 0), <<>>, TRUE, 0).file

\* The CRC summed up piece by piece is the one of a single call, and the CRC-32
\* of what was written so far (computed bit by bit for the first few bytes).
CrcOfWritten ==
  LET written == SubSeq(data, 1, fed)
  IN crc = mz_crc32(CRC32_INIT, written) /\ (fed <= 6 => crc = CrcOf(written))

\* An entry is closed without an error only if no write to the archive failed,
\* however many calls were made after the one that failed; its CRC is then the
\* one of the whole log.
ClosedIsUnbroken ==
  /\ stage = "closed" => ~broken /\ fed = Len(data)
  /\ CrcOfWritten

\* The output buffer of the compressor has room for every block it decides to
\* write (asserted at the end of tdefl_flush_block), and lookahead and
\* dictionary together fit the ring.
RoomForBlock == TypeOK /\ ~d.lost

\* Every call for which there is room takes input, writes output or ends: with
\* the bounds of DecodesThePrefix the reader gets to the end of every stream.
\* (TLC evaluates ENABLED of a call too slowly to check this under fairness.)
EveryCallAdvances == ~idle

----------------------------------------------------------------------------
(* The algorithms by themselves.                                           *)

\* The symbol and the extra bits that the compressor looks up for a length or a
\* distance are the ones from which the decompressor computes it back: for every
\* length, and on both sides of every place where the distance symbol changes.
SymbolsAgree ==
  /\ \A n \in 0..255 :
       LET k == LenSym(n) - 256
       IN /\ LengthExtra[k] = LenExtra(n)
          /\ LengthBase[k] + (n % 2^LenExtra(n)) = n + MIN_MATCH
  /\ \A n \in {0, 1} \cup {m * 2^k + o : m \in {2, 3}, k \in 0..13, o \in {-1, 0}} :
       LET k == DistSym(n) + 1
       IN /\ DistExtraOf[k] = DistExtra(n)
          /\ DistBase[k] + (n % 2^DistExtra(n)) = n + 1

\* The cost of the best code for these weights, the definition: the two smallest
\* weights are merged, again and again.
RECURSIVE BestCost(_)
BestCost(ws) ==
  IF Len(ws) < 2 THEN 0
  ELSE LET s == SortSeq(ws, LAMBDA a, b : a < b)
           w == s[1] + s[2]
       IN w + BestCost(Append(SubSeq(s, 3, Len(s)), w))

Cost(count, sizes) ==
  Iterate(LAMBDA a, s : a + count[s] * sizes[s], 0,
          [k \in 1..Cardinality(DOMAIN count) |-> k - 1])

\* Every code uses up the code space exactly, respects its limit, and costs as
\* little as a Huffman code unless the limit made it longer.
GoodCodes ==
  \A limit \in {l \in Limits : 2^l >= Len(weights)} :
    LET count == Array(weights)
        sizes == CodeSizes(count, limit)
        free  == CodeSizes(count, 24)  \* longer than any of these codes
        used  == {s \in DOMAIN count : count[s] > 0}
        codes == Codes(sizes, limit)
    IN /\ \A s \in DOMAIN count : sizes[s] <= limit /\ (sizes[s] > 0 <=> s \in used)
       /\ Cardinality(used) > 1 =>
            /\ TableOk(sizes)
            /\ Cost(count, free) = BestCost(SelectSeq(weights, LAMBDA n : n > 0))
       /\ \A s, t \in used : s # t => ~IsPrefix(codes[s], codes[t])
       /\ (\A s \in used : free[s] <= limit) => Cost(count, sizes) = Cost(count, free)
       /\ \A s, t \in used : count[s] > count[t] => sizes[s] <= sizes[t]

\* Both halves of the coding: which symbol, and which bits for a symbol.
CodesRight == SymbolsAgree /\ GoodCodes
====
