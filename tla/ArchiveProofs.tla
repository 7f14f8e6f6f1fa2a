---- MODULE ArchiveProofs ----
(***************************************************************************)
(* What a reader makes of an archive that is made anew or appended to:     *)
(* zip_open with 'w', 'a' or 'd', entries, and zip_close, where any write  *)
(* may fail and the process may die.  For any names, contents and limits.  *)
(*                                                                         *)
(* Deleting moves the contents of the file by lengths that recursive       *)
(* functions add up, so the results on all archives hold as long as        *)
(* nothing is deleted, [][~Deletes]_vars; those on an archive made anew    *)
(* hold also when entries were deleted from what was in the file before.   *)
(***************************************************************************)
EXTENDS ZipArchive, FiniteSetTheorems, SequenceTheorems, TLAPS

-----------------------------------------------------------------------------
(* Cells and writes.                                                       *)

LocalHeaders ==
    [k : {"local"}, method : Nat, comp : Nat, uncomp : Nat, crc : Seq(Units)]
Records ==
    [k : {"central"}, name : Names, ofs : Nat, method : Nat, comp : Nat, uncomp : Nat,
     crc : Seq(Units)]

\* What the entries are made of.
Plain ==
    {Zero, Torn, FinalBlock} \cup {Name(n) : n \in Names}
      \cup {Stored(u) : u \in Units} \cup {Deflated(u) : u \in Units}
      \cup LocalHeaders
Ends == [k : {"end"}, total : Nat, size : Nat, ofs : Nat]
Cells == Plain \cup Records \cup Ends

LEMMA PlainKinds == \A c \in Plain : c.k # "end" /\ c.k # "central"
BY DEF Plain, LocalHeaders, Zero, Torn, FinalBlock, Name, Stored, Deflated

LEMMA MaxIs ==
    ASSUME NEW S \in SUBSET Int, NEW m \in S, \A x \in S : x <= m
    PROVE  Max(S) = m
<1>1. \A y \in S : m >= y
    OBVIOUS
<1>2. PICK z \in S : \A y \in S : z >= y
    BY <1>1
<1>3. Max(S) \in S /\ \A y \in S : Max(S) >= y
    BY <1>1 DEF Max
<1>4. Max(S) \in Int /\ m \in Int /\ Max(S) >= m /\ Max(S) <= m
    BY <1>3
<1>5. QED
    BY ONLY <1>4

LEMMA MaxOfTwo ==
    ASSUME NEW a \in Nat, NEW b \in Nat
    PROVE  Max({a, b}) \in {a, b} /\ Max({a, b}) >= a /\ Max({a, b}) >= b
<1>1. CASE a >= b
    <2>1. Max({a, b}) = a
        BY <1>1, MaxIs
    <2>2. QED
        BY <1>1, <2>1
<1>2. CASE b >= a
    <2>1. Max({a, b}) = b
        BY <1>2, MaxIs
    <2>2. QED
        BY <1>2, <2>1
<1>3. QED
    BY <1>1, <1>2

\* What a write at an offset inside the file, or at its end, does to the cells.
LEMMA PutProperties ==
    ASSUME NEW S, NEW f \in Seq(S), NEW cells \in Seq(S), NEW ofs \in Nat, ofs <= Len(f)
    PROVE  /\ Put(f, ofs, cells) \in Seq(S)
           /\ Len(Put(f, ofs, cells)) \in Nat
           /\ Len(Put(f, ofs, cells)) \in {Len(f), ofs + Len(cells)}
           /\ Len(Put(f, ofs, cells)) >= Len(f)
           /\ Len(Put(f, ofs, cells)) >= ofs + Len(cells)
           /\ \A i \in 1..Len(cells) : Put(f, ofs, cells)[ofs + i] = cells[i]
           /\ \A i \in 1..Len(f) : i <= ofs \/ i > ofs + Len(cells) =>
                  Put(f, ofs, cells)[i] = f[i]
<1> DEFINE n == Max({Len(f), ofs + Len(cells)})
           p == [i \in 1..n |->
                   IF i \in ofs + 1..ofs + Len(cells) THEN cells[i - ofs] ELSE f[i]]
<1>1. Len(f) \in Nat /\ Len(cells) \in Nat /\ ofs + Len(cells) \in Nat
    OBVIOUS
<1>2. n \in {Len(f), ofs + Len(cells)} /\ n >= Len(f) /\ n >= ofs + Len(cells) /\ n \in Nat
    BY <1>1, MaxOfTwo
<1> HIDE DEF n
<1>3. \A i \in 1..n : (IF i \in ofs + 1..ofs + Len(cells) THEN cells[i - ofs] ELSE f[i]) \in S
    <2> SUFFICES ASSUME NEW i \in 1..n
                 PROVE  (IF i \in ofs + 1..ofs + Len(cells) THEN cells[i - ofs] ELSE f[i]) \in S
        OBVIOUS
    <2>1. CASE i \in ofs + 1..ofs + Len(cells)
        <3>1. i - ofs \in 1..Len(cells)
            BY <1>1, <2>1
        <3>2. QED
            BY <2>1, <3>1
    <2>2. CASE i \notin ofs + 1..ofs + Len(cells)
        <3>1. i \in 1..Len(f)
            BY <1>1, <1>2, <2>2
        <3>2. QED
            BY <2>2, <3>1
    <2>3. QED
        BY <2>1, <2>2
<1>4. p \in Seq(S) /\ Len(p) = n
    BY <1>2, <1>3
<1>5. Put(f, ofs, cells) = p
    BY DEF Put, n
<1>6. \A i \in 1..Len(cells) : p[ofs + i] = cells[i]
    <2> SUFFICES ASSUME NEW i \in 1..Len(cells) PROVE p[ofs + i] = cells[i]
        OBVIOUS
    <2>1. ofs + i \in 1..n /\ ofs + i \in ofs + 1..ofs + Len(cells) /\ (ofs + i) - ofs = i
        BY <1>1, <1>2
    <2>2. QED
        BY <2>1
<1>7. \A i \in 1..Len(f) : i <= ofs \/ i > ofs + Len(cells) => p[i] = f[i]
    BY <1>1, <1>2
<1>8. QED
    BY <1>2, <1>4, <1>5, <1>6, <1>7

\* A write that fails writes nothing else than a torn cell.
LEMMA PartlyType ==
    ASSUME NEW S, NEW T, NEW cells \in Seq(T), Torn \in S,
           \A i \in 1..Len(cells) - 1 : cells[i] \in S, NEW part \in Partly(cells)
    PROVE  part \in Seq(S)
<1>1. PICK n \in 0..Len(cells) - 1 :
          part = SubSeq(cells, 1, n) \/ part = Append(SubSeq(cells, 1, n), Torn)
    BY DEF Partly
<1>2. SubSeq(cells, 1, n) \in Seq(S)
    <2>1. Len(cells) \in Nat /\ n \in Nat /\ n <= Len(cells) - 1
        BY <1>1
    <2>2. \A i \in 1..n : cells[i] \in S
        BY <2>1
    <2>3. QED
        BY <2>1, <2>2, SubSeqProperties
<1>3. QED
    BY <1>1, <1>2

-----------------------------------------------------------------------------
(* The reader.                                                             *)

LEMMA MaxNat ==
    ASSUME NEW S \in SUBSET Nat, S # {}, NEW n \in Nat, \A x \in S : x <= n
    PROVE  Max(S) \in S /\ \A y \in S : y <= Max(S)
<1> DEFINE T == {n - x : x \in S}
<1>1. T \in SUBSET Nat /\ T # {}
    <2>1. \A x \in S : x \in Nat /\ x <= n /\ n - x \in Nat
        OBVIOUS
    <2>2. \A t \in T : t \in Nat
        BY <2>1
    <2>3. QED
        BY <2>2
<1>2. PICK t \in T : \A y \in T : <<y, t>> \notin OpToRel(<, Nat)
    BY <1>1, NatLessThanWellFounded, WFMin
<1>3. PICK x \in S : t = n - x
    BY <1>2
<1>4. ASSUME NEW y \in S PROVE y <= x
    <2>1. OpToRel(<, Nat) = {ss \in Nat \X Nat : ss[1] < ss[2]}
        BY DEF OpToRel
    <2>2. n - y \in T /\ n - y \in Nat /\ t \in Nat
        BY <1>1, <1>2
    <2>3. <<n - y, t>> \in Nat \X Nat /\ <<n - y, t>> \notin {ss \in Nat \X Nat : ss[1] < ss[2]}
        BY <1>2, <2>1, <2>2
    <2>4. ~(n - y < t)
        BY <2>3
    <2>5. QED
        BY <1>3, <2>4
<1>5. QED
    BY <1>4, MaxIs

LEMMA MinNat ==
    ASSUME NEW S \in SUBSET Nat, S # {}
    PROVE  Min(S) \in S /\ \A y \in S : Min(S) <= y
<1>1. PICK x \in S : \A y \in S : <<y, x>> \notin OpToRel(<, Nat)
    BY NatLessThanWellFounded, WFMin
<1>2. ASSUME NEW y \in S PROVE x <= y
    <2>1. OpToRel(<, Nat) = {ss \in Nat \X Nat : ss[1] < ss[2]}
        BY DEF OpToRel
    <2>2. <<y, x>> \in Nat \X Nat /\ <<y, x>> \notin {ss \in Nat \X Nat : ss[1] < ss[2]}
        BY <1>1, <2>1
    <2>3. ~(<<y, x>>[1] < <<y, x>>[2])
        BY <2>2
    <2>4. QED
        BY <2>3
<1>3. QED
    BY <1>2 DEF Min

\* The scan from the end of the file stops at its last end record, or at none.
LEMMA EndFound ==
    ASSUME NEW S, NEW f \in Seq(S)
    PROVE  /\ LocateEnd(f) \in 0..Len(f)
           /\ LocateEnd(f) > 0 => f[LocateEnd(f)].k = "end"
           /\ \A i \in 1..Len(f) : f[i].k = "end" => i <= LocateEnd(f)
<1> DEFINE ends == {0} \cup {i \in DOMAIN f : f[i].k = "end"}
<1>1. DOMAIN f = 1..Len(f) /\ Len(f) \in Nat
    OBVIOUS
<1>2. ends \in SUBSET Nat /\ ends # {} /\ \A x \in ends : x <= Len(f)
    BY <1>1
<1>3. Max(ends) \in ends /\ \A y \in ends : y <= Max(ends)
    BY <1>1, <1>2, MaxNat
<1>4. LocateEnd(f) = Max(ends)
    BY DEF LocateEnd
<1>5. QED
    BY <1>1, <1>3, <1>4

\* What a reader gets for a record hangs only on the cells from its local header
\* to the end of its contents.
LEMMA ExtractFrame ==
    ASSUME NEW S, NEW f \in Seq(S), NEW T, NEW g \in Seq(T), NEW c \in Records,
           NEW size \in Nat, c.ofs + 2 + c.comp <= size, size <= Len(f), size <= Len(g),
           \A i \in 1..size : g[i] = f[i]
    PROVE  Extract(g, c) = Extract(f, c)
<1>1. c.ofs \in Nat /\ c.comp \in Nat /\ Len(f) \in Nat /\ Len(g) \in Nat
    BY DEF Records
<1>2. g[c.ofs + 1] = f[c.ofs + 1]
    BY <1>1
<1>3. ~(c.ofs + 2 + c.comp > Len(f)) /\ ~(c.ofs + 2 + c.comp > Len(g))
    BY <1>1
<1>4. SubSeq(g, c.ofs + 2 + 1, c.ofs + 2 + c.comp) = SubSeq(f, c.ofs + 2 + 1, c.ofs + 2 + c.comp)
    <2> DEFINE m == c.ofs + 2 + 1
               n == c.ofs + 2 + c.comp
    <2>1. m \in Nat /\ m >= 1 /\ n \in Nat
        BY ONLY <1>1
    <2>2. \A i \in m..n : f[i] \in S /\ g[i] \in S /\ g[i] = f[i]
        <3> SUFFICES ASSUME NEW i \in m..n PROVE f[i] \in S /\ g[i] \in S /\ g[i] = f[i]
            OBVIOUS
        <3>1. i \in 1..Len(f) /\ i \in 1..size
            BY <1>1, <2>1
        <3>2. QED
            BY <3>1
    <2> HIDE DEF m, n
    <2>3. /\ SubSeq(f, m, n) \in Seq(S) /\ SubSeq(g, m, n) \in Seq(S)
          /\ Len(SubSeq(f, m, n)) = Len(SubSeq(g, m, n))
          /\ \A i \in 1..Len(SubSeq(f, m, n)) : SubSeq(g, m, n)[i] = SubSeq(f, m, n)[i]
        BY <2>1, <2>2, SubSeqProperties
    <2>4. SubSeq(g, m, n) = SubSeq(f, m, n)
        BY ONLY <2>3, SeqEqual
    <2>5. QED
        BY ONLY <2>4 DEF m, n
<1>5. QED
    BY <1>2, <1>3, <1>4 DEF Extract

-----------------------------------------------------------------------------
(* The invariant.                                                          *)

OpenedEntries ==
    [name : Names, header_offset : Nat, offset : Nat, method : Nat, comp : Nat, uncomp : Nat,
     crc : Seq(Units), pending : Seq(Units), status : {"okay", "failed"}]
Logged == [name : Names, data : Seq(Units)]

\* A record c of the directory and the file f say what the entry d was given, and
\* a write past the first cells of the file does not change it.
Kept(f, c, d, size) ==
    /\ c.name = d.name
    /\ c.ofs + 2 + c.comp <= size
    /\ c.method = 0 => c.comp = c.uncomp
    /\ c.uncomp > 0 => c.comp > 0
    /\ Extract(f, c) = d.data
    /\ f[c.ofs + 1] = [k |-> "local", method |-> c.method, comp |-> c.comp,
                       uncomp |-> c.uncomp, crc |-> c.crc]
    /\ f[c.ofs + 2] = Name(c.name)

\* The entries lie one after the other, up to size.
Chained(dir, size) ==
    /\ Len(dir) = 0 => size = 0
    /\ \A i \in 1..Len(dir) :
         dir[i].ofs + 2 + dir[i].comp = IF i < Len(dir) THEN dir[i + 1].ofs ELSE size

\* An end record at e that closes the directory dir, which begins after size
\* cells: of its records as many are in the file as a failed write left.
Current(f, e, dir, size) ==
    /\ e = size + Len(dir) + 1
    /\ f[e].ofs = size /\ f[e].size = Len(dir) /\ f[e].total = Len(dir)
    /\ \A i \in 1..Len(dir) : f[size + i].k = "central" => f[size + i] = dir[i]
\* An end record of a directory that entries have been written over.
Dead(f, e, size) ==
    f[e].total >= 1 /\ f[e].ofs + 1 <= size /\ f[f[e].ofs + 1].k # "central"

\* The first cells of the file f hold the entries of lg, the directory dir says
\* where, and no end record says anything else.
Held(f, size, dir, lg) ==
    /\ f \in Seq(Cells) /\ size \in Nat /\ size <= Len(f)
    /\ dir \in Seq(Records) /\ lg \in Seq(Logged) /\ Len(dir) = Len(lg)
    /\ \A i \in 1..Len(lg) : Kept(f, dir[i], lg[i], size)
    /\ Chained(dir, size)
    /\ \A e \in 1..Len(f) :
         f[e].k = "end" => Current(f, e, dir, size) \/ Dead(f, e, size)

\* One unit of contents in the file.
Cell(u) == IF level = 0 THEN Stored(u) ELSE Deflated(u)

\* The entry being written: what it was given is in the file, past the entries
\* closed before, but for what the compressor keeps back.
Growing(e) ==
    /\ e.header_offset = m_archive_size
    /\ e.offset = m_archive_size + 2 + e.comp
    /\ e.offset <= Len(file)
    /\ e.uncomp = Len(e.crc)
    /\ e.comp + Len(e.pending) = Len(e.crc)
    /\ level = 0 => Len(e.pending) = 0
    /\ file[m_archive_size + 2] = Name(e.name)
    /\ \A i \in 1..e.comp : file[m_archive_size + 2 + i] = Cell(e.crc[i])
    /\ \A j \in 1..Len(e.pending) : e.pending[j] = e.crc[e.comp + j]
EntryGrows ==
    entry # NoEntry => entry \in OpenedEntries /\ (entry.status = "okay" => Growing(entry))

\* While the archive is written.
Working ==
    /\ Held(file, m_archive_size, m_central_dir, log)
    /\ level \in Nat
    /\ m_total_files = Len(log)
    /\ m_central_dir_offsets = [i \in 1..Len(log) |-> i - 1]
    /\ EntryGrows

\* What zip_close makes of it.
Complete == Accepts(file) /\ View(file) = log

ArchiveInv ==
    /\ mode \in {"closed", "writing"}
    /\ ToSet(log) \subseteq written
    /\ mode = "writing" => Working /\ sound = FALSE
    /\ mode = "closed" =>
         /\ Accepts(file) => Held(file, file[LocateEnd(file)].ofs, Directory(file), log)
         /\ sound => Complete
FreshInv == how = "w" => ArchiveInv

-----------------------------------------------------------------------------
(* The steps of a call that writes.                                        *)

LEMMA KeptFrame ==
    ASSUME NEW S, NEW f \in Seq(S), NEW T, NEW g \in Seq(T), NEW c \in Records, NEW d,
           NEW size \in Nat, size <= Len(f), size <= Len(g), Kept(f, c, d, size),
           \A i \in 1..size : g[i] = f[i], NEW more \in Nat, size <= more
    PROVE  Kept(g, c, d, more)
<1>1. c.ofs \in Nat /\ c.comp \in Nat
    BY DEF Records
<1>2. Extract(g, c) = Extract(f, c)
    BY ExtractFrame DEF Kept
<1>3. c.ofs + 2 + c.comp <= size
    BY DEF Kept
<1>4. c.ofs + 2 + c.comp <= more /\ c.ofs + 1 \in 1..size /\ c.ofs + 2 \in 1..size
    BY <1>1, <1>3
<1>5. QED
    BY <1>2, <1>4 DEF Kept

LEMMA EndTypes ==
    ASSUME NEW f \in Seq(Cells), NEW e \in 1..Len(f), f[e].k = "end"
    PROVE  f[e].ofs \in Nat /\ f[e].size \in Nat /\ f[e].total \in Nat
<1>1. f[e] \in Cells
    OBVIOUS
<1>2. f[e] \in Ends
    BY <1>1, PlainKinds DEF Cells, Records
<1>3. QED
    BY <1>2 DEF Ends

\* The file g is the file f with writes of parts of entries past the first cells.
Over(f, g, size) ==
    /\ g \in Seq(Cells) /\ Len(f) <= Len(g)
    /\ \A i \in 1..size : g[i] = f[i]
    /\ \A i \in 1..Len(g) : (i <= Len(f) /\ g[i] = f[i]) \/ g[i] \in Plain

LEMMA OverSelf ==
    ASSUME NEW f \in Seq(Cells), NEW size
    PROVE  Over(f, f, size)
BY DEF Over

LEMMA HeldFrame ==
    ASSUME NEW f, NEW g, NEW size, NEW dir, NEW lg, Held(f, size, dir, lg), Over(f, g, size)
    PROVE  Held(g, size, dir, lg)
<1>1. /\ f \in Seq(Cells) /\ size \in Nat /\ size <= Len(f)
      /\ dir \in Seq(Records) /\ lg \in Seq(Logged) /\ Len(dir) = Len(lg)
      /\ \A i \in 1..Len(lg) : Kept(f, dir[i], lg[i], size)
      /\ Chained(dir, size)
      /\ \A e \in 1..Len(f) :
           f[e].k = "end" => Current(f, e, dir, size) \/ Dead(f, e, size)
    BY DEF Held
<1>2. /\ g \in Seq(Cells) /\ Len(f) <= Len(g)
      /\ \A i \in 1..size : g[i] = f[i]
      /\ \A i \in 1..Len(g) : (i <= Len(f) /\ g[i] = f[i]) \/ g[i] \in Plain
    BY DEF Over
<1>3. Len(f) \in Nat /\ Len(g) \in Nat /\ size <= Len(g) /\ Len(dir) \in Nat
    BY <1>1, <1>2
<1>4. ASSUME NEW i \in 1..Len(lg) PROVE Kept(g, dir[i], lg[i], size)
    <2>1. dir[i] \in Records /\ Kept(f, dir[i], lg[i], size) /\ size <= size
        BY <1>1, <1>4
    <2>2. QED
        BY <1>1, <1>2, <1>3, <2>1, KeptFrame
<1>5. ASSUME NEW e \in 1..Len(g), g[e].k = "end"
      PROVE  Current(g, e, dir, size) \/ Dead(g, e, size)
    <2>1. e \in 1..Len(f) /\ g[e] = f[e] /\ f[e].k = "end"
        BY <1>2, <1>3, <1>5, PlainKinds
    <2>2. CASE Current(f, e, dir, size)
        <3>1. /\ e = size + Len(dir) + 1
              /\ f[e].ofs = size /\ f[e].size = Len(dir) /\ f[e].total = Len(dir)
              /\ \A i \in 1..Len(dir) : f[size + i].k = "central" => f[size + i] = dir[i]
            BY <2>2 DEF Current
        <3>2. ASSUME NEW i \in 1..Len(dir), g[size + i].k = "central"
              PROVE  g[size + i] = dir[i]
            <4>1. size + i \in 1..Len(g)
                BY <1>1, <1>3, <3>1
            <4>2. g[size + i] = f[size + i]
                BY <1>2, <3>2, <4>1, PlainKinds
            <4>3. QED
                BY <3>1, <3>2, <4>2
        <3>3. QED
            BY <2>1, <3>1, <3>2 DEF Current
    <2>3. CASE Dead(f, e, size)
        <3>1. f[e].total >= 1 /\ f[e].ofs + 1 <= size /\ f[f[e].ofs + 1].k # "central"
            BY <2>3 DEF Dead
        <3>2. f[e].ofs \in Nat
            BY <1>1, <2>1, EndTypes
        <3>3. f[e].ofs + 1 \in 1..size
            BY <1>1, <3>1, <3>2
        <3>4. QED
            BY <1>2, <2>1, <3>1, <3>3 DEF Dead
    <2>4. QED
        BY <1>1, <2>1, <2>2, <2>3
<1>6. QED
    BY <1>1, <1>2, <1>3, <1>4, <1>5 DEF Held

LEMMA WorkingTypes ==
    ASSUME Working
    PROVE  /\ Held(file, m_archive_size, m_central_dir, log)
           /\ file \in Seq(Cells) /\ Len(file) \in Nat
           /\ m_archive_size \in Nat /\ m_archive_size <= Len(file)
           /\ m_central_dir \in Seq(Records) /\ log \in Seq(Logged)
           /\ Len(m_central_dir) = Len(log) /\ Len(log) \in Nat
           /\ m_total_files = Len(log) /\ level \in Nat
BY DEF Working, Held

\* A call that writes parts of an entry past the entries closed before.
LEMMA WorkingKept ==
    ASSUME Working, Over(file, file', m_archive_size),
           UNCHANGED <<level, m_archive_size, m_central_dir, m_central_dir_offsets,
                       m_total_files, log>>,
           EntryGrows'
    PROVE  Working'
<1>1. Held(file, m_archive_size, m_central_dir, log)
    BY DEF Working
<1>2. Held(file', m_archive_size, m_central_dir, log)
    BY <1>1, HeldFrame
<1>3. QED
    BY <1>2 DEF Working

LEMMA PlainCells ==
    ASSUME NEW cells \in Seq(Plain)
    PROVE  cells \in Seq(Cells)
<1>1. \A c \in Plain : c \in Cells
    BY DEF Cells
<1>2. QED
    BY <1>1

\* A write at the end of the entries, or further on.
LEMMA PastEntries ==
    ASSUME Working, NEW f, Over(file, f, m_archive_size),
           NEW ofs \in Nat, m_archive_size <= ofs, ofs <= Len(f), NEW cells \in Seq(Plain)
    PROVE  Over(file, Put(f, ofs, cells), m_archive_size)
<1>1. m_archive_size \in Nat /\ m_archive_size <= Len(file) /\ Len(file) \in Nat
    BY WorkingTypes
<1>2. /\ f \in Seq(Cells) /\ Len(file) <= Len(f)
      /\ \A i \in 1..m_archive_size : f[i] = file[i]
      /\ \A i \in 1..Len(f) : (i <= Len(file) /\ f[i] = file[i]) \/ f[i] \in Plain
    BY DEF Over
<1>3. cells \in Seq(Cells) /\ Len(cells) \in Nat /\ Len(f) \in Nat
    BY <1>2, PlainCells
<1> DEFINE g == Put(f, ofs, cells)
<1>4. /\ g \in Seq(Cells) /\ Len(g) \in Nat /\ Len(g) >= Len(f)
      /\ Len(g) \in {Len(f), ofs + Len(cells)}
      /\ \A i \in 1..Len(cells) : g[ofs + i] = cells[i]
      /\ \A i \in 1..Len(f) : i <= ofs \/ i > ofs + Len(cells) => g[i] = f[i]
    BY ONLY <1>2, <1>3, ofs \in Nat, ofs <= Len(f), PutProperties
<1> HIDE DEF g
<1>5. Len(file) <= Len(g)
    BY <1>1, <1>2, <1>3, <1>4
<1>6. \A i \in 1..m_archive_size : g[i] = file[i]
    <2> SUFFICES ASSUME NEW i \in 1..m_archive_size PROVE g[i] = file[i]
        OBVIOUS
    <2>1. i \in 1..Len(f) /\ i <= ofs
        BY <1>1, <1>2, <1>3
    <2>2. QED
        BY <1>2, <1>4, <2>1
<1>7. ASSUME NEW i \in 1..Len(g) PROVE (i <= Len(file) /\ g[i] = file[i]) \/ g[i] \in Plain
    <2>1. CASE i > ofs /\ i <= ofs + Len(cells)
        <3>1. i - ofs \in 1..Len(cells) /\ ofs + (i - ofs) = i
            BY <1>3, <2>1
        <3>2. g[i] = cells[i - ofs] /\ cells[i - ofs] \in Plain
            BY <1>4, <3>1
        <3>3. QED
            BY <3>2
    <2>2. CASE i <= ofs \/ i > ofs + Len(cells)
        <3>1. i \in 1..Len(f)
            BY <1>3, <1>4, <2>2
        <3>2. QED
            BY <1>2, <1>4, <2>2, <3>1
    <2>3. QED
        BY <1>3, <2>1, <2>2
<1>8. QED
    BY <1>4, <1>5, <1>6, <1>7 DEF g, Over

\* ... or a write there that fails, after which the entry, if any, is given up.
LEMMA FailedPastEntries ==
    ASSUME Working, NEW ofs \in Nat, m_archive_size <= ofs, ofs <= Len(file),
           NEW cells \in Seq(Plain), FailsToWrite(ofs, cells)
    PROVE  Over(file, file', m_archive_size)
<1>1. PICK part \in Partly(cells) : file' = Put(file, ofs, part)
    BY DEF FailsToWrite
<1>2. Len(cells) \in Nat /\ \A i \in 1..Len(cells) - 1 : cells[i] \in Plain
    OBVIOUS
<1>3. Torn \in Plain
    BY DEF Plain
<1>4. part \in Seq(Plain)
    BY <1>2, <1>3, PartlyType
<1>5. Over(file, file, m_archive_size)
    BY WorkingTypes, OverSelf
<1>6. QED
    BY <1>1, <1>4, <1>5, PastEntries

-----------------------------------------------------------------------------
(* Opening and writing an entry.                                           *)

LEMMA LevelType == \A l \in Levels : l \in Nat
BY ArchiveAssumption DEF ArchiveAssumption

LEMMA BufferType == \A buf \in Buffers : buf \in Seq(Units)
BY ArchiveAssumption DEF ArchiveAssumption

LEMMA OpenNewWorks ==
    ASSUME ZipOpenNew
    PROVE  Working' /\ how' = "w" /\ mode' = "writing" /\ sound' = FALSE
<1>1. /\ file' = <<>> /\ m_archive_size' = 0 /\ m_total_files' = 0 /\ m_central_dir' = <<>>
      /\ m_central_dir_offsets' = <<>>
      /\ log' = <<>> /\ level' \in Levels /\ entry' = NoEntry
      /\ how' = "w" /\ mode' = "writing" /\ sound' = FALSE
    BY DEF ZipOpenNew, Opens
<1>2. file' = <<>> /\ m_central_dir' = <<>> /\ log' = <<>>
    BY <1>1
<1>3. file' \in Seq(Cells) /\ m_central_dir' \in Seq(Records) /\ log' \in Seq(Logged)
    BY ONLY <1>2, EmptySeq, Zenon
<1>4. Len(file') = 0 /\ Len(m_central_dir') = 0 /\ Len(log') = 0
    BY <1>2
<1>5. Held(file', m_archive_size', m_central_dir', log')
    BY <1>1, <1>3, <1>4 DEF Held, Chained
<1>6. m_central_dir_offsets' = [i \in 1..Len(log') |-> i - 1]
    BY <1>1, <1>4
<1>7. EntryGrows'
    BY <1>1 DEF EntryGrows
<1>8. QED
    BY <1>1, <1>4, <1>5, <1>6, <1>7, LevelType DEF Working

LEMMA EntryOpenWorks ==
    ASSUME Working, NEW n \in Names, ZipEntryOpen(n)
    PROVE  Working'
<1> DEFINE cells == <<Zero, Name(n)>>
<1>1. /\ file' = Put(file, m_archive_size, cells) /\ entry' = Opened(n)
      /\ UNCHANGED <<level, m_archive_size, m_central_dir, m_central_dir_offsets, m_total_files, log>>
    BY DEF ZipEntryOpen, Writes, HandleKept
<1>2. cells \in Seq(Plain) /\ Len(cells) = 2 /\ cells[2] = Name(n)
    BY DEF Plain
<1> HIDE DEF cells
<1>3. m_archive_size \in Nat /\ m_archive_size <= Len(file) /\ file \in Seq(Cells)
      /\ Len(file) \in Nat
    BY WorkingTypes
<1>4. Over(file, file', m_archive_size)
    BY <1>1, <1>2, <1>3, OverSelf, PastEntries
<1>5. m_archive_size + 2 <= Len(file') /\ file'[m_archive_size + 2] = Name(n)
    <2>1. cells \in Seq(Cells)
        BY <1>2, PlainCells
    <2> DEFINE g == Put(file, m_archive_size, cells)
    <2>2. /\ Len(g) >= m_archive_size + Len(cells)
          /\ \A i \in 1..Len(cells) : g[m_archive_size + i] = cells[i]
        BY ONLY <1>3, <2>1, PutProperties, SMTT(20)
    <2>3. file' = g
        BY <1>1
    <2> HIDE DEF g
    <2>4. 2 \in 1..Len(cells)
        BY <1>2
    <2>5. QED
        BY ONLY <1>2, <1>3, <2>2, <2>3, <2>4
<1> DEFINE none == <<>>
<1>6. none \in Seq(Units) /\ Len(none) = 0
    BY EmptySeq
<1>7. Opened(n).crc = none /\ Opened(n).pending = none
    BY DEF Opened
<1> HIDE DEF none
<1>8. Opened(n) \in OpenedEntries
    <2>1. Opened(n) = [name |-> n, header_offset |-> m_archive_size,
                       offset |-> m_archive_size + 2, method |-> 0, comp |-> 0, uncomp |-> 0,
                       crc |-> none, pending |-> none, status |-> "okay"]
        BY DEF Opened, none
    <2>2. QED
        BY <1>3, <1>6, <2>1 DEF OpenedEntries
<1>9. /\ Opened(n).header_offset = m_archive_size /\ Opened(n).offset = m_archive_size + 2
      /\ Opened(n).name = n
      /\ Opened(n).comp = 0 /\ Opened(n).uncomp = 0
    BY DEF Opened
<1>10. Growing(entry)'
    BY <1>1, <1>3, <1>5, <1>6, <1>7, <1>9 DEF Growing
<1>11. EntryGrows'
    BY <1>1, <1>8, <1>10 DEF EntryGrows
<1>12. QED
    BY <1>1, <1>4, <1>11, WorkingKept

LEMMA EntryOpenFailsWorks ==
    ASSUME Working, NEW n \in Names, ZipEntryOpenFails(n)
    PROVE  Working'
<1> DEFINE cells == <<Zero, Name(n)>>
<1>1. /\ FailsToWrite(m_archive_size, cells) /\ entry' = NoEntry
      /\ UNCHANGED <<level, m_archive_size, m_central_dir, m_central_dir_offsets, m_total_files, log>>
    BY DEF ZipEntryOpenFails, HandleKept
<1>2. cells \in Seq(Plain)
    BY DEF Plain
<1> HIDE DEF cells
<1>3. m_archive_size \in Nat /\ m_archive_size <= m_archive_size /\ m_archive_size <= Len(file)
    BY WorkingTypes
<1>4. Over(file, file', m_archive_size)
    BY <1>1, <1>2, <1>3, FailedPastEntries
<1>5. EntryGrows'
    BY <1>1 DEF EntryGrows
<1>6. QED
    BY <1>1, <1>4, <1>5, WorkingKept

\* What is written after the contents so far continues them.
LEMMA Continued ==
    ASSUME Working, NEW e \in OpenedEntries, Growing(e),
           NEW crc \in Seq(Units), NEW out \in Seq(Units), Len(crc) = e.comp + Len(out),
           \A i \in 1..e.comp : crc[i] = e.crc[i],
           \A j \in 1..Len(out) : out[j] = crc[e.comp + j],
           NEW cells \in Seq(Plain), Len(out) <= Len(cells),
           \A j \in 1..Len(out) : cells[j] = Cell(out[j])
    PROVE  /\ Len(Put(file, e.offset, cells)) >= e.offset + Len(cells)
           /\ Put(file, e.offset, cells)[m_archive_size + 2] = Name(e.name)
           /\ \A i \in 1..Len(crc) :
                Put(file, e.offset, cells)[m_archive_size + 2 + i] = Cell(crc[i])
<1> DEFINE g == Put(file, e.offset, cells)
<1>1. /\ m_archive_size \in Nat /\ file \in Seq(Cells) /\ Len(file) \in Nat
      /\ e.comp \in Nat /\ e.offset \in Nat /\ Len(out) \in Nat /\ Len(cells) \in Nat
    BY WorkingTypes DEF OpenedEntries
<1>2. /\ e.offset = m_archive_size + 2 + e.comp /\ e.offset <= Len(file)
      /\ file[m_archive_size + 2] = Name(e.name)
    BY DEF Growing
<1>3. /\ Len(g) >= e.offset + Len(cells)
      /\ \A i \in 1..Len(cells) : g[e.offset + i] = cells[i]
      /\ \A i \in 1..Len(file) : i <= e.offset => g[i] = file[i]
    <2>1. cells \in Seq(Cells)
        BY PlainCells
    <2>2. QED
        BY ONLY <1>1, <1>2, <2>1, PutProperties
<1> HIDE DEF g
<1>4. ASSUME NEW i \in 1..Len(crc) PROVE g[m_archive_size + 2 + i] = Cell(crc[i])
    <2>1. CASE i <= e.comp
        <3>1. i \in 1..e.comp
            BY <1>1, <2>1
        <3>2. /\ m_archive_size + 2 + i \in 1..Len(file) /\ m_archive_size + 2 + i <= e.offset
            BY <1>1, <1>2, <2>1
        <3>3. file[m_archive_size + 2 + i] = Cell(e.crc[i])
            BY <3>1 DEF Growing
        <3>4. QED
            BY <1>3, <3>1, <3>2, <3>3
    <2>2. CASE i > e.comp
        <3>1. PICK j \in 1..Len(out) : i = e.comp + j
            <4>1. i - e.comp \in 1..Len(out) /\ i = e.comp + (i - e.comp)
                BY <1>1, <2>2
            <4>2. QED
                BY <4>1
        <3>2. j \in 1..Len(cells) /\ m_archive_size + 2 + i = e.offset + j
            BY <1>1, <1>2, <3>1
        <3>3. g[e.offset + j] = cells[j] /\ cells[j] = Cell(out[j]) /\ out[j] = crc[e.comp + j]
            BY <1>3, <3>1, <3>2
        <3>4. QED
            BY ONLY <3>1, <3>2, <3>3
    <2>3. QED
        BY <1>1, <2>1, <2>2
<1>5. g[m_archive_size + 2] = Name(e.name)
    <2>1. m_archive_size + 2 \in 1..Len(file) /\ m_archive_size + 2 <= e.offset
        BY <1>1, <1>2
    <2>2. QED
        BY <1>2, <1>3, <2>1
<1>6. QED
    BY <1>3, <1>4, <1>5 DEF g

\* What the compressor has kept back, and a further buffer, follow what was written.
LEMMA KeptBack ==
    ASSUME NEW e \in OpenedEntries, Growing(e), NEW buf \in Seq(Units)
    PROVE  /\ e.crc \o buf \in Seq(Units) /\ e.pending \o buf \in Seq(Units)
           /\ Len(e.crc \o buf) = Len(e.crc) + Len(buf)
           /\ Len(e.crc \o buf) = e.comp + Len(e.pending \o buf)
           /\ \A i \in 1..e.comp : (e.crc \o buf)[i] = e.crc[i]
           /\ \A j \in 1..Len(e.pending \o buf) :
                (e.pending \o buf)[j] = (e.crc \o buf)[e.comp + j]
<1> DEFINE crc == e.crc
           old == e.pending
<1>1. crc \in Seq(Units) /\ old \in Seq(Units) /\ e.comp \in Nat
    BY DEF OpenedEntries
<1>2. e.comp + Len(old) = Len(crc) /\ \A j \in 1..Len(old) : old[j] = crc[e.comp + j]
    BY DEF Growing
<1> HIDE DEF crc, old
<1>3. /\ crc \o buf \in Seq(Units) /\ Len(crc \o buf) = Len(crc) + Len(buf)
      /\ \A i \in 1..Len(crc) + Len(buf) :
            (crc \o buf)[i] = IF i <= Len(crc) THEN crc[i] ELSE buf[i - Len(crc)]
    BY ONLY <1>1, buf \in Seq(Units), ConcatProperties
<1>4. /\ old \o buf \in Seq(Units) /\ Len(old \o buf) = Len(old) + Len(buf)
      /\ \A i \in 1..Len(old) + Len(buf) :
            (old \o buf)[i] = IF i <= Len(old) THEN old[i] ELSE buf[i - Len(old)]
    BY ONLY <1>1, buf \in Seq(Units), ConcatProperties
<1>5. Len(crc) \in Nat /\ Len(old) \in Nat /\ Len(buf) \in Nat
    BY <1>1
<1>6. e.comp + Len(old) = Len(crc) /\ e.comp \in Nat
    BY <1>1, <1>2
<1>7. \A i \in 1..e.comp : (crc \o buf)[i] = crc[i]
    BY <1>1, <1>2, <1>3, <1>5
<1>8. ASSUME NEW j \in 1..Len(old \o buf) PROVE (old \o buf)[j] = (crc \o buf)[e.comp + j]
    <2>1. j \in 1..Len(old) + Len(buf)
        BY ONLY <1>4, <1>8
    <2>2. j \in Nat /\ j >= 1 /\ j <= Len(old) + Len(buf)
        BY ONLY <1>5, <2>1
    <2>3. e.comp + j \in 1..Len(crc) + Len(buf)
        BY ONLY <1>5, <1>6, <2>2
    <2>4. CASE j <= Len(old)
        <3>1. j \in 1..Len(old) /\ e.comp + j <= Len(crc)
            BY ONLY <1>5, <1>6, <2>2, <2>4
        <3>2. (old \o buf)[j] = old[j]
            BY ONLY <1>4, <2>1, <2>4
        <3>3. (crc \o buf)[e.comp + j] = crc[e.comp + j]
            BY ONLY <1>3, <2>3, <3>1
        <3>4. QED
            BY ONLY <1>2, <3>1, <3>2, <3>3
    <2>5. CASE ~(j <= Len(old))
        <3> DEFINE k == e.comp + j
        <3>1. k - Len(crc) = j - Len(old) /\ ~(k <= Len(crc)) /\ k \in 1..Len(crc) + Len(buf)
            BY ONLY <1>5, <1>6, <2>2, <2>3, <2>5
        <3> HIDE DEF k
        <3>2. (crc \o buf)[k] = buf[j - Len(old)]
            BY ONLY <1>3, <1>5, <3>1
        <3>3. QED
            BY <1>4, <2>1, <2>5, <3>2 DEF k
    <2>6. QED
        BY <2>4, <2>5
<1>9. Len(crc \o buf) = e.comp + Len(old \o buf)
    <2>1. Len(crc \o buf) = Len(crc) + Len(buf) /\ Len(old \o buf) = Len(old) + Len(buf)
        BY <1>3, <1>4
    <2>2. e.comp + (Len(old) + Len(buf)) = Len(crc) + Len(buf)
        BY ONLY <1>5, <1>6
    <2>3. QED
        BY ONLY <2>1, <2>2, Zenon
<1>10. QED
    BY <1>3, <1>4, <1>7, <1>8, <1>9 DEF crc, old

LEMMA UnitCells ==
    ASSUME NEW units \in Seq(Units)
    PROVE  /\ AllStored(units) \in Seq(Plain) /\ Compressed(units) \in Seq(Plain)
           /\ Len(AllStored(units)) = Len(units) /\ Len(Compressed(units)) = Len(units)
           /\ \A j \in 1..Len(units) : /\ AllStored(units)[j] = Stored(units[j])
                                       /\ Compressed(units)[j] = Deflated(units[j])
<1>1. DOMAIN units = 1..Len(units) /\ Len(units) \in Nat
    OBVIOUS
<1>2. \A u \in Units : Stored(u) \in Plain /\ Deflated(u) \in Plain
    BY DEF Plain
<1>3. QED
    BY <1>1, <1>2 DEF AllStored, Compressed

\* The fields of the entry while it grows.
LEMMA EntryFields ==
    ASSUME Working, entry # NoEntry, entry.status = "okay"
    PROVE  /\ entry \in OpenedEntries /\ Growing(entry)
           /\ entry.name \in Names /\ entry.header_offset \in Nat /\ entry.offset \in Nat
           /\ entry.method \in Nat /\ entry.comp \in Nat /\ entry.uncomp \in Nat
           /\ entry.crc \in Seq(Units) /\ entry.pending \in Seq(Units)
           /\ m_archive_size \in Nat /\ m_archive_size <= entry.offset
           /\ entry.offset <= Len(file) /\ Len(file) \in Nat /\ file \in Seq(Cells)
<1>1. entry \in OpenedEntries /\ Growing(entry)
    BY DEF Working, EntryGrows
<1>2. m_archive_size \in Nat /\ Len(file) \in Nat /\ file \in Seq(Cells)
    BY WorkingTypes
<1>3. QED
    BY <1>1, <1>2 DEF OpenedEntries, Growing

LEMMA CountedFields ==
    ASSUME NEW buf \in Seq(Units), entry \in OpenedEntries, NEW crc \in Seq(Units),
           crc = entry.crc \o buf
    PROVE  /\ Counted(buf) \in OpenedEntries
           /\ Counted(buf).crc = crc /\ Counted(buf).uncomp = entry.uncomp + Len(buf)
           /\ Counted(buf).header_offset = entry.header_offset
           /\ Counted(buf).offset = entry.offset /\ Counted(buf).comp = entry.comp
           /\ Counted(buf).pending = entry.pending /\ Counted(buf).status = entry.status
           /\ Counted(buf).name = entry.name
<1> DEFINE size == entry.uncomp + Len(buf)
           next == [entry EXCEPT !.uncomp = size, !.crc = crc]
<1>1. Counted(buf) = next
    BY DEF Counted
<1>2. Len(buf) \in Nat /\ entry.uncomp \in Nat
    BY DEF OpenedEntries
<1>3. size \in Nat
    BY <1>2
<1> HIDE DEF size
<1>4. next \in OpenedEntries
    BY <1>3 DEF OpenedEntries
<1>5. /\ next.crc = crc /\ next.uncomp = size /\ next.header_offset = entry.header_offset
      /\ next.offset = entry.offset /\ next.comp = entry.comp
      /\ next.pending = entry.pending /\ next.status = entry.status
      /\ next.name = entry.name
    BY DEF OpenedEntries
<1> HIDE DEF next
<1>6. QED
    BY <1>1, <1>4, <1>5 DEF size

LEMMA AdvancedFields ==
    ASSUME NEW e \in OpenedEntries, NEW cells \in Seq(Plain)
    PROVE  /\ Advanced(e, cells) \in OpenedEntries
           /\ Advanced(e, cells).offset = e.offset + Len(cells)
           /\ Advanced(e, cells).comp = e.comp + Len(cells)
           /\ Advanced(e, cells).uncomp = e.uncomp /\ Advanced(e, cells).crc = e.crc
           /\ Advanced(e, cells).header_offset = e.header_offset
           /\ Advanced(e, cells).name = e.name /\ Advanced(e, cells).method = e.method
<1> DEFINE ofs  == e.offset + Len(cells)
           comp == e.comp + Len(cells)
           next == [e EXCEPT !.offset = ofs, !.comp = comp]
<1>1. Advanced(e, cells) = next
    BY DEF Advanced
<1>2. Len(cells) \in Nat /\ e.offset \in Nat /\ e.comp \in Nat
    BY DEF OpenedEntries
<1>3. ofs \in Nat /\ comp \in Nat
    BY <1>2
<1> HIDE DEF ofs, comp
<1>4. next \in OpenedEntries
    BY <1>3 DEF OpenedEntries
<1>5. /\ next.offset = ofs /\ next.comp = comp /\ next.uncomp = e.uncomp /\ next.crc = e.crc
      /\ next.header_offset = e.header_offset /\ next.name = e.name /\ next.method = e.method
    BY DEF OpenedEntries
<1> HIDE DEF next
<1>6. QED
    BY <1>1, <1>4, <1>5 DEF ofs, comp

\* A buffer is written, with what the compressor had kept back.
LEMMA Flushed ==
    ASSUME Working, entry # NoEntry, entry.status = "okay", NEW buf \in Seq(Units),
           NEW cells \in Seq(Plain), NEW rest \in Seq(Units),
           Len(cells) = Len(entry.pending \o buf),
           \A j \in 1..Len(cells) : cells[j] = Cell((entry.pending \o buf)[j]),
           Len(rest) = 0,
           file' = Put(file, entry.offset, cells),
           entry' = [Advanced(Counted(buf), cells) EXCEPT !.pending = rest],
           UNCHANGED <<level, m_archive_size, m_central_dir, m_central_dir_offsets, m_total_files, log>>
    PROVE  Working'
<1> DEFINE out == entry.pending \o buf
           crc == entry.crc \o buf
<1>1. /\ entry \in OpenedEntries /\ Growing(entry)
      /\ entry.name \in Names /\ entry.header_offset \in Nat /\ entry.offset \in Nat
      /\ entry.method \in Nat /\ entry.comp \in Nat /\ entry.uncomp \in Nat
      /\ entry.crc \in Seq(Units) /\ entry.pending \in Seq(Units)
      /\ m_archive_size \in Nat /\ m_archive_size <= entry.offset
      /\ entry.offset <= Len(file) /\ Len(file) \in Nat /\ file \in Seq(Cells)
    BY EntryFields
<1>2. /\ crc \in Seq(Units) /\ out \in Seq(Units)
      /\ Len(crc) = Len(entry.crc) + Len(buf) /\ Len(crc) = entry.comp + Len(out)
      /\ \A i \in 1..entry.comp : crc[i] = entry.crc[i]
      /\ \A j \in 1..Len(out) : out[j] = crc[entry.comp + j]
    BY <1>1, KeptBack
<1>3. Len(cells) = Len(out) /\ \A j \in 1..Len(out) : cells[j] = Cell(out[j])
    OBVIOUS
<1>4. /\ entry' \in OpenedEntries
      /\ entry'.header_offset = entry.header_offset
      /\ entry'.offset = entry.offset + Len(cells) /\ entry'.comp = entry.comp + Len(cells)
      /\ entry'.uncomp = entry.uncomp + Len(buf) /\ entry'.crc = crc /\ entry'.pending = rest
      /\ entry'.name = entry.name
    <2> DEFINE c == Counted(buf)
               a == Advanced(c, cells)
    <2>1. /\ c \in OpenedEntries /\ c.crc = crc /\ c.uncomp = entry.uncomp + Len(buf)
          /\ c.header_offset = entry.header_offset /\ c.offset = entry.offset
          /\ c.comp = entry.comp /\ c.name = entry.name
        BY <1>1, <1>2, CountedFields
    <2> HIDE DEF c, crc
    <2>2. /\ a \in OpenedEntries /\ a.offset = c.offset + Len(cells)
          /\ a.comp = c.comp + Len(cells) /\ a.uncomp = c.uncomp /\ a.crc = c.crc
          /\ a.header_offset = c.header_offset /\ a.name = c.name
        BY <2>1, AdvancedFields
    <2>3. entry' = [a EXCEPT !.pending = rest]
        BY DEF c
    <2> HIDE DEF a
    <2>4. QED
        BY <2>1, <2>2, <2>3 DEF OpenedEntries
<1> HIDE DEF out, crc
<1>5. Len(out) \in Nat /\ Len(crc) \in Nat /\ Len(buf) \in Nat /\ Len(cells) \in Nat
      /\ Len(out) <= Len(cells)
    BY <1>2, <1>3
<1>6. /\ Len(file') >= entry.offset + Len(cells)
      /\ file'[m_archive_size + 2] = Name(entry.name)
      /\ \A i \in 1..Len(crc) : file'[m_archive_size + 2 + i] = Cell(crc[i])
    <2>1. /\ Working /\ entry \in OpenedEntries /\ Growing(entry)
          /\ crc \in Seq(Units) /\ out \in Seq(Units) /\ Len(crc) = entry.comp + Len(out)
          /\ \A i \in 1..entry.comp : crc[i] = entry.crc[i]
          /\ \A j \in 1..Len(out) : out[j] = crc[entry.comp + j]
          /\ cells \in Seq(Plain) /\ Len(out) <= Len(cells)
          /\ \A j \in 1..Len(out) : cells[j] = Cell(out[j])
        BY <1>1, <1>2, <1>3, <1>5
    <2>2. /\ Len(Put(file, entry.offset, cells)) >= entry.offset + Len(cells)
          /\ Put(file, entry.offset, cells)[m_archive_size + 2] = Name(entry.name)
          /\ \A i \in 1..Len(crc) :
               Put(file, entry.offset, cells)[m_archive_size + 2 + i] = Cell(crc[i])
        BY ONLY <2>1, Continued, Zenon
    <2>3. file' = Put(file, entry.offset, cells)
        OBVIOUS
    <2>4. QED
        BY ONLY <2>2, <2>3
<1>7. Over(file, file', m_archive_size)
    <2>1. file' = Put(file, entry.offset, cells) /\ Working /\ cells \in Seq(Plain)
        OBVIOUS
    <2>2. Over(file, file, m_archive_size)
        BY <1>1, OverSelf
    <2>3. QED
        BY ONLY <1>1, <2>1, <2>2, PastEntries
<1>8. Growing(entry)'
    <2>1. /\ entry.header_offset = m_archive_size /\ entry.offset = m_archive_size + 2 + entry.comp
          /\ entry.uncomp = Len(entry.crc)
        BY <1>1 DEF Growing
    <2>2. /\ entry'.header_offset = m_archive_size'
          /\ entry'.offset = m_archive_size' + 2 + entry'.comp
          /\ entry'.uncomp = Len(crc) /\ entry'.comp = Len(crc)
        <3>1. m_archive_size' = m_archive_size
            OBVIOUS
        <3>2. Len(cells) = Len(out) /\ Len(crc) = Len(entry.crc) + Len(buf)
              /\ Len(crc) = entry.comp + Len(out)
            BY <1>2, <1>3
        <3>3. /\ entry'.header_offset = entry.header_offset
              /\ entry'.offset = entry.offset + Len(cells) /\ entry'.comp = entry.comp + Len(cells)
              /\ entry'.uncomp = entry.uncomp + Len(buf)
            BY <1>4
        <3>4. /\ m_archive_size \in Nat /\ entry.comp \in Nat /\ entry.offset \in Nat
              /\ entry.uncomp \in Nat /\ Len(entry.crc) \in Nat
            BY <1>1
        <3>5. entry.offset + Len(cells) = m_archive_size + 2 + (entry.comp + Len(cells))
            BY ONLY <1>5, <2>1, <3>4
        <3>6. entry.uncomp + Len(buf) = Len(crc) /\ entry.comp + Len(cells) = Len(crc)
            BY ONLY <1>5, <2>1, <3>2, <3>4
        <3>7. QED
            BY <2>1, <3>1, <3>3, <3>5, <3>6
    <2>3. entry'.offset <= Len(file') /\ file'[m_archive_size' + 2] = Name(entry'.name)
        BY <1>4, <1>6
    <2>4. \A i \in 1..entry'.comp : file'[m_archive_size' + 2 + i] = Cell(entry'.crc[i])
        BY <1>4, <1>6, <2>2
    <2>5. entry'.comp + Len(entry'.pending) = Len(entry'.crc)
        BY <1>4, <1>5, <2>2
    <2>6. \A j \in 1..Len(entry'.pending) : entry'.pending[j] = entry'.crc[entry'.comp + j]
        BY <1>4
    <2>7. QED
        BY <1>4, <2>2, <2>3, <2>4, <2>5, <2>6 DEF Growing, Cell
<1>9. EntryGrows'
    BY <1>4, <1>8 DEF EntryGrows
<1>10. QED
    BY <1>7, <1>9, WorkingKept

\* The compressor keeps the buffer back.
LEMMA HeldBack ==
    ASSUME Working, entry # NoEntry, entry.status = "okay", NEW buf \in Seq(Units), level # 0,
           entry' = [Counted(buf) EXCEPT !.pending = @ \o buf],
           UNCHANGED <<file, level, m_archive_size, m_central_dir, m_central_dir_offsets,
                       m_total_files, log>>
    PROVE  Working'
<1> DEFINE out == entry.pending \o buf
           crc == entry.crc \o buf
<1>1. /\ entry \in OpenedEntries /\ Growing(entry)
      /\ entry.name \in Names /\ entry.header_offset \in Nat /\ entry.offset \in Nat
      /\ entry.method \in Nat /\ entry.comp \in Nat /\ entry.uncomp \in Nat
      /\ entry.crc \in Seq(Units) /\ entry.pending \in Seq(Units)
      /\ m_archive_size \in Nat /\ m_archive_size <= entry.offset
      /\ entry.offset <= Len(file) /\ Len(file) \in Nat /\ file \in Seq(Cells)
    BY EntryFields
<1>2. /\ crc \in Seq(Units) /\ out \in Seq(Units)
      /\ Len(crc) = Len(entry.crc) + Len(buf) /\ Len(crc) = entry.comp + Len(out)
      /\ \A i \in 1..entry.comp : crc[i] = entry.crc[i]
      /\ \A j \in 1..Len(out) : out[j] = crc[entry.comp + j]
    BY <1>1, KeptBack
<1>3. /\ entry' \in OpenedEntries
      /\ entry'.header_offset = entry.header_offset /\ entry'.offset = entry.offset
      /\ entry'.comp = entry.comp /\ entry'.uncomp = entry.uncomp + Len(buf)
      /\ entry'.crc = crc /\ entry'.pending = out /\ entry'.name = entry.name
    <2> DEFINE c == Counted(buf)
    <2>1. /\ c \in OpenedEntries /\ c.crc = crc /\ c.uncomp = entry.uncomp + Len(buf)
          /\ c.header_offset = entry.header_offset /\ c.offset = entry.offset
          /\ c.comp = entry.comp /\ c.pending = entry.pending /\ c.name = entry.name
        BY <1>1, <1>2, CountedFields
    <2>2. entry' = [c EXCEPT !.pending = out]
        BY <2>1
    <2> HIDE DEF c, crc, out
    <2>3. QED
        BY <1>2, <2>1, <2>2 DEF OpenedEntries
<1> HIDE DEF out, crc
<1>4. Growing(entry)'
    <2>1. /\ entry.header_offset = m_archive_size /\ entry.offset = m_archive_size + 2 + entry.comp
          /\ entry.uncomp = Len(entry.crc) /\ file[m_archive_size + 2] = Name(entry.name)
          /\ \A i \in 1..entry.comp : file[m_archive_size + 2 + i] = Cell(entry.crc[i])
        BY <1>1 DEF Growing
    <2>2. \A i \in 1..entry'.comp : file'[m_archive_size' + 2 + i] = Cell(entry'.crc[i])
        BY <1>2, <1>3, <2>1
    <2>3. \A j \in 1..Len(entry'.pending) : entry'.pending[j] = entry'.crc[entry'.comp + j]
        BY <1>2, <1>3
    <2>4. /\ entry'.comp + Len(entry'.pending) = Len(entry'.crc)
          /\ entry'.uncomp = Len(entry'.crc)
        BY <1>2, <1>3, <2>1
    <2>5. QED
        BY <1>1, <1>3, <2>1, <2>2, <2>3, <2>4 DEF Growing, Cell
<1>5. EntryGrows'
    BY <1>3, <1>4 DEF EntryGrows
<1>6. Over(file, file', m_archive_size)
    BY <1>1, OverSelf
<1>7. QED
    BY <1>5, <1>6, WorkingKept

LEMMA EntryWriteWorks ==
    ASSUME Working, NEW buf \in Buffers, ZipEntryWrite(buf)
    PROVE  Working'
<1>1. buf \in Seq(Units) /\ entry # NoEntry /\ entry.status = "okay"
    BY BufferType DEF ZipEntryWrite, EntryWritable
<1>2. UNCHANGED <<level, m_archive_size, m_central_dir, m_central_dir_offsets, m_total_files, log>>
    BY DEF ZipEntryWrite, HandleKept
<1>3. /\ entry \in OpenedEntries /\ Growing(entry)
      /\ entry.crc \in Seq(Units) /\ entry.pending \in Seq(Units)
    BY <1>1, EntryFields
<1>4. entry.pending \o buf \in Seq(Units)
    BY <1>1, <1>3, KeptBack
<1>5. \/ /\ level = 0 /\ file' = Put(file, entry.offset, AllStored(buf))
         /\ entry' = Advanced(Counted(buf), AllStored(buf))
      \/ /\ level # 0 /\ entry' = [Counted(buf) EXCEPT !.pending = @ \o buf] /\ UNCHANGED file
      \/ /\ level # 0
         /\ file' = Put(file, entry.offset, Compressed(entry.pending \o buf))
         /\ entry' = [Advanced(Counted(buf), Compressed(entry.pending \o buf)) EXCEPT
                        !.pending = <<>>]
    BY DEF ZipEntryWrite, Writes
<1> DEFINE none == <<>>
<1>6. none \in Seq(Units) /\ Len(none) = 0
    BY EmptySeq
<1>7. CASE level = 0
    <2> DEFINE cells == AllStored(buf)
    <2>1. entry.pending = <<>>
        <3>1. Len(entry.pending) = 0
            BY <1>3, <1>7 DEF Growing
        <3>2. QED
            BY <1>3, <3>1
    <2>2. entry.pending \o buf = buf
        BY <1>1, <2>1, ConcatEmptySeq
    <2>3. /\ cells \in Seq(Plain) /\ Len(cells) = Len(entry.pending \o buf)
          /\ \A j \in 1..Len(cells) : cells[j] = Cell((entry.pending \o buf)[j])
        BY <1>1, <1>7, <2>2, UnitCells DEF Cell
    <2>4. file' = Put(file, entry.offset, cells) /\ entry' = Advanced(Counted(buf), cells)
        BY <1>5, <1>7
    <2> HIDE DEF cells
    <2>5. Advanced(Counted(buf), cells).pending = none
          /\ Advanced(Counted(buf), cells) \in OpenedEntries
        <3>1. Counted(buf) \in OpenedEntries /\ Counted(buf).pending = entry.pending
            <4>1. entry.crc \o buf \in Seq(Units)
                BY <1>1, <1>3, KeptBack
            <4>2. QED
                BY <1>1, <1>3, <4>1, CountedFields
        <3>2. QED
            BY <2>1, <2>3, <3>1, AdvancedFields DEF Advanced, OpenedEntries
    <2>6. entry' = [Advanced(Counted(buf), cells) EXCEPT !.pending = none]
        BY <2>4, <2>5 DEF OpenedEntries
    <2> HIDE DEF none
    <2>7. QED
        BY <1>1, <1>2, <1>6, <2>3, <2>4, <2>6, Flushed
<1>8. CASE level # 0 /\ entry' = [Counted(buf) EXCEPT !.pending = @ \o buf] /\ UNCHANGED file
    <2>1. Counted(buf).pending = entry.pending
        BY <1>3 DEF Counted, OpenedEntries
    <2>2. entry' = [Counted(buf) EXCEPT !.pending = @ \o buf]
        BY <1>8
    <2>3. QED
        BY <1>1, <1>2, <1>8, <2>2, HeldBack
<1>9. CASE /\ level # 0
           /\ file' = Put(file, entry.offset, Compressed(entry.pending \o buf))
           /\ entry' = [Advanced(Counted(buf), Compressed(entry.pending \o buf)) EXCEPT
                          !.pending = <<>>]
    <2> DEFINE cells == Compressed(entry.pending \o buf)
    <2>1. /\ cells \in Seq(Plain) /\ Len(cells) = Len(entry.pending \o buf)
          /\ \A j \in 1..Len(cells) : cells[j] = Cell((entry.pending \o buf)[j])
        BY <1>4, <1>9, UnitCells DEF Cell
    <2>2. /\ file' = Put(file, entry.offset, cells)
          /\ entry' = [Advanced(Counted(buf), cells) EXCEPT !.pending = none]
        BY <1>9
    <2> HIDE DEF cells, none
    <2>3. QED
        BY <1>1, <1>2, <1>6, <2>1, <2>2, Flushed
<1>10. QED
    BY <1>5, <1>7, <1>8, <1>9

LEMMA EntryWriteFailsWorks ==
    ASSUME Working, NEW buf \in Buffers, ZipEntryWriteFails(buf)
    PROVE  Working'
<1> DEFINE cells == IF level = 0 THEN AllStored(buf) ELSE Compressed(entry.pending \o buf)
<1>1. buf \in Seq(Units) /\ entry # NoEntry /\ entry.status = "okay"
    BY BufferType DEF ZipEntryWriteFails, EntryWritable
<1>2. UNCHANGED <<level, m_archive_size, m_central_dir, m_central_dir_offsets, m_total_files, log>>
    BY DEF ZipEntryWriteFails, HandleKept
<1>3. FailsToWrite(entry.offset, cells) /\ entry' = [Counted(buf) EXCEPT !.status = "failed"]
    BY DEF ZipEntryWriteFails
<1>4. /\ entry \in OpenedEntries /\ Growing(entry) /\ entry.offset \in Nat
      /\ m_archive_size <= entry.offset /\ entry.offset <= Len(file)
    BY <1>1, EntryFields
<1>5. entry.pending \o buf \in Seq(Units) /\ entry.crc \o buf \in Seq(Units)
    BY <1>1, <1>4, KeptBack
<1>6. cells \in Seq(Plain)
    BY <1>1, <1>5, UnitCells
<1> HIDE DEF cells
<1>7. Over(file, file', m_archive_size)
    BY <1>3, <1>4, <1>6, FailedPastEntries
<1>8. Counted(buf) \in OpenedEntries
    BY <1>1, <1>4, <1>5, CountedFields
<1>9. entry' \in OpenedEntries /\ entry'.status = "failed"
    BY <1>3, <1>8 DEF OpenedEntries
<1>10. EntryGrows'
    BY <1>9 DEF EntryGrows
<1>11. QED
    BY <1>2, <1>7, <1>10, WorkingKept

-----------------------------------------------------------------------------
(* Closing an entry.                                                       *)

LEMMA UnitRead ==
    ASSUME NEW u
    PROVE  /\ Stored(u).k = "data" /\ Stored(u).u = u
           /\ Deflated(u).k = "deflated" /\ Deflated(u).u = u
BY DEF Stored, Deflated

LEMMA InflatedIs ==
    ASSUME NEW crc \in Seq(Units), NEW S, NEW data \in Seq(S), Len(data) = Len(crc) + 1,
           \A i \in 1..Len(crc) : data[i] = Deflated(crc[i]),
           data[Len(crc) + 1] = FinalBlock
    PROVE  Inflated(data) = crc
<1> DEFINE ends == {i \in DOMAIN data : data[i].k = "final"}
           n == Len(crc)
<1>1. n \in Nat /\ DOMAIN data = 1..n + 1
    OBVIOUS
<1>2. \A i \in 1..n : data[i].k = "deflated" /\ data[i].u = crc[i]
    BY UnitRead
<1>3. data[n + 1].k = "final"
    BY DEF FinalBlock
<1>4. ends = {n + 1}
    <2>1. \A i \in 1..n + 1 : data[i].k = "final" <=> i = n + 1
        <3> SUFFICES ASSUME NEW i \in 1..n + 1 PROVE data[i].k = "final" <=> i = n + 1
            OBVIOUS
        <3>1. i \in 1..n \/ i = n + 1
            BY <1>1
        <3>2. n + 1 \notin 1..n
            BY <1>1
        <3>3. QED
            BY <1>2, <1>3, <3>1, <3>2
    <2>2. n + 1 \in 1..n + 1
        BY <1>1
    <2>3. QED
        BY <1>1, <2>1, <2>2
<1>5. Min({n + 1}) = n + 1
    <2>1. n + 1 \in {n + 1} /\ \A y \in {n + 1} : n + 1 =< y
        BY <1>1
    <2>2. QED
        BY <2>1 DEF Min
<1>6. \E i \in DOMAIN data : data[i].k = "final"
    BY <1>4
<1>7. Min(ends) - 1 = n
    <2> HIDE DEF ends, n
    <2>1. Min(ends) = n + 1
        BY <1>4, <1>5
    <2>2. QED
        BY <1>1, <2>1
<1>8. Inflated(data) = [i \in 1..n |-> data[i].u]
    <2> HIDE DEF n
    <2>1. Inflated(data) = IF \A i \in 1..Min(ends) - 1 : data[i].k = "deflated"
                           THEN [i \in 1..Min(ends) - 1 |-> data[i].u] ELSE Unreadable
        BY <1>6 DEF Inflated
    <2>2. QED
        BY <1>2, <1>7, <2>1
<1>9. [i \in 1..n |-> data[i].u] = crc
    BY <1>2
<1>10. QED
    BY <1>8, <1>9

LEMMA AsStoredIs ==
    ASSUME NEW crc \in Seq(Units), NEW S, NEW data \in Seq(S), Len(data) = Len(crc),
           \A i \in 1..Len(crc) : data[i] = Stored(crc[i])
    PROVE  AsStored(data) = crc
<1>1. \A i \in 1..Len(crc) : data[i].k = "data" /\ data[i].u = crc[i]
    BY UnitRead
<1>2. DOMAIN data = 1..Len(crc)
    OBVIOUS
<1>3. AsStored(data) = [i \in 1..Len(crc) |-> data[i].u]
    BY <1>1, <1>2 DEF AsStored
<1>4. QED
    BY <1>1, <1>3

\* A reader gets what the local header and the directory agree on.
LEMMA ContentsRead ==
    ASSUME NEW c \in Records, NEW S, NEW f \in Seq(S), c.ofs + 2 + c.comp <= Len(f),
           f[c.ofs + 1].k = "local", c.uncomp = Len(c.crc),
           \/ /\ c.method = 0 /\ c.comp = c.uncomp
              /\ \A i \in 1..c.comp : f[c.ofs + 2 + i] = Stored(c.crc[i])
           \/ /\ c.method # 0 /\ c.comp = c.uncomp + 1
              /\ \A i \in 1..c.uncomp : f[c.ofs + 2 + i] = Deflated(c.crc[i])
              /\ f[c.ofs + 2 + c.comp] = FinalBlock
    PROVE  Extract(f, c) = c.crc
<1> DEFINE from == c.ofs + 2 + 1
           to   == c.ofs + 2 + c.comp
           data == SubSeq(f, from, to)
           out  == IF c.method = 0 THEN AsStored(data) ELSE Inflated(data)
<1>1. /\ c.ofs \in Nat /\ c.comp \in Nat /\ c.uncomp \in Nat /\ c.crc \in Seq(Units)
      /\ Len(f) \in Nat
    BY DEF Records
<1>2. from \in Nat /\ to \in Nat /\ to - from + 1 = c.comp /\ from >= 1
      /\ (from <= to <=> c.comp # 0)
    <2> DEFINE ofs == c.ofs
               comp == c.comp
    <2>1. ofs \in Nat /\ comp \in Nat
        BY <1>1
    <2>2. from = ofs + 3 /\ to = ofs + 2 + comp
        BY ONLY <2>1
    <2> HIDE DEF ofs, comp, from, to
    <2>3. from \in Nat /\ to \in Nat /\ to - from + 1 = comp /\ from >= 1
        BY ONLY <2>1, <2>2
    <2>4. from <= to <=> comp # 0
        BY ONLY <2>1, <2>2
    <2>5. QED
        BY ONLY <2>3, <2>4 DEF comp
<1>3. \A i \in from..to : f[i] \in S
    <2>1. \A i \in from..to : i \in 1..Len(f)
        BY <1>1, <1>2
    <2>2. QED
        BY <2>1
<1>4. \A i \in 1..c.comp : from + i - 1 = c.ofs + 2 + i
    BY ONLY <1>1
<1> HIDE DEF from, to
<1>5. /\ data \in Seq(S)
      /\ Len(data) = IF from <= to THEN to - from + 1 ELSE 0
      /\ \A i \in 1..to - from + 1 : data[i] = f[from + i - 1]
    BY <1>2, <1>3, SubSeqProperties
<1>6. Len(data) = c.comp
    BY <1>1, <1>2, <1>5
<1>7. \A i \in 1..c.comp : data[i] = f[c.ofs + 2 + i]
    BY <1>2, <1>4, <1>5
<1>8. out = c.crc
    <2> HIDE DEF data
    <2>1. CASE c.method = 0
        <3>1. c.comp = c.uncomp /\ \A i \in 1..c.comp : f[c.ofs + 2 + i] = Stored(c.crc[i])
            BY <2>1
        <3>2. Len(data) = Len(c.crc) /\ \A i \in 1..Len(c.crc) : data[i] = Stored(c.crc[i])
            BY <1>6, <1>7, <3>1
        <3>3. AsStored(data) = c.crc
            BY <1>1, <1>5, <3>2, AsStoredIs
        <3>4. QED
            BY <2>1, <3>3
    <2>2. CASE c.method # 0
        <3>1. /\ c.comp = c.uncomp + 1 /\ f[c.ofs + 2 + c.comp] = FinalBlock
              /\ \A i \in 1..c.uncomp : f[c.ofs + 2 + i] = Deflated(c.crc[i])
            BY <2>2
        <3>2. c.uncomp + 1 \in 1..c.comp /\ \A i \in 1..c.uncomp : i \in 1..c.comp
            BY <1>1, <3>1
        <3>3. /\ Len(data) = Len(c.crc) + 1 /\ data[Len(c.crc) + 1] = FinalBlock
              /\ \A i \in 1..Len(c.crc) : data[i] = Deflated(c.crc[i])
            BY <1>6, <1>7, <3>1, <3>2
        <3>4. Inflated(data) = c.crc
            BY <1>1, <1>5, <3>3, InflatedIs
        <3>5. QED
            BY <2>2, <3>4
    <2>3. QED
        BY <2>1, <2>2
<1>9. CASE c.comp = 0
    <2>1. c.method = 0 /\ Len(c.crc) = 0
        BY <1>1, <1>9
    <2>2. c.crc = <<>>
        BY <1>1, <2>1
    <2>3. QED
        BY <1>9, <2>2 DEF Extract
<1>10. CASE c.comp # 0
    <2>1. ~(c.ofs + 2 + c.comp > Len(f))
        BY <1>1
    <2>2. Extract(f, c) = IF out = Unreadable \/ Len(out) # c.uncomp \/ out # c.crc
                          THEN Unreadable ELSE out
        BY <1>10, <2>1 DEF Extract, from, to
    <2> HIDE DEF out
    <2>3. QED
        BY <1>8, <2>2
<1>11. QED
    BY <1>9, <1>10

\* What the compressor adds at the end.
LEMMA RestProperties ==
    ASSUME NEW old \in Seq(Units), old = entry.pending, level = 0 => Len(old) = 0
    PROVE  /\ Rest \in Seq(Plain) /\ Len(Rest) \in Nat /\ Len(old) <= Len(Rest)
           /\ \A j \in 1..Len(old) : Rest[j] = Cell(old[j])
           /\ level = 0 => Len(Rest) = 0
           /\ level # 0 => Len(Rest) = Len(old) + 1 /\ Rest[Len(old) + 1] = FinalBlock
<1>1. CASE level = 0
    <2>1. Rest = <<>>
        BY <1>1 DEF Rest
    <2>2. Rest \in Seq(Plain)
        BY ONLY <2>1, EmptySeq, Zenon
    <2>3. Len(Rest) = 0
        BY <2>1
    <2>4. QED
        BY <1>1, <2>2, <2>3
<1>2. CASE level # 0
    <2> DEFINE cells == Compressed(old)
    <2>1. /\ cells \in Seq(Plain) /\ Len(cells) = Len(old)
          /\ \A j \in 1..Len(old) : cells[j] = Cell(old[j])
        BY <1>2, UnitCells DEF Cell
    <2>2. Rest = Append(cells, FinalBlock)
        BY <1>2 DEF Rest
    <2>3. FinalBlock \in Plain
        BY DEF Plain
    <2> HIDE DEF cells
    <2>4. /\ Rest \in Seq(Plain) /\ Len(Rest) = Len(cells) + 1
          /\ \A j \in 1..Len(cells) : Rest[j] = cells[j]
          /\ Rest[Len(cells) + 1] = FinalBlock
        BY <2>1, <2>2, <2>3, AppendProperties
    <2>5. Len(old) \in Nat
        OBVIOUS
    <2>6. QED
        BY <1>2, <2>1, <2>4, <2>5
<1>3. QED
    BY <1>1, <1>2

LEMMA FinishedFields ==
    ASSUME Working, entry # NoEntry, entry.status = "okay"
    PROVE  /\ Finished \in OpenedEntries
           /\ Finished.header_offset = m_archive_size
           /\ Finished.offset = entry.offset + Len(Rest)
           /\ Finished.comp = entry.comp + Len(Rest)
           /\ Finished.uncomp = entry.uncomp /\ Finished.crc = entry.crc
           /\ Finished.name = entry.name
           /\ Finished.method = IF level = 0 THEN 0 ELSE 8
           /\ Rest \in Seq(Plain) /\ Len(Rest) \in Nat
           /\ Len(entry.pending) <= Len(Rest)
           /\ \A j \in 1..Len(entry.pending) : Rest[j] = Cell(entry.pending[j])
           /\ level = 0 => Len(Rest) = 0
           /\ level # 0 => /\ Len(Rest) = Len(entry.pending) + 1
                           /\ Rest[Len(entry.pending) + 1] = FinalBlock
<1>1. /\ entry \in OpenedEntries /\ Growing(entry) /\ entry.pending \in Seq(Units)
    BY EntryFields
<1>2. level = 0 => Len(entry.pending) = 0
    BY <1>1 DEF Growing
<1>3. /\ Rest \in Seq(Plain) /\ Len(Rest) \in Nat /\ Len(entry.pending) <= Len(Rest)
      /\ \A j \in 1..Len(entry.pending) : Rest[j] = Cell(entry.pending[j])
      /\ level = 0 => Len(Rest) = 0
      /\ level # 0 => /\ Len(Rest) = Len(entry.pending) + 1
                      /\ Rest[Len(entry.pending) + 1] = FinalBlock
    BY <1>1, <1>2, RestProperties
<1> DEFINE a == Advanced(entry, Rest)
           method == IF level = 0 THEN 0 ELSE 8
<1>4. /\ a \in OpenedEntries /\ a.offset = entry.offset + Len(Rest)
      /\ a.comp = entry.comp + Len(Rest) /\ a.uncomp = entry.uncomp /\ a.crc = entry.crc
      /\ a.header_offset = entry.header_offset /\ a.name = entry.name
    BY <1>1, <1>3, AdvancedFields
<1>5. Finished = [a EXCEPT !.method = method] /\ method \in Nat
    BY DEF Finished
<1> HIDE DEF a, method
<1>6. /\ Finished \in OpenedEntries /\ Finished.offset = a.offset /\ Finished.comp = a.comp
      /\ Finished.uncomp = a.uncomp /\ Finished.crc = a.crc
      /\ Finished.header_offset = a.header_offset /\ Finished.name = a.name
      /\ Finished.method = method
    BY <1>4, <1>5 DEF OpenedEntries
<1>7. entry.header_offset = m_archive_size
    BY <1>1 DEF Growing
<1>8. QED
    BY <1>3, <1>4, <1>6, <1>7 DEF method

\* The file after the contents, before the local header.
LEMMA ContentsWritten ==
    ASSUME Working, entry # NoEntry, entry.status = "okay",
           NEW f, f = Put(file, entry.offset, Rest)
    PROVE  /\ f \in Seq(Cells) /\ Len(f) \in Nat /\ Len(file) <= Len(f)
           /\ Finished.offset <= Len(f) /\ m_archive_size + 2 <= Finished.offset
           /\ Finished.offset = m_archive_size + 2 + Finished.comp
           /\ Over(file, f, m_archive_size) /\ f[m_archive_size + 2] = Name(entry.name)
           /\ \A i \in 1..Len(entry.crc) : f[m_archive_size + 2 + i] = Cell(entry.crc[i])
           /\ level = 0 => Finished.comp = Len(entry.crc)
           /\ level # 0 => /\ Finished.comp = Len(entry.crc) + 1
                           /\ f[m_archive_size + 2 + Finished.comp] = FinalBlock
<1> DEFINE old == entry.pending
           crc == entry.crc
<1>1. /\ entry \in OpenedEntries /\ Growing(entry) /\ entry.offset \in Nat
      /\ entry.comp \in Nat /\ crc \in Seq(Units) /\ old \in Seq(Units)
      /\ m_archive_size \in Nat /\ m_archive_size <= entry.offset
      /\ entry.offset <= Len(file) /\ Len(file) \in Nat /\ file \in Seq(Cells)
    BY EntryFields
<1>2. /\ entry.offset = m_archive_size + 2 + entry.comp
      /\ entry.comp + Len(old) = Len(crc)
      /\ \A j \in 1..Len(old) : old[j] = crc[entry.comp + j]
    BY <1>1 DEF Growing
<1>3. /\ Finished.offset = entry.offset + Len(Rest)
      /\ Finished.comp = entry.comp + Len(Rest)
      /\ Rest \in Seq(Plain) /\ Len(Rest) \in Nat
      /\ Len(old) <= Len(Rest)
      /\ \A j \in 1..Len(old) : Rest[j] = Cell(old[j])
      /\ level = 0 => Len(Rest) = 0
      /\ level # 0 => /\ Len(Rest) = Len(old) + 1
                      /\ Rest[Len(old) + 1] = FinalBlock
    BY FinishedFields
<1>4. Over(file, f, m_archive_size) /\ f \in Seq(Cells) /\ Len(file) <= Len(f)
    <2>1. Over(file, f, m_archive_size)
        BY <1>1, <1>3, OverSelf, PastEntries
    <2>2. QED
        BY <2>1 DEF Over
<1>5. /\ Len(f) \in Nat /\ Len(f) >= entry.offset + Len(Rest)
      /\ \A i \in 1..Len(Rest) : f[entry.offset + i] = Rest[i]
    <2> DEFINE p == Put(file, entry.offset, Rest)
    <2>1. /\ file \in Seq(Cells) /\ Rest \in Seq(Cells)
          /\ entry.offset \in Nat /\ entry.offset <= Len(file)
        BY <1>1, <1>3, PlainCells
    <2>2. /\ Len(p) \in Nat /\ Len(p) >= entry.offset + Len(Rest)
          /\ \A i \in 1..Len(Rest) : p[entry.offset + i] = Rest[i]
        BY ONLY <2>1, PutProperties
    <2>3. f = p
        OBVIOUS
    <2> HIDE DEF p
    <2>4. QED
        BY ONLY <2>2, <2>3
<1>6. /\ f[m_archive_size + 2] = Name(entry.name)
      /\ \A i \in 1..Len(crc) : f[m_archive_size + 2 + i] = Cell(crc[i])
    <2>1. Len(crc) = entry.comp + Len(old)
        BY <1>2
    <2>2. \A i \in 1..entry.comp : crc[i] = entry.crc[i]
        OBVIOUS
    <2> HIDE DEF crc, old
    <2>3. QED
        BY <1>1, <1>2, <1>3, <2>1, <2>2, Continued
<1> HIDE DEF crc, old
<1>7. Len(crc) \in Nat /\ Len(old) \in Nat
    BY <1>1
<1>8. /\ Finished.offset = m_archive_size + 2 + Finished.comp
      /\ m_archive_size + 2 <= Finished.offset
    BY <1>1, <1>2, <1>3
<1>9. level = 0 => Finished.comp = Len(crc)
    BY <1>1, <1>2, <1>3, <1>7
<1>10. ASSUME level # 0
       PROVE  /\ Finished.comp = Len(crc) + 1
              /\ f[m_archive_size + 2 + Finished.comp] = FinalBlock
    <2>1. Len(Rest) = Len(old) + 1 /\ Rest[Len(old) + 1] = FinalBlock
        BY <1>3, <1>10
    <2>2. Len(old) + 1 \in 1..Len(Rest)
        BY <1>7, <2>1
    <2>3. Finished.comp = Len(crc) + 1
        BY <1>1, <1>2, <1>3, <1>7, <2>1
    <2>4. m_archive_size + 2 + Finished.comp = entry.offset + (Len(old) + 1)
        BY <1>1, <1>2, <1>3, <1>7, <2>1
    <2>5. QED
        BY <1>5, <2>1, <2>2, <2>3, <2>4
<1>11. QED
    BY <1>3, <1>4, <1>5, <1>6, <1>8, <1>9, <1>10 DEF crc, old

\* The local header goes into the room that zip_entry_open left for it.
LEMMA HeaderPut ==
    ASSUME NEW f \in Seq(Cells), NEW ofs \in Nat, ofs + 1 <= Len(f), NEW header \in Plain
    PROVE  LET g == Put(f, ofs, <<header>>)
           IN  /\ g \in Seq(Cells) /\ Len(g) \in Nat /\ Len(f) <= Len(g)
               /\ g[ofs + 1] = header
               /\ \A i \in 1..Len(f) : i # ofs + 1 => g[i] = f[i]
<1> DEFINE cells == <<header>>
           g == Put(f, ofs, <<header>>)
<1> SUFFICES /\ g \in Seq(Cells) /\ Len(g) \in Nat /\ Len(f) <= Len(g)
             /\ g[ofs + 1] = header
             /\ \A i \in 1..Len(f) : i # ofs + 1 => g[i] = f[i]
    OBVIOUS
<1>1. cells \in Seq(Cells) /\ Len(cells) = 1 /\ cells[1] = header
    <2>1. header \in Cells
        BY DEF Cells
    <2>2. QED
        BY <2>1
<1>2. Len(f) \in Nat /\ ofs <= Len(f) /\ cells \in Seq(Cells)
    BY <1>1
<1> HIDE DEF cells
<1> DEFINE p == Put(f, ofs, cells)
<1>3. g = p
    BY DEF cells
<1>4. /\ p \in Seq(Cells) /\ Len(p) \in Nat /\ Len(p) >= Len(f)
      /\ \A i \in 1..Len(cells) : p[ofs + i] = cells[i]
      /\ \A i \in 1..Len(f) : i <= ofs \/ i > ofs + Len(cells) => p[i] = f[i]
    BY ONLY <1>2, PutProperties
<1> HIDE DEF p, g
<1>5. p[ofs + 1] = header
    BY <1>1, <1>4
<1>6. \A i \in 1..Len(f) : i # ofs + 1 => i <= ofs \/ i > ofs + Len(cells)
    BY <1>1
<1>7. QED
    BY <1>2, <1>3, <1>4, <1>5, <1>6

\* A record of the directory and the local header say the same.
LEMMA EntryComplete ==
    ASSUME Working, entry # NoEntry, entry.status = "okay",
           NEW g, g = Put(Put(file, entry.offset, Rest), m_archive_size,
                          <<LocalHeader(Finished)>>)
    PROVE  /\ CentralHeader(Finished) \in Records
           /\ g \in Seq(Cells) /\ Len(g) \in Nat /\ Finished.offset <= Len(g)
           /\ Over(file, g, m_archive_size) /\ g[m_archive_size + 1].k = "local"
           /\ CentralHeader(Finished).ofs = m_archive_size
           /\ Finished.offset = m_archive_size + 2 + CentralHeader(Finished).comp
           /\ Finished.offset \in Nat /\ m_archive_size <= Finished.offset
           /\ Kept(g, CentralHeader(Finished), [name |-> entry.name, data |-> entry.crc],
                   Finished.offset)
<1> DEFINE f == Put(file, entry.offset, Rest)
           c == CentralHeader(Finished)
           header == LocalHeader(Finished)
<1>1. /\ f \in Seq(Cells) /\ Len(f) \in Nat /\ Len(file) <= Len(f)
      /\ Finished.offset <= Len(f) /\ m_archive_size + 2 <= Finished.offset
      /\ Finished.offset = m_archive_size + 2 + Finished.comp
      /\ Over(file, f, m_archive_size) /\ f[m_archive_size + 2] = Name(entry.name)
      /\ \A i \in 1..Len(entry.crc) : f[m_archive_size + 2 + i] = Cell(entry.crc[i])
      /\ level = 0 => Finished.comp = Len(entry.crc)
      /\ level # 0 => /\ Finished.comp = Len(entry.crc) + 1
                      /\ f[m_archive_size + 2 + Finished.comp] = FinalBlock
    BY ContentsWritten
<1>2. /\ Finished \in OpenedEntries /\ Finished.header_offset = m_archive_size
      /\ Finished.uncomp = entry.uncomp /\ Finished.crc = entry.crc
      /\ Finished.name = entry.name /\ Finished.method = IF level = 0 THEN 0 ELSE 8
    BY FinishedFields
<1>3. /\ m_archive_size \in Nat /\ entry.crc \in Seq(Units) /\ entry.uncomp = Len(entry.crc)
      /\ entry.name \in Names
    BY EntryFields DEF Growing
<1>4. Finished.comp \in Nat /\ Finished.offset \in Nat
    BY <1>2 DEF OpenedEntries
<1>5. c \in Records /\ header \in Plain /\ header.k = "local"
    <2>1. header \in LocalHeaders /\ header.k = "local"
        BY <1>2 DEF LocalHeader, LocalHeaders, OpenedEntries
    <2>2. c \in Records
        BY <1>2 DEF CentralHeader, Records, OpenedEntries
    <2>3. QED
        BY <2>1, <2>2 DEF Plain
<1>6. /\ c.ofs = m_archive_size /\ c.comp = Finished.comp /\ c.uncomp = Len(entry.crc)
      /\ c.crc = entry.crc /\ c.name = entry.name
      /\ c.method = IF level = 0 THEN 0 ELSE 8
      /\ header = [k |-> "local", method |-> c.method, comp |-> c.comp,
                   uncomp |-> c.uncomp, crc |-> c.crc]
    BY <1>2, <1>3 DEF CentralHeader, LocalHeader
<1> HIDE DEF c, header
<1>7. g = Put(f, m_archive_size, <<header>>)
    BY DEF header
<1> HIDE DEF f
<1>8. /\ m_archive_size \in Nat /\ m_archive_size + 1 <= Len(f)
      /\ f \in Seq(Cells) /\ header \in Plain
    BY <1>1, <1>3, <1>4, <1>5
<1>9. /\ g \in Seq(Cells) /\ Len(g) \in Nat /\ Len(f) <= Len(g) /\ g[m_archive_size + 1] = header
      /\ \A i \in 1..Len(f) : i # m_archive_size + 1 => g[i] = f[i]
    <2> DEFINE p == Put(f, m_archive_size, <<header>>)
    <2>1. /\ p \in Seq(Cells) /\ Len(p) \in Nat /\ Len(f) <= Len(p)
          /\ p[m_archive_size + 1] = header
          /\ \A i \in 1..Len(f) : i # m_archive_size + 1 => p[i] = f[i]
        BY ONLY <1>8, HeaderPut
    <2>2. g = p
        BY <1>7
    <2> HIDE DEF p
    <2>3. QED
        BY ONLY <2>1, <2>2
<1>10. Finished.offset <= Len(g)
    BY <1>1, <1>4, <1>9
<1>11. Over(file, g, m_archive_size) /\ g[m_archive_size + 2] = Name(entry.name)
    <2> DEFINE cells == <<header>>
    <2>1. cells \in Seq(Plain)
        BY <1>5
    <2>2. g = Put(f, m_archive_size, cells)
        BY <1>7
    <2> HIDE DEF cells
    <2>3. Over(file, g, m_archive_size)
        <3>1. m_archive_size <= m_archive_size /\ m_archive_size <= Len(f)
            BY <1>1, <1>3, <1>8
        <3>2. Working /\ Over(file, f, m_archive_size)
            BY <1>1
        <3>3. QED
            BY ONLY <1>3, <2>1, <2>2, <3>1, <3>2, PastEntries
    <2>4. m_archive_size + 2 \in 1..Len(f) /\ m_archive_size + 2 # m_archive_size + 1
        BY <1>1, <1>3, <1>4
    <2>5. QED
        BY <1>1, <1>9, <2>3, <2>4
<1>12. \A i \in 1..Finished.comp : g[m_archive_size + 2 + i] = f[m_archive_size + 2 + i]
    <2> SUFFICES ASSUME NEW i \in 1..Finished.comp
                 PROVE  g[m_archive_size + 2 + i] = f[m_archive_size + 2 + i]
        OBVIOUS
    <2>1. /\ m_archive_size + 2 + i \in 1..Len(f)
          /\ m_archive_size + 2 + i # m_archive_size + 1
        BY <1>1, <1>3, <1>4
    <2>2. QED
        BY <1>9, <2>1
<1>13. Extract(g, c) = c.crc
    <2> DEFINE m == m_archive_size
               n == Len(entry.crc)
    <2>1. n \in Nat
        BY <1>3
    <2>2. c.ofs + 2 + c.comp <= Len(g)
        BY <1>1, <1>6, <1>10
    <2>3. g[c.ofs + 1].k = "local"
        BY <1>5, <1>6, <1>9
    <2>4. CASE level = 0
        <3>1. c.method = 0 /\ c.comp = c.uncomp /\ c.comp = n
            BY <1>1, <1>6, <2>4
        <3>2. \A i \in 1..n : g[m + 2 + i] = Stored(entry.crc[i])
            BY <1>1, <1>12, <2>4 DEF Cell
        <3>3. \A i \in 1..c.comp : g[c.ofs + 2 + i] = Stored(c.crc[i])
            BY <1>6, <3>1, <3>2
        <3>4. QED
            BY <1>5, <1>6, <1>9, <2>2, <2>3, <3>1, <3>3, ContentsRead
    <2>5. CASE level # 0
        <3>1. c.method # 0 /\ c.comp = c.uncomp + 1 /\ c.comp = n + 1
            BY <1>1, <1>6, <2>5
        <3>2. (\A i \in 1..n : i \in 1..Finished.comp) /\ Finished.comp \in 1..Finished.comp
            BY <1>1, <2>1, <2>5
        <3>3. \A i \in 1..n : g[m + 2 + i] = Deflated(entry.crc[i])
            BY <1>1, <1>12, <2>5, <3>2 DEF Cell
        <3>4. g[m + 2 + Finished.comp] = FinalBlock
            BY <1>1, <1>12, <2>5, <3>2
        <3>5. /\ \A i \in 1..c.uncomp : g[c.ofs + 2 + i] = Deflated(c.crc[i])
              /\ g[c.ofs + 2 + c.comp] = FinalBlock
            BY <1>6, <3>3, <3>4
        <3>6. QED
            BY <1>5, <1>6, <1>9, <2>2, <2>3, <3>1, <3>5, ContentsRead
    <2>6. QED
        BY <2>4, <2>5
<1>14. Kept(g, c, [name |-> entry.name, data |-> entry.crc], Finished.offset)
    <2>1. c.ofs + 2 + c.comp <= Finished.offset
        BY <1>1, <1>4, <1>6
    <2>2. (c.method = 0 => c.comp = c.uncomp) /\ (c.uncomp > 0 => c.comp > 0)
        <3>1. Len(entry.crc) \in Nat
            BY <1>3
        <3>2. CASE level = 0
            BY <1>1, <1>6, <3>2
        <3>3. CASE level # 0
            BY <1>1, <1>6, <3>1, <3>3
        <3>4. QED
            BY <3>2, <3>3
    <2>3. QED
        BY <1>6, <1>9, <1>11, <1>13, <2>1, <2>2 DEF Kept
<1>15. m_archive_size <= Finished.offset
    BY <1>1, <1>3, <1>4
<1>16. QED
    BY <1>1, <1>4, <1>5, <1>6, <1>9, <1>10, <1>11, <1>14, <1>15 DEF c

LEMMA EntryCloseWorks ==
    ASSUME Working, ZipEntryClose
    PROVE  Working'
<1> DEFINE c == CentralHeader(Finished)
           d == [name |-> entry.name, data |-> entry.crc]
<1>1. entry # NoEntry /\ entry.status = "okay"
    BY DEF ZipEntryClose, Closing
<1>2. /\ file' = Put(Put(file, entry.offset, Rest), entry.header_offset,
                     <<LocalHeader(Finished)>>)
      /\ m_central_dir' = Append(m_central_dir, c) /\ m_total_files' = m_total_files + 1
      /\ m_archive_size' = Finished.offset /\ entry' = NoEntry
      /\ m_central_dir_offsets' = Append(m_central_dir_offsets, Len(m_central_dir))
      /\ log' = Append(log, d) /\ level' = level
    BY DEF ZipEntryClose
<1>3. /\ entry.header_offset = m_archive_size /\ entry.name \in Names
      /\ entry.crc \in Seq(Units)
    BY <1>1, EntryFields DEF Growing
<1>4. /\ c \in Records
      /\ file' \in Seq(Cells) /\ Len(file') \in Nat /\ Finished.offset <= Len(file')
      /\ Over(file, file', m_archive_size) /\ file'[m_archive_size + 1].k = "local"
      /\ c.ofs = m_archive_size /\ Finished.offset = m_archive_size + 2 + c.comp
      /\ Finished.offset \in Nat /\ m_archive_size <= Finished.offset
      /\ Kept(file', c, d, Finished.offset)
    BY <1>1, <1>2, <1>3, EntryComplete
<1>5. d \in Logged
    BY <1>3 DEF Logged
<1> HIDE DEF c, d
<1>6. /\ m_central_dir \in Seq(Records) /\ log \in Seq(Logged) /\ Len(m_central_dir) = Len(log)
      /\ m_archive_size \in Nat /\ m_archive_size <= Len(file) /\ level \in Nat
      /\ m_total_files = Len(log) /\ Len(log) \in Nat
      /\ file \in Seq(Cells) /\ Len(file) \in Nat
    BY WorkingTypes
<1>7. /\ \A i \in 1..Len(log) : Kept(file, m_central_dir[i], log[i], m_archive_size)
      /\ Chained(m_central_dir, m_archive_size)
      /\ \A e \in 1..Len(file) : file[e].k = "end" =>
           \/ Current(file, e, m_central_dir, m_archive_size)
           \/ Dead(file, e, m_archive_size)
      /\ m_central_dir_offsets = [i \in 1..Len(log) |-> i - 1]
    BY DEF Working, Held
<1>8. /\ m_central_dir' \in Seq(Records) /\ Len(m_central_dir') = Len(log) + 1
      /\ \A i \in 1..Len(log) : m_central_dir'[i] = m_central_dir[i]
      /\ m_central_dir'[Len(log) + 1] = c
    BY <1>2, <1>4, <1>6, AppendProperties
<1>9. /\ log' \in Seq(Logged) /\ Len(log') = Len(log) + 1
      /\ \A i \in 1..Len(log) : log'[i] = log[i]
      /\ log'[Len(log) + 1] = d
    BY <1>2, <1>5, <1>6, AppendProperties
<1>10. /\ Len(file) <= Len(file')
       /\ \A i \in 1..m_archive_size : file'[i] = file[i]
       /\ \A i \in 1..Len(file') :
            (i <= Len(file) /\ file'[i] = file[i]) \/ file'[i] \in Plain
    BY <1>4 DEF Over
<1>11. ASSUME NEW i \in 1..Len(log')
       PROVE  Kept(file', m_central_dir'[i], log'[i], m_archive_size')
    <2>1. CASE i \in 1..Len(log)
        <3>1. Kept(file, m_central_dir[i], log[i], m_archive_size) /\ m_central_dir[i] \in Records
            BY <1>6, <1>7, <2>1
        <3>2. m_archive_size <= Len(file')
            BY <1>4, <1>6, <1>10
        <3>3. Kept(file', m_central_dir[i], log[i], Finished.offset)
            BY <1>4, <1>6, <1>10, <3>1, <3>2, KeptFrame
        <3>4. QED
            BY <1>2, <1>8, <1>9, <2>1, <3>3
    <2>2. CASE i = Len(log) + 1
        BY <1>2, <1>4, <1>8, <1>9, <2>2
    <2>3. QED
        BY <1>6, <1>9, <1>11, <2>1, <2>2
<1>12. Chained(m_central_dir', m_archive_size')
    <2>1. ASSUME NEW i \in 1..Len(log) + 1
          PROVE  m_central_dir'[i].ofs + 2 + m_central_dir'[i].comp =
                   IF i < Len(log) + 1 THEN m_central_dir'[i + 1].ofs ELSE Finished.offset
        <3>1. CASE i = Len(log) + 1
            BY <1>4, <1>6, <1>8, <3>1
        <3>2. CASE i = Len(log)
            <4>1. m_central_dir[i].ofs + 2 + m_central_dir[i].comp = m_archive_size
                BY <1>6, <1>7, <2>1, <3>2 DEF Chained
            <4>2. m_central_dir'[i] = m_central_dir[i] /\ m_central_dir'[i + 1].ofs = m_archive_size
                BY <1>4, <1>8, <2>1, <3>2
            <4>3. QED
                BY <1>6, <3>2, <4>1, <4>2
        <3>3. CASE i < Len(log)
            <4>1. i \in 1..Len(log) /\ i + 1 \in 1..Len(log)
                BY <1>6, <3>3
            <4>2. m_central_dir[i].ofs + 2 + m_central_dir[i].comp = m_central_dir[i + 1].ofs
                BY <1>6, <1>7, <3>3, <4>1 DEF Chained
            <4>3. QED
                BY <1>6, <1>8, <3>3, <4>1, <4>2
        <3>4. QED
            BY <1>6, <3>1, <3>2, <3>3
    <2>2. Len(m_central_dir') # 0
        BY <1>6, <1>8
    <2>3. QED
        BY <1>2, <1>8, <2>1, <2>2 DEF Chained
<1>13. ASSUME NEW e \in 1..Len(file'), file'[e].k = "end"
       PROVE  Dead(file', e, m_archive_size')
    <2>1. e \in 1..Len(file) /\ file'[e] = file[e] /\ file[e].k = "end"
        BY <1>6, <1>10, <1>13, PlainKinds
    <2>2. CASE Current(file, e, m_central_dir, m_archive_size)
        <3>1. /\ e = m_archive_size + Len(log) + 1
              /\ file[e].ofs = m_archive_size /\ file[e].total = Len(log)
            BY <1>6, <2>2 DEF Current
        <3>2. Len(log) # 0
            BY <1>4, <1>6, <1>13, <3>1
        <3>3. m_archive_size + 1 <= Finished.offset
            <4>1. c.comp \in Nat /\ Finished.offset = m_archive_size + 2 + c.comp
                BY <1>4 DEF Records
            <4>2. QED
                BY ONLY <1>6, <4>1
        <3>4. file'[e].total >= 1 /\ file'[e].ofs = m_archive_size
            BY ONLY <1>6, <2>1, <3>1, <3>2
        <3>5. file'[file'[e].ofs + 1].k # "central"
            BY <1>4, <3>4
        <3>6. QED
            BY <1>2, <3>3, <3>4, <3>5 DEF Dead
    <2>3. CASE Dead(file, e, m_archive_size)
        <3>1. file[e].total >= 1 /\ file[e].ofs + 1 <= m_archive_size
              /\ file[file[e].ofs + 1].k # "central"
            BY <2>3 DEF Dead
        <3>2. file[e].ofs \in Nat
            BY <1>6, <2>1, EndTypes
        <3>3. file[e].ofs + 1 \in 1..m_archive_size /\ file[e].ofs + 1 <= Finished.offset
            <4> DEFINE ofs == file[e].ofs
            <4>1. /\ ofs \in Nat /\ ofs + 1 <= m_archive_size /\ m_archive_size \in Nat
                  /\ Finished.offset \in Nat /\ m_archive_size <= Finished.offset
                BY <1>4, <1>6, <3>1, <3>2
            <4> HIDE DEF ofs
            <4>2. ofs + 1 \in 1..m_archive_size /\ ofs + 1 <= Finished.offset
                BY ONLY <4>1
            <4>3. QED
                BY ONLY <4>2 DEF ofs
        <3>4. file'[file[e].ofs + 1] = file[file[e].ofs + 1]
            BY <1>10, <3>3
        <3>5. QED
            BY <1>2, <2>1, <3>1, <3>3, <3>4 DEF Dead
    <2>4. QED
        BY <1>7, <2>1, <2>2, <2>3
<1>14. Held(file', m_archive_size', m_central_dir', log')
    BY <1>2, <1>4, <1>8, <1>9, <1>11, <1>12, <1>13 DEF Held
<1>15. m_central_dir_offsets' = [i \in 1..Len(log') |-> i - 1]
    <2> DEFINE offs == [i \in 1..Len(log) |-> i - 1]
    <2>1. offs \in Seq(Nat) /\ Len(offs) = Len(log)
        BY <1>6
    <2>2. m_central_dir_offsets' = Append(offs, Len(log))
        BY <1>2, <1>6, <1>7
    <2>3. Append(offs, Len(log)) = [i \in 1..Len(log) + 1 |-> i - 1]
        BY <1>6, <2>1
    <2>4. QED
        BY <1>9, <2>2, <2>3
<1>16. EntryGrows'
    BY <1>2 DEF EntryGrows
<1>17. QED
    BY <1>2, <1>6, <1>9, <1>14, <1>15, <1>16 DEF Working

LEMMA EntryCloseFailsWorks ==
    ASSUME Working, ZipEntryCloseFails
    PROVE  Working'
<1>1. /\ entry # NoEntry /\ entry' = NoEntry
      /\ UNCHANGED <<level, m_archive_size, m_central_dir, m_central_dir_offsets, m_total_files, log>>
    BY DEF ZipEntryCloseFails, Closing, Abandoned, HandleKept
<1>2. EntryGrows'
    BY <1>1 DEF EntryGrows
<1>3. /\ m_archive_size \in Nat /\ m_archive_size <= Len(file) /\ file \in Seq(Cells)
      /\ Len(file) \in Nat
    BY WorkingTypes
<1>4. \/ UNCHANGED file
      \/ entry.status = "okay" /\ FailsToWrite(entry.offset, Rest)
      \/ entry.status = "okay" /\ file' = Put(file, entry.offset, Rest)
      \/ /\ entry.status = "okay"
         /\ \E header \in {LocalHeader(Finished), Torn, Zero} :
              file' = Put(Put(file, entry.offset, Rest), entry.header_offset, <<header>>)
    BY DEF ZipEntryCloseFails, Writes
<1>5. CASE UNCHANGED file
    BY <1>1, <1>2, <1>3, <1>5, OverSelf, WorkingKept
<1>6. CASE entry.status = "okay" /\ file' # file
    <2>1. /\ entry.offset \in Nat /\ m_archive_size <= entry.offset
          /\ entry.offset <= Len(file) /\ entry.header_offset = m_archive_size
        BY <1>1, <1>6, EntryFields DEF Growing
    <2>2. Rest \in Seq(Plain) /\ Finished \in OpenedEntries
        BY <1>1, <1>6, FinishedFields
    <2> DEFINE f == Put(file, entry.offset, Rest)
    <2>3. Over(file, f, m_archive_size) /\ m_archive_size <= Len(f)
        <3>1. Over(file, f, m_archive_size)
            BY <1>3, <2>1, <2>2, OverSelf, PastEntries
        <3>2. QED
            BY <1>3, <3>1 DEF Over
    <2>4. CASE FailsToWrite(entry.offset, Rest)
        <3>1. Over(file, file', m_archive_size)
            BY <2>1, <2>2, <2>4, FailedPastEntries
        <3>2. QED
            BY <1>1, <1>2, <3>1, WorkingKept
    <2>5. CASE file' = f
        BY <1>1, <1>2, <2>3, <2>5, WorkingKept
    <2> HIDE DEF f
    <2>6. ASSUME NEW header \in {LocalHeader(Finished), Torn, Zero},
                 file' = Put(f, m_archive_size, <<header>>)
          PROVE  Working'
        <3> DEFINE cells == <<header>>
        <3>1. header \in Plain
            BY <2>2 DEF Plain, LocalHeader, LocalHeaders, OpenedEntries
        <3>2. cells \in Seq(Plain)
            BY <3>1
        <3>3. file' = Put(f, m_archive_size, cells)
            BY <2>6
        <3> HIDE DEF cells
        <3>4. Over(file, file', m_archive_size)
            BY <1>3, <2>3, <3>2, <3>3, PastEntries
        <3>5. QED
            BY <1>1, <1>2, <3>4, WorkingKept
    <2>7. QED
        BY <1>4, <1>6, <2>1, <2>4, <2>5, <2>6 DEF f
<1>7. QED
    BY <1>4, <1>5, <1>6

-----------------------------------------------------------------------------
(* Closing the archive.                                                    *)

Ending == EndOfCentralDir(m_total_files, DirectorySize, DirectoryOfs)

LEMMA LastIs ==
    ASSUME Working
    PROVE  /\ LastCells \in Seq(Cells)
           /\ Len(LastCells) = Len(m_central_dir) + 1 /\ Len(m_central_dir) \in Nat
           /\ \A i \in 1..Len(m_central_dir) : LastCells[i] = m_central_dir[i]
           /\ LastCells[Len(m_central_dir) + 1] = Ending
           /\ Ending.k = "end" /\ Ending.ofs = m_archive_size
           /\ Ending.size = Len(m_central_dir) /\ Ending.total = Len(m_central_dir)
<1>1. /\ m_central_dir \in Seq(Records) /\ m_total_files = Len(m_central_dir)
      /\ Len(m_central_dir) \in Nat /\ m_archive_size \in Nat
    BY WorkingTypes
<1>2. Len(m_central_dir) = 0 => m_archive_size = 0
    BY DEF Working, Held, Chained
<1>3. (IF m_total_files > 0 THEN m_central_dir ELSE <<>>) = m_central_dir
    BY <1>1
<1>4. LastCells = m_central_dir \o <<Ending>>
    BY <1>3 DEF LastCells, Ending
<1>5. /\ Ending.k = "end" /\ Ending.ofs = m_archive_size
      /\ Ending.size = Len(m_central_dir) /\ Ending.total = Len(m_central_dir)
    BY <1>1, <1>2 DEF Ending, EndOfCentralDir, DirectorySize, DirectoryOfs
<1>6. m_central_dir \in Seq(Cells) /\ Ending \in Cells
    <2>1. Ending \in Ends
        BY <1>1 DEF Ending, EndOfCentralDir, DirectorySize, DirectoryOfs, Ends
    <2>2. \A c \in Records : c \in Cells
        BY DEF Cells
    <2>3. QED
        BY <1>1, <2>1, <2>2 DEF Cells
<1>7. m_central_dir \o <<Ending>> = Append(m_central_dir, Ending)
    BY <1>6
<1>8. /\ Append(m_central_dir, Ending) \in Seq(Cells)
      /\ Len(Append(m_central_dir, Ending)) = Len(m_central_dir) + 1
      /\ \A i \in 1..Len(m_central_dir) : Append(m_central_dir, Ending)[i] = m_central_dir[i]
      /\ Append(m_central_dir, Ending)[Len(m_central_dir) + 1] = Ending
    BY <1>6, AppendProperties
<1>9. QED
    BY <1>1, <1>4, <1>5, <1>7, <1>8

\* What a write of the directory and its end record leaves, whether it fails or not.
LEMMA LastPartly ==
    ASSUME Working, NEW part, part = LastCells \/ part \in Partly(LastCells)
    PROVE  /\ part \in Seq(Cells) /\ Len(part) \in Nat /\ Len(part) <= Len(m_central_dir) + 1
           /\ \A i \in 1..Len(part) : part[i] = LastCells[i] \/ part[i] = Torn
<1>1. /\ LastCells \in Seq(Cells)
      /\ Len(LastCells) = Len(m_central_dir) + 1 /\ Len(m_central_dir) \in Nat
    BY LastIs
<1>2. CASE part = LastCells
    BY <1>1, <1>2
<1>3. CASE part \in Partly(LastCells)
    <2>1. PICK n \in 0..Len(LastCells) - 1 :
              part = SubSeq(LastCells, 1, n) \/ part = Append(SubSeq(LastCells, 1, n), Torn)
        BY <1>3 DEF Partly
    <2> DEFINE first == SubSeq(LastCells, 1, n)
    <2>2. n \in Nat /\ n < Len(LastCells) /\ \A i \in 1..n : LastCells[i] \in Cells
        BY <1>1
    <2>3. first \in Seq(Cells) /\ Len(first) = n /\ \A i \in 1..n : first[i] = LastCells[i]
        <3>1. n - 1 + 1 = n /\ \A i \in 1..n : 1 + i - 1 = i
            BY <2>2
        <3>2. /\ first \in Seq(Cells)
              /\ Len(first) = IF 1 <= n THEN n - 1 + 1 ELSE 0
              /\ \A i \in 1..n - 1 + 1 : first[i] = LastCells[1 + i - 1]
            BY <2>2, SubSeqProperties
        <3>3. QED
            BY <2>2, <3>1, <3>2
    <2> HIDE DEF first
    <2>4. CASE part = first
        BY <1>1, <2>2, <2>3, <2>4
    <2>5. CASE part = Append(first, Torn)
        <3>1. Torn \in Cells
            BY DEF Cells, Plain
        <3>2. /\ part \in Seq(Cells) /\ Len(part) = n + 1
              /\ \A i \in 1..n : part[i] = first[i]
              /\ part[n + 1] = Torn
            BY <2>3, <2>5, <3>1, AppendProperties
        <3>3. \A i \in 1..n + 1 : i \in 1..n \/ i = n + 1
            BY <2>2
        <3>4. QED
            BY <1>1, <2>2, <2>3, <3>2, <3>3
    <2>6. QED
        BY <2>1, <2>4, <2>5 DEF first
<1>4. QED
    BY <1>2, <1>3

\* The entries stay where they are, and an end record is the one of the directory,
\* if it was written.
LEMMA CloseHeld ==
    ASSUME Working, NEW part, part = LastCells \/ part \in Partly(LastCells),
           NEW g, g = Put(file, m_archive_size, part)
    PROVE  Held(g, m_archive_size, m_central_dir, log)
<1> DEFINE m == m_archive_size
           n == Len(m_central_dir)
<1>1. /\ file \in Seq(Cells) /\ Len(file) \in Nat /\ m \in Nat /\ m <= Len(file)
      /\ m_central_dir \in Seq(Records) /\ log \in Seq(Logged)
      /\ n = Len(log) /\ n \in Nat
    BY WorkingTypes
<1>2. /\ \A i \in 1..Len(log) : Kept(file, m_central_dir[i], log[i], m)
      /\ Chained(m_central_dir, m)
      /\ \A e \in 1..Len(file) : file[e].k = "end" =>
           Current(file, e, m_central_dir, m) \/ Dead(file, e, m)
    BY DEF Working, Held
<1>3. /\ part \in Seq(Cells) /\ Len(part) \in Nat /\ Len(part) <= n + 1
      /\ \A i \in 1..Len(part) : part[i] = LastCells[i] \/ part[i] = Torn
    BY LastPartly
<1>4. /\ \A i \in 1..n : LastCells[i] = m_central_dir[i]
      /\ LastCells[n + 1] = Ending
      /\ Ending.k = "end" /\ Ending.ofs = m /\ Ending.size = n /\ Ending.total = n
    BY LastIs
<1>5. /\ g \in Seq(Cells) /\ Len(g) \in Nat /\ Len(g) >= Len(file)
      /\ Len(g) \in {Len(file), m + Len(part)} /\ Len(g) >= m + Len(part)
      /\ \A i \in 1..Len(part) : g[m + i] = part[i]
      /\ \A i \in 1..Len(file) : i <= m \/ i > m + Len(part) => g[i] = file[i]
    <2> DEFINE p == Put(file, m, part)
    <2>1. /\ p \in Seq(Cells) /\ Len(p) \in Nat /\ Len(p) >= Len(file)
          /\ Len(p) \in {Len(file), m + Len(part)} /\ Len(p) >= m + Len(part)
          /\ \A i \in 1..Len(part) : p[m + i] = part[i]
          /\ \A i \in 1..Len(file) : i <= m \/ i > m + Len(part) => p[i] = file[i]
        BY ONLY <1>1, <1>3, PutProperties
    <2>2. g = p
        OBVIOUS
    <2> HIDE DEF p
    <2>3. QED
        BY ONLY <2>1, <2>2
<1>6. ASSUME NEW i \in 1..n PROVE m_central_dir[i] \in Records /\ m_central_dir[i].k = "central"
    <2>1. m_central_dir[i] \in Records
        BY <1>1
    <2>2. QED
        BY <2>1 DEF Records
<1> HIDE DEF m, n
<1>7. \A i \in 1..m : g[i] = file[i]
    BY <1>1, <1>5
<1>8. ASSUME NEW i \in 1..Len(log) PROVE Kept(g, m_central_dir[i], log[i], m)
    <2>1. /\ m_central_dir[i] \in Records /\ Kept(file, m_central_dir[i], log[i], m)
          /\ m <= m /\ m <= Len(g)
        BY <1>1, <1>2, <1>5, <1>6
    <2>2. QED
        BY <1>1, <1>5, <1>7, <2>1, KeptFrame
<1>9. Torn.k # "end" /\ Torn.k # "central"
    BY DEF Torn
\* Of the records of the directory, those that are in the file are in their places.
<1>10. ASSUME NEW i \in 1..n, g[m + i].k = "central", m + n + 1 <= Len(file),
             \A j \in 1..n : m + j \in 1..Len(file) /\ m + j > m + Len(part)
                              /\ file[m + j].k = "central" => file[m + j] = m_central_dir[j]
      PROVE  g[m + i] = m_central_dir[i]
    <2>1. CASE i \in 1..Len(part)
        BY <1>3, <1>4, <1>5, <1>9, <1>10, <2>1
    <2>2. CASE i \notin 1..Len(part) /\ m + i \in 1..Len(file)
        <3>1. m + i > m + Len(part)
            BY <1>1, <1>3, <2>2
        <3>2. g[m + i] = file[m + i]
            BY <1>5, <2>2, <3>1
        <3>3. QED
            BY <1>10, <2>2, <3>1, <3>2
    <2>3. m + i \in 1..Len(file)
        BY <1>1, <1>10
    <2>4. QED
        BY <2>1, <2>2, <2>3
<1>11. ASSUME NEW e \in 1..Len(g), g[e].k = "end"
       PROVE  Current(g, e, m_central_dir, m) \/ Dead(g, e, m)
    <2>1. CASE e > m /\ e <= m + Len(part)
        <3>1. e - m \in 1..Len(part) /\ m + (e - m) = e
            BY <1>1, <1>3, <2>1
        <3>2. g[e] = part[e - m] /\ part[e - m] = LastCells[e - m]
            BY <1>3, <1>5, <1>9, <1>11, <3>1
        <3>3. e - m = n + 1 /\ Len(part) = n + 1
            <4>1. e - m \notin 1..n
                BY <1>4, <1>11, <1>6, <3>2
            <4>2. QED
                BY <1>1, <1>3, <3>1, <4>1
        <3>4. g[e] = Ending /\ e = m + n + 1
            BY <1>1, <1>4, <3>1, <3>2, <3>3
        <3>5. ASSUME NEW i \in 1..n, g[m + i].k = "central" PROVE g[m + i] = m_central_dir[i]
            <4>1. i \in 1..Len(part)
                BY <1>1, <3>3, <3>5
            <4>2. QED
                BY <1>3, <1>4, <1>5, <1>9, <3>5, <4>1
        <3>6. QED
            BY <1>4, <3>4, <3>5 DEF Current, n
    <2>2. CASE ~(e > m /\ e <= m + Len(part))
        <3>1. e \in 1..Len(file) /\ g[e] = file[e] /\ file[e].k = "end"
            BY <1>1, <1>3, <1>5, <1>11, <2>2
        <3>2. CASE Current(file, e, m_central_dir, m)
            <4>1. /\ e = m + n + 1
                  /\ file[e].ofs = m /\ file[e].size = n /\ file[e].total = n
                  /\ \A i \in 1..n : file[m + i].k = "central" => file[m + i] = m_central_dir[i]
                BY <3>2 DEF Current, n
            <4>2. \A i \in 1..n : g[m + i].k = "central" => g[m + i] = m_central_dir[i]
                BY <1>1, <1>10, <3>1, <4>1
            <4>3. QED
                BY <3>1, <4>1, <4>2 DEF Current, n
        <3>3. CASE Dead(file, e, m)
            <4>1. file[e].total >= 1 /\ file[e].ofs + 1 <= m /\ file[file[e].ofs + 1].k # "central"
                BY <3>3 DEF Dead
            <4>2. file[e].ofs + 1 \in 1..m
                BY <1>1, <3>1, <4>1, EndTypes
            <4>3. QED
                BY <1>7, <3>1, <4>1, <4>2 DEF Dead
        <3>4. QED
            BY <1>2, <3>1, <3>2, <3>3
    <2>3. QED
        BY <2>1, <2>2
<1>12. QED
    <2>1. m <= Len(g)
        BY <1>1, <1>5
    <2>2. QED
        BY <1>1, <1>2, <1>5, <1>8, <1>11, <2>1 DEF Held, m, n

\* zip_archive_truncate cuts past the entries.
LEMMA CutHeld ==
    ASSUME NEW f, NEW m, NEW dir, NEW lg, Held(f, m, dir, lg),
           NEW size \in Nat, size <= Len(f), m + Len(dir) + 1 <= size
    PROVE  /\ Held(SubSeq(f, 1, size), m, dir, lg) /\ Len(SubSeq(f, 1, size)) = size
           /\ \A i \in 1..size : SubSeq(f, 1, size)[i] = f[i]
<1> DEFINE g == SubSeq(f, 1, size)
<1>1. /\ f \in Seq(Cells) /\ m \in Nat /\ m <= Len(f) /\ Len(f) \in Nat
      /\ dir \in Seq(Records) /\ lg \in Seq(Logged) /\ Len(dir) = Len(lg) /\ Len(dir) \in Nat
      /\ \A i \in 1..Len(lg) : Kept(f, dir[i], lg[i], m)
      /\ Chained(dir, m)
      /\ \A e \in 1..Len(f) : f[e].k = "end" => Current(f, e, dir, m) \/ Dead(f, e, m)
    BY DEF Held
<1>2. /\ g \in Seq(Cells) /\ Len(g) = size /\ \A i \in 1..size : g[i] = f[i]
    <2>1. size - 1 + 1 = size /\ (\A i \in 1..size : 1 + i - 1 = i)
          /\ \A i \in 1..size : f[i] \in Cells
        BY <1>1
    <2>2. /\ g \in Seq(Cells)
          /\ Len(g) = IF 1 <= size THEN size - 1 + 1 ELSE 0
          /\ \A i \in 1..size - 1 + 1 : g[i] = f[1 + i - 1]
        BY <2>1, SubSeqProperties
    <2>3. QED
        BY <2>1, <2>2
<1> HIDE DEF g
<1>3. ASSUME NEW i \in 1..Len(lg) PROVE Kept(g, dir[i], lg[i], m)
    <2>1. /\ dir[i] \in Records /\ Kept(f, dir[i], lg[i], m) /\ m <= m /\ m <= Len(g)
          /\ \A j \in 1..m : g[j] = f[j]
        BY <1>1, <1>2
    <2>2. QED
        BY <1>1, <1>2, <2>1, KeptFrame
<1>4. ASSUME NEW e \in 1..Len(g), g[e].k = "end" PROVE Current(g, e, dir, m) \/ Dead(g, e, m)
    <2>1. e \in 1..Len(f) /\ g[e] = f[e]
        BY <1>1, <1>2
    <2>2. CASE Current(f, e, dir, m)
        <3>1. \A i \in 1..Len(dir) : m + i \in 1..size
            BY <1>1
        <3>2. QED
            BY <1>2, <2>1, <2>2, <3>1 DEF Current
    <2>3. CASE Dead(f, e, m)
        <3>1. f[e].total >= 1 /\ f[e].ofs + 1 <= m /\ f[f[e].ofs + 1].k # "central"
            BY <2>3 DEF Dead
        <3>2. f[e].ofs + 1 \in 1..size
            BY <1>1, <1>4, <2>1, <3>1, EndTypes
        <3>3. QED
            BY <1>2, <2>1, <3>1, <3>2 DEF Dead
    <2>4. QED
        BY <1>1, <1>4, <2>1, <2>2, <2>3
<1>5. QED
    BY <1>1, <1>2, <1>3, <1>4 DEF Held, g

-----------------------------------------------------------------------------
(* Reading the archive.                                                    *)

LEMMA DirectoryIs ==
    ASSUME NEW f \in Seq(Cells), NEW e \in 1..Len(f), e = LocateEnd(f), f[e].k = "end",
           f[e].ofs + f[e].size <= Len(f)
    PROVE  /\ Directory(f) \in Seq(Cells) /\ Len(Directory(f)) = f[e].size
           /\ \A i \in 1..f[e].size : Directory(f)[i] = f[f[e].ofs + i]
<1> DEFINE ofs == f[e].ofs
           size == f[e].size
           from == ofs + 1
           to == ofs + size
<1>1. Directory(f) = SubSeq(f, from, to)
    BY DEF Directory
<1>2. ofs \in Nat /\ size \in Nat /\ Len(f) \in Nat /\ ofs + size <= Len(f)
    BY EndTypes
<1> HIDE DEF ofs, size
<1>3. /\ from \in Nat /\ to \in Nat /\ to - from + 1 = size /\ (from <= to <=> size # 0)
      /\ \A i \in 1..size : from + i - 1 = ofs + i
      /\ \A i \in from..to : i \in 1..Len(f)
    BY <1>2
<1>4. \A i \in from..to : f[i] \in Cells
    BY <1>3
<1> HIDE DEF from, to
<1>5. /\ SubSeq(f, from, to) \in Seq(Cells)
      /\ Len(SubSeq(f, from, to)) = IF from <= to THEN to - from + 1 ELSE 0
      /\ \A i \in 1..to - from + 1 : SubSeq(f, from, to)[i] = f[from + i - 1]
    BY <1>3, <1>4, SubSeqProperties
<1>6. Len(SubSeq(f, from, to)) = size /\ \A i \in 1..size : SubSeq(f, from, to)[i] = f[ofs + i]
    BY <1>2, <1>3, <1>5
<1>7. QED
    BY <1>1, <1>5, <1>6 DEF ofs, size

\* A reader that accepts the file finds the directory and gets the entries.
LEMMA HeldView ==
    ASSUME NEW f, NEW m, NEW dir, NEW lg, Held(f, m, dir, lg), Accepts(f)
    PROVE  /\ f[LocateEnd(f)].ofs = m /\ f[LocateEnd(f)].total = Len(lg)
           /\ f[LocateEnd(f)].size = Len(lg)
           /\ Directory(f) = dir /\ View(f) = lg
<1> DEFINE e == LocateEnd(f)
           end == f[e]
           n == Len(dir)
<1>1. /\ f \in Seq(Cells) /\ m \in Nat /\ m <= Len(f) /\ Len(f) \in Nat
      /\ dir \in Seq(Records) /\ lg \in Seq(Logged) /\ n = Len(lg) /\ n \in Nat
      /\ \A i \in 1..Len(lg) : Kept(f, dir[i], lg[i], m)
      /\ \A i \in 1..Len(f) : f[i].k = "end" => Current(f, i, dir, m) \/ Dead(f, i, m)
    BY DEF Held
<1>2. /\ e \in 1..Len(f) /\ end.k = "end"
      /\ end.size >= end.total /\ end.ofs + end.size <= Len(f)
      /\ \A i \in 1..end.total : GoodRecord(f, Directory(f)[i])
    BY <1>1, EndFound DEF Accepts
<1>3. end.ofs \in Nat /\ end.size \in Nat /\ end.total \in Nat
    BY <1>1, <1>2, EndTypes
<1>4. /\ Directory(f) \in Seq(Cells) /\ Len(Directory(f)) = end.size
      /\ \A i \in 1..end.size : Directory(f)[i] = f[end.ofs + i]
    BY <1>1, <1>2, DirectoryIs
<1>5. ~Dead(f, e, m)
    <2>1. ASSUME Dead(f, e, m) PROVE FALSE
        <3>1. end.total >= 1 /\ f[end.ofs + 1].k # "central"
            BY <2>1 DEF Dead
        <3>2. 1 \in 1..end.total /\ 1 \in 1..end.size
            BY <1>2, <1>3, <3>1
        <3>3. QED
            BY <1>2, <1>4, <3>1, <3>2 DEF GoodRecord
    <2>2. QED
        BY <2>1
<1>6. /\ e = m + n + 1 /\ end.ofs = m /\ end.size = n /\ end.total = n
      /\ \A i \in 1..n : f[m + i].k = "central" => f[m + i] = dir[i]
    BY <1>1, <1>2, <1>5 DEF Current
<1> HIDE DEF e, end
<1>7. \A i \in 1..n : Directory(f)[i] = dir[i]
    BY <1>2, <1>4, <1>6 DEF GoodRecord
<1>8. Directory(f) = dir
    <2>1. Len(Directory(f)) = Len(dir) /\ \A i \in 1..Len(Directory(f)) : Directory(f)[i] = dir[i]
        BY <1>4, <1>6, <1>7
    <2>2. dir \in Seq(Cells)
        <3>1. \A c \in Records : c \in Cells
            BY DEF Cells
        <3>2. QED
            BY <1>1, <3>1
    <2>3. QED
        BY ONLY <1>4, <2>1, <2>2, SeqEqual
<1>9. View(f) = lg
    <2>1. View(f) = [i \in 1..n |-> [name |-> dir[i].name, data |-> Extract(f, dir[i])]]
        BY <1>6, <1>8 DEF View, e, end
    <2>2. ASSUME NEW i \in 1..n
          PROVE  [name |-> dir[i].name, data |-> Extract(f, dir[i])] = lg[i]
        <3>1. Kept(f, dir[i], lg[i], m) /\ lg[i] \in Logged
            BY <1>1, <2>2
        <3>2. QED
            BY <3>1 DEF Kept, Logged
    <2>3. lg = [i \in 1..n |-> lg[i]]
        BY <1>1
    <2>4. QED
        BY <2>1, <2>2, <2>3
<1>10. QED
    BY <1>1, <1>6, <1>8, <1>9 DEF e, end

\* And it accepts a file whose last end record closes the whole directory.
LEMMA HeldAccepted ==
    ASSUME NEW f, NEW m, NEW dir, NEW lg, Held(f, m, dir, lg),
           NEW e, e = m + Len(dir) + 1, e = Len(f),
           f[e].k = "end", f[e].ofs = m, f[e].size = Len(dir), f[e].total = Len(dir),
           \A i \in 1..Len(dir) : f[m + i] = dir[i]
    PROVE  Accepts(f)
<1> DEFINE n == Len(dir)
<1>1. /\ f \in Seq(Cells) /\ m \in Nat /\ m <= Len(f) /\ Len(f) \in Nat
      /\ dir \in Seq(Records) /\ n = Len(lg) /\ n \in Nat
      /\ \A i \in 1..Len(lg) : Kept(f, dir[i], lg[i], m)
    BY DEF Held
<1>2. e \in 1..Len(f)
    BY <1>1
<1>3. LocateEnd(f) = e
    BY <1>1, <1>2, EndFound
<1>4. f[e].ofs + f[e].size <= Len(f)
    BY <1>1
<1>5. \A i \in 1..n : Directory(f)[i] = dir[i]
    <2>1. \A i \in 1..f[e].size : Directory(f)[i] = f[f[e].ofs + i]
        BY <1>1, <1>2, <1>3, <1>4, DirectoryIs
    <2>2. QED
        BY <2>1
<1>6. ASSUME NEW i \in 1..n PROVE GoodRecord(f, Directory(f)[i])
    <2> DEFINE c == dir[i]
    <2>1. Kept(f, c, lg[i], m) /\ c \in Records
        BY <1>1, <1>6
    <2>2. Directory(f)[i] = c
        BY <1>5, <1>6
    <2> HIDE DEF c
    <2>3. c.k = "central" /\ c.ofs \in Nat /\ c.comp \in Nat
        BY <2>1 DEF Records
    <2>4. c.ofs + 1 + c.comp <= Len(f)
        BY <1>1, <2>1, <2>3 DEF Kept
    <2>5. QED
        BY <2>1, <2>2, <2>3, <2>4 DEF Kept, GoodRecord
<1>7. QED
    BY <1>1, <1>2, <1>3, <1>4, <1>6 DEF Accepts

LEMMA CloseWorks ==
    ASSUME Working, ZipClose
    PROVE  Held(file', m_archive_size, m_central_dir, log) /\ Accepts(file')
<1> DEFINE m == m_archive_size
           n == Len(m_central_dir)
           f == Put(file, m, LastCells)
           size == m + Len(LastCells)
<1>1. file' = SubSeq(f, 1, size)
    BY DEF ZipClose, Truncated
<1>2. /\ m \in Nat /\ m <= Len(file) /\ file \in Seq(Cells) /\ Len(file) \in Nat /\ n \in Nat
    BY WorkingTypes
<1>3. /\ LastCells \in Seq(Cells) /\ Len(LastCells) = n + 1
      /\ \A i \in 1..n : LastCells[i] = m_central_dir[i]
      /\ LastCells[n + 1] = Ending
      /\ Ending.k = "end" /\ Ending.ofs = m /\ Ending.size = n /\ Ending.total = n
    BY LastIs
<1>4. /\ Len(f) \in Nat /\ Len(f) >= size
      /\ \A i \in 1..Len(LastCells) : f[m + i] = LastCells[i]
    <2> DEFINE p == Put(file, m, LastCells)
    <2>1. /\ m \in Nat /\ m <= Len(file) /\ file \in Seq(Cells) /\ LastCells \in Seq(Cells)
        BY <1>2, <1>3
    <2>4. /\ Len(p) \in Nat /\ Len(p) >= m + Len(LastCells)
          /\ \A i \in 1..Len(LastCells) : p[m + i] = LastCells[i]
        BY ONLY <2>1, PutProperties
    <2>2. f = p
        OBVIOUS
    <2> HIDE DEF p
    <2>3. QED
        BY <2>4, <2>2
<1>5. Held(f, m, m_central_dir, log)
    BY CloseHeld
<1> HIDE DEF f
<1>6. size = m + n + 1 /\ size \in Nat /\ m <= size /\ m + n + 1 <= size
    <2>1. size = m + Len(LastCells) /\ Len(LastCells) = n + 1 /\ m \in Nat /\ n \in Nat
        BY <1>2, <1>3
    <2> HIDE DEF m, n, size
    <2>2. QED
        BY ONLY <2>1
<1> HIDE DEF size
<1>7. /\ Held(file', m, m_central_dir, log) /\ Len(file') = size
      /\ \A i \in 1..size : file'[i] = f[i]
    <2>1. /\ Held(f, m, m_central_dir, log) /\ size \in Nat /\ m <= size
          /\ size <= Len(f) /\ m + Len(m_central_dir) + 1 <= size
        BY <1>4, <1>5, <1>6
    <2> DEFINE g == SubSeq(f, 1, size)
    <2>2. Held(g, m, m_central_dir, log) /\ Len(g) = size /\ \A i \in 1..size : g[i] = f[i]
        BY ONLY <2>1, CutHeld
    <2>3. file' = g
        BY <1>1
    <2> HIDE DEF g
    <2>4. QED
        BY ONLY <2>2, <2>3
<1>8. \A i \in 1..n : file'[m + i] = m_central_dir[i]
    <2>1. \A i \in 1..n : i \in 1..Len(LastCells) /\ m + i \in 1..size
        BY <1>2, <1>3, <1>6
    <2>2. QED
        BY <1>3, <1>4, <1>7, <2>1
<1>9. file'[size] = Ending
    <2>1. n + 1 \in 1..Len(LastCells) /\ m + (n + 1) = size /\ size \in 1..size
        BY <1>2, <1>3, <1>6
    <2>2. QED
        BY <1>3, <1>4, <1>7, <2>1
<1>10. Accepts(file')
    BY <1>3, <1>6, <1>7, <1>8, <1>9, HeldAccepted
<1>11. QED
    BY <1>7, <1>10

LEMMA CloseFailsWorks ==
    ASSUME Working, ZipCloseFails
    PROVE  Held(file', m_archive_size, m_central_dir, log)
<1>1. Held(file, m_archive_size, m_central_dir, log)
    BY DEF Working
<1>2. CASE UNCHANGED file
    BY <1>1, <1>2
<1>3. CASE file' # file
    <2>1. \E part : /\ part = LastCells \/ part \in Partly(LastCells)
                    /\ file' = Put(file, m_archive_size, part)
        BY <1>3 DEF ZipCloseFails, FailsToWrite
    <2>2. QED
        BY <2>1, CloseHeld
<1>4. QED
    BY <1>2, <1>3

-----------------------------------------------------------------------------
(* The theorems.                                                           *)

LEMMA InitArchive == Init => ArchiveInv
<1> SUFFICES ASSUME Init PROVE ArchiveInv
    OBVIOUS
<1>1. /\ file = <<>> /\ mode = "closed" /\ sound = FALSE /\ log = <<>>
    BY DEF Init
<1>2. file = <<>>
    BY <1>1
<1>3. file \in Seq(Cells)
    BY ONLY <1>2, EmptySeq, Zenon
<1>4. LocateEnd(file) \in 0..Len(file) /\ Len(file) = 0
    BY <1>2, <1>3, EndFound
<1>5. ~Accepts(file)
    BY <1>4 DEF Accepts
<1>6. ToSet(log) \subseteq written
    BY <1>1 DEF ToSet
<1>7. QED
    BY <1>1, <1>5, <1>6 DEF ArchiveInv

\* zip_open with 'a' or 'd' finds the entries where zip_close left them.
LEMMA OpenExistingWorks ==
    ASSUME ArchiveInv, NEW m, ZipOpenExisting(m)
    PROVE  Working' /\ mode' = "writing" /\ sound' = FALSE /\ log' = log
<1> DEFINE end == file[LocateEnd(file)]
<1>1. /\ mode = "closed" /\ mode' = "writing" /\ sound' = FALSE /\ Accepts(file)
      /\ level' \in Levels /\ entry' = NoEntry
      /\ m_archive_size' = end.ofs /\ m_total_files' = end.total
      /\ m_central_dir' = Directory(file)
      /\ m_central_dir_offsets' = [i \in 1..end.total |-> i - 1]
      /\ log' = View(file) /\ file' = file
    BY DEF ZipOpenExisting, Opens
<1>2. Held(file, end.ofs, Directory(file), log)
    BY <1>1 DEF ArchiveInv
<1>3. end.total = Len(log) /\ View(file) = log
    BY <1>1, <1>2, HeldView
<1> HIDE DEF end
<1>4. Held(file', m_archive_size', m_central_dir', log')
    BY <1>1, <1>2, <1>3
<1>5. EntryGrows'
    BY <1>1 DEF EntryGrows
<1>6. QED
    BY <1>1, <1>3, <1>4, <1>5, LevelType DEF Working

\* The calls while the archive is written, but for deleting, zip_close and a crash.
Calls ==
    \/ \E n \in Names : ZipEntryOpen(n) \/ ZipEntryOpenFails(n)
    \/ \E buf \in Buffers : ZipEntryWrite(buf) \/ ZipEntryWriteFails(buf)
    \/ ZipEntryClose \/ ZipEntryCloseFails

LEMMA CallsKeep ==
    ASSUME Calls
    PROVE  mode = "writing" /\ UNCHANGED <<how, mode, level, whole, sound, opens>>
BY DEF Calls, ZipEntryOpen, ZipEntryOpenFails, ZipEntryWrite, ZipEntryWriteFails, ZipEntryClose,
       ZipEntryCloseFails, EntryOpenAllowed, EntryWritable, Closing, Abandoned, HandleKept

LEMMA CallsWork ==
    ASSUME Working, Calls, ToSet(log) \subseteq written
    PROVE  Working' /\ ToSet(log') \subseteq written'
<1>1. CASE \E n \in Names : ZipEntryOpen(n) \/ ZipEntryOpenFails(n)
    <2>1. UNCHANGED <<log, written>>
        BY <1>1 DEF ZipEntryOpen, ZipEntryOpenFails, HandleKept
    <2>2. QED
        BY <1>1, <2>1, EntryOpenWorks, EntryOpenFailsWorks
<1>2. CASE \E buf \in Buffers : ZipEntryWrite(buf) \/ ZipEntryWriteFails(buf)
    <2>1. UNCHANGED <<log, written>>
        BY <1>2 DEF ZipEntryWrite, ZipEntryWriteFails, HandleKept
    <2>2. QED
        BY <1>2, <2>1, EntryWriteWorks, EntryWriteFailsWorks
<1>3. CASE ZipEntryClose
    <2> DEFINE d == [name |-> entry.name, data |-> entry.crc]
    <2>1. log' = Append(log, d) /\ written' = written \cup {d}
        BY <1>3 DEF ZipEntryClose
    <2>2. log \in Seq(Logged)
        BY WorkingTypes
    <2> HIDE DEF d
    <2>3. Working'
        BY <1>3, EntryCloseWorks
    <2>4. ASSUME NEW i \in DOMAIN log' PROVE log'[i] \in written'
        <3>1. Len(log') = Len(log) + 1 /\ DOMAIN log' = 1..Len(log) + 1 /\ Len(log) \in Nat
            BY <2>1, <2>2
        <3>2. CASE i \in 1..Len(log)
            <4>1. log'[i] = log[i] /\ log[i] \in ToSet(log)
                BY <2>1, <2>2, <3>2 DEF ToSet
            <4>2. QED
                BY <2>1, <4>1
        <3>3. CASE i = Len(log) + 1
            BY <2>1, <2>2, <3>3
        <3>4. QED
            BY <2>4, <3>1, <3>2, <3>3
    <2>5. QED
        BY <2>3, <2>4 DEF ToSet
<1>4. CASE ZipEntryCloseFails
    <2>1. UNCHANGED <<log, written>>
        BY <1>4 DEF ZipEntryCloseFails, Abandoned, HandleKept
    <2>2. QED
        BY <1>4, <2>1, EntryCloseFailsWorks
<1>5. QED
    BY <1>1, <1>2, <1>3, <1>4 DEF Calls

\* A call that deletes entries.
Deletes == \E names \in SUBSET Names : ZipEntriesDelete(names) \/ ZipEntriesDeleteFails(names)

LEMMA NewStep ==
    ASSUME ZipOpenNew
    PROVE  ArchiveInv'
<1>1. log' = <<>>
    BY DEF ZipOpenNew
<1>2. ToSet(log') \subseteq written'
    BY <1>1 DEF ToSet
<1>3. QED
    BY <1>2, OpenNewWorks DEF ArchiveInv

LEMMA ArchiveStep ==
    ASSUME ArchiveInv, [Next]_vars, ~Deletes
    PROVE  ArchiveInv'
<1>1. CASE ZipOpenNew
    BY <1>1, NewStep
<1>2. CASE \E m \in {"a", "d"} : ZipOpenExisting(m)
    <2>1. UNCHANGED written
        BY <1>2 DEF ZipOpenExisting
    <2>2. QED
        BY <1>2, <2>1, OpenExistingWorks DEF ArchiveInv
<1>3. CASE Calls
    <2>1. mode = "writing" /\ mode' = "writing" /\ sound' = sound
        BY <1>3, CallsKeep
    <2>2. QED
        BY <1>3, <2>1, CallsWork DEF ArchiveInv
<1>4. CASE ZipClose
    <2>1. mode = "writing" /\ mode' = "closed" /\ UNCHANGED <<log, written>>
        BY <1>4 DEF ZipClose, Released
    <2>2. Held(file', m_archive_size, m_central_dir, log) /\ Accepts(file')
        BY <1>4, <2>1, CloseWorks DEF ArchiveInv
    <2>3. /\ file'[LocateEnd(file')].ofs = m_archive_size
          /\ Directory(file') = m_central_dir /\ View(file') = log
        BY <2>2, HeldView
    <2>4. Complete' /\ Held(file', file'[LocateEnd(file')].ofs, Directory(file'), log')
        BY <2>1, <2>2, <2>3 DEF Complete
    <2>5. QED
        BY <2>1, <2>4 DEF ArchiveInv
<1>5. CASE ZipCloseFails
    <2>1. mode = "writing" /\ mode' = "closed" /\ sound' = FALSE /\ UNCHANGED <<log, written>>
        BY <1>5 DEF ZipCloseFails, Released
    <2>2. Held(file', m_archive_size, m_central_dir, log)
        BY <1>5, <2>1, CloseFailsWorks DEF ArchiveInv
    <2>3. ASSUME Accepts(file')
          PROVE  Held(file', file'[LocateEnd(file')].ofs, Directory(file'), log')
        BY <2>1, <2>2, <2>3, HeldView
    <2>4. QED
        BY <2>1, <2>3 DEF ArchiveInv
<1>6. CASE Crash
    <2>1. /\ mode \in {"writing", "undefined"} /\ mode' = "closed" /\ sound' = FALSE
          /\ UNCHANGED <<file, log, written>>
        BY <1>6 DEF Crash, Released
    <2>2. Held(file, m_archive_size, m_central_dir, log)
        BY <2>1 DEF ArchiveInv, Working
    <2>3. ASSUME Accepts(file)
          PROVE  Held(file, file[LocateEnd(file)].ofs, Directory(file), log)
        BY <2>2, <2>3, HeldView
    <2>4. QED
        BY <2>1, <2>3 DEF ArchiveInv
<1>7. CASE UNCHANGED vars
    <2>1. UNCHANGED <<file, mode, level, m_archive_size, m_total_files, m_central_dir,
                      m_central_dir_offsets, entry, log, written, sound>>
        BY <1>7 DEF vars, handle
    <2>2. Working => Working'
        BY <2>1 DEF Working, EntryGrows, Growing, Cell
    <2>3. Complete => Complete'
        BY <2>1 DEF Complete
    <2>4. QED
        BY <2>1, <2>2, <2>3 DEF ArchiveInv
<1>8. QED
    BY <1>1, <1>2, <1>3, <1>4, <1>5, <1>6, <1>7 DEF Next, Calls, Deletes

LEMMA ArchiveAlways == Spec /\ [][~Deletes]_vars => []ArchiveInv
<1>1. ArchiveInv /\ [Next]_vars /\ [~Deletes]_vars => ArchiveInv'
    <2> SUFFICES ASSUME ArchiveInv, [Next]_vars, [~Deletes]_vars PROVE ArchiveInv'
        OBVIOUS
    <2>1. CASE ~Deletes
        BY <2>1, ArchiveStep
    <2>2. CASE UNCHANGED vars
        <3>1. UNCHANGED <<file, mode, level, m_archive_size, m_total_files, m_central_dir,
                          m_central_dir_offsets, entry, log, written, sound>>
            BY <2>2 DEF vars, handle
        <3>2. Working => Working'
            BY <3>1 DEF Working, EntryGrows, Growing, Cell
        <3>3. Complete => Complete'
            BY <3>1 DEF Complete
        <3>4. QED
            BY <3>1, <3>2, <3>3 DEF ArchiveInv
    <2>3. QED
        BY <2>1, <2>2
<1>2. QED
    BY <1>1, InitArchive, PTL DEF Spec

\* An archive made anew: nothing is deleted from it.
LEMMA FreshAlways == Spec => []FreshInv
<1>1. Init => FreshInv
    BY InitArchive DEF FreshInv
<1>2. FreshInv /\ [Next]_vars => FreshInv'
    <2> SUFFICES ASSUME FreshInv, [Next]_vars, how' = "w" PROVE ArchiveInv'
        BY DEF FreshInv
    <2>1. CASE ZipOpenNew
        BY <2>1, NewStep
    <2>2. CASE \E m \in {"a", "d"} : ZipOpenExisting(m)
        BY <2>2 DEF ZipOpenExisting, Opens
    <2>3. CASE Deletes
        BY <2>3 DEF Deletes, ZipEntriesDelete, ZipEntriesDeleteFails
    <2>4. CASE Calls \/ ZipClose \/ ZipCloseFails \/ Crash \/ UNCHANGED vars
        <3>1. how' = how
            BY <2>4, CallsKeep DEF ZipClose, ZipCloseFails, Crash, Released, vars
        <3>2. CASE ~Deletes
            BY <3>1, <3>2, ArchiveStep DEF FreshInv
        <3>3. QED
            BY <2>3, <3>2
    <2>5. QED
        BY <2>1, <2>2, <2>3, <2>4 DEF Next, Calls, Deletes
<1>3. QED
    BY <1>1, <1>2, PTL DEF Spec

-----------------------------------------------------------------------------
(* The counters and their limits.                                          *)

Counts ==
    /\ how \in {"w", "a", "d"} /\ level \in Levels \cup {0}
    /\ opens \in 0..MaxOpens /\ faults \in 0..MaxFaults
    /\ whole \in BOOLEAN /\ sound \in BOOLEAN

LEMMA NatLimits ==
    /\ MaxData \in Nat /\ MAX_FILES \in Nat /\ MAX_OFFSET \in Nat
    /\ MaxOpens \in Nat /\ MaxFaults \in Nat
BY ArchiveAssumption DEF ArchiveAssumption

LEMMA InitCounts == Init => Counts
<1> SUFFICES ASSUME Init PROVE Counts
    OBVIOUS
<1>1. opens \in 0..MaxOpens /\ faults \in 0..MaxFaults
    BY NatLimits DEF Init
<1>2. how \in {"w", "a", "d"} /\ level \in Levels \cup {0}
    BY DEF Init
<1>3. whole \in BOOLEAN /\ sound \in BOOLEAN
    BY Zenon DEF Init
<1>4. QED
    BY <1>1, <1>2, <1>3 DEF Counts

\* What a call counts as failed.
LEMMA CountedFaults ==
    ASSUME Counts, Next
    PROVE  faults' \in 0..MaxFaults
<1>1. UNCHANGED faults \/ (faults < MaxFaults /\ faults' = faults + 1)
    <2>1. CASE ZipOpenNew \/ \E m \in {"a", "d"} : ZipOpenExisting(m)
        BY <2>1 DEF ZipOpenNew, ZipOpenExisting, Opens
    <2>2. CASE \/ \E n \in Names : ZipEntryOpen(n) \/ ZipEntryOpenFails(n)
               \/ \E buf \in Buffers : ZipEntryWrite(buf) \/ ZipEntryWriteFails(buf)
        BY <2>2 DEF ZipEntryOpen, ZipEntryOpenFails, ZipEntryWrite, ZipEntryWriteFails,
                    Writes, FailsToWrite
    <2>3. CASE ZipEntryClose
        BY <2>3 DEF ZipEntryClose
    <2>4. CASE ZipEntryCloseFails
        BY <2>4 DEF ZipEntryCloseFails, Writes, FailsToWrite
    <2>5. CASE \E names \in SUBSET Names : ZipEntriesDelete(names) \/ ZipEntriesDeleteFails(names)
        BY <2>5 DEF ZipEntriesDelete, ZipEntriesDeleteFails
    <2>6. CASE ZipClose \/ ZipCloseFails \/ Crash
        BY <2>6 DEF ZipClose, ZipCloseFails, Crash, FailsToWrite
    <2>7. QED
        BY <2>1, <2>2, <2>3, <2>4, <2>5, <2>6 DEF Next
<1>2. QED
    BY <1>1, NatLimits DEF Counts

LEMMA CountsStep ==
    ASSUME Counts, Next
    PROVE  Counts'
<1>1. CASE ZipOpenNew \/ \E m \in {"a", "d"} : ZipOpenExisting(m)
    <2>1. PICK m \in {"w", "a", "d"} : Opens(m)
        BY <1>1 DEF ZipOpenNew, ZipOpenExisting
    <2>2. opens' \in 0..MaxOpens
        BY <2>1, NatLimits DEF Counts, Opens
    <2>3. QED
        BY <2>1, <2>2, CountedFaults DEF Counts, Opens
<1>2. CASE Calls \/ Deletes
    <2>1. UNCHANGED <<how, level, opens, whole, sound>>
        BY <1>2, CallsKeep DEF Deletes, ZipEntriesDelete, ZipEntriesDeleteFails
    <2>2. QED
        BY <2>1, CountedFaults DEF Counts
<1>3. CASE ZipClose \/ ZipCloseFails \/ Crash
    <2>1. UNCHANGED <<how, opens, whole>> /\ level' = 0 /\ sound' \in BOOLEAN
        BY <1>3 DEF ZipClose, ZipCloseFails, Crash, Released
    <2>2. QED
        BY <2>1, CountedFaults DEF Counts
<1>4. QED
    BY <1>1, <1>2, <1>3 DEF Next, Calls, Deletes

\* What the handle counts, and what the entry in it was given.
Sizes ==
    /\ m_archive_size <= MAX_OFFSET /\ m_total_files <= MAX_FILES
    /\ entry # NoEntry =>
         m_total_files < MAX_FILES /\ entry.uncomp = Len(entry.crc) /\ entry.uncomp <= MaxData
    /\ mode = "closed" =>
         /\ m_archive_size = 0 /\ m_total_files = 0
         /\ m_central_dir_offsets = <<>> /\ entry = NoEntry

LEMMA InitSizes == Init => Sizes
BY NatLimits DEF Init, Sizes

LEMMA WriteSizes ==
    ASSUME Working, Sizes, NEW buf \in Buffers, ZipEntryWrite(buf) \/ ZipEntryWriteFails(buf)
    PROVE  Sizes'
<1> DEFINE crc == entry.crc \o buf
<1>1. /\ entry # NoEntry /\ entry \in OpenedEntries /\ mode = "writing"
      /\ entry.uncomp + Len(buf) <= MaxData
      /\ UNCHANGED <<mode, m_archive_size, m_total_files>>
    BY DEF ZipEntryWrite, ZipEntryWriteFails, EntryWritable, HandleKept, Working, EntryGrows
<1>2. buf \in Seq(Units)
    BY ArchiveAssumption DEF ArchiveAssumption
<1>3. entry.crc \in Seq(Units) /\ entry.uncomp \in Nat /\ entry.uncomp = Len(entry.crc)
    BY <1>1 DEF OpenedEntries, Sizes
<1>4. Len(crc) = Len(entry.crc) + Len(buf)
    BY ONLY <1>2, <1>3, ConcatProperties
<1>5. entry'.crc = crc /\ entry'.uncomp = entry.uncomp + Len(buf)
    BY <1>1 DEF ZipEntryWrite, ZipEntryWriteFails, Counted, Advanced, OpenedEntries
<1> HIDE DEF crc
<1>6. QED
    BY <1>1, <1>3, <1>4, <1>5 DEF Sizes

LEMMA SizesStep ==
    ASSUME ArchiveInv, Sizes, Next, ~Deletes
    PROVE  Sizes'
<1>1. CASE ZipOpenNew
    BY <1>1, NatLimits DEF ZipOpenNew, Opens, Sizes
<1>2. CASE \E m \in {"a", "d"} : ZipOpenExisting(m)
    <2> DEFINE end == file[LocateEnd(file)]
    <2>1. /\ mode = "closed" /\ mode' = "writing" /\ Accepts(file) /\ entry' = NoEntry
          /\ end.total < MAX_FILES /\ Len(file) + 2 <= MAX_OFFSET
          /\ m_archive_size' = end.ofs /\ m_total_files' = end.total
        BY <1>2 DEF ZipOpenExisting, Opens
    <2>2. Held(file, end.ofs, Directory(file), log)
        BY <2>1 DEF ArchiveInv
    <2>3. end.ofs \in Nat /\ end.ofs <= Len(file) /\ Len(file) \in Nat /\ end.total = Len(log)
        BY <2>1, <2>2, HeldView DEF Held
    <2>4. end.total \in Nat
        BY <2>2, <2>3 DEF Held
    <2> HIDE DEF end
    <2>5. QED
        BY <2>1, <2>3, <2>4, NatLimits DEF Sizes
<1>3. CASE \E n \in Names : ZipEntryOpen(n)
    <2>1. PICK n \in Names : ZipEntryOpen(n)
        BY <1>3
    <2>2. /\ mode = "writing" /\ m_total_files < MAX_FILES /\ entry' = Opened(n)
          /\ UNCHANGED <<mode, m_archive_size, m_total_files>>
        BY <2>1 DEF ZipEntryOpen, EntryOpenAllowed, HandleKept
    <2>3. Opened(n).uncomp = 0 /\ Len(Opened(n).crc) = 0
        BY DEF Opened
    <2>4. QED
        BY <2>2, <2>3, NatLimits DEF Sizes
<1>4. CASE ZipEntryCloseFails \/ \E n \in Names : ZipEntryOpenFails(n)
    <2>1. /\ mode = "writing" /\ entry' = NoEntry
          /\ UNCHANGED <<mode, m_archive_size, m_total_files>>
        BY <1>4 DEF ZipEntryCloseFails, Closing, Abandoned, ZipEntryOpenFails,
                    EntryOpenAllowed, HandleKept
    <2>2. QED
        BY <2>1 DEF Sizes
<1>5. CASE \E buf \in Buffers : ZipEntryWrite(buf) \/ ZipEntryWriteFails(buf)
    BY <1>5, WriteSizes DEF ArchiveInv, ZipEntryWrite, ZipEntryWriteFails, EntryWritable
<1>6. CASE ZipEntryClose
    <2>1. /\ mode = "writing" /\ mode' = mode /\ entry # NoEntry /\ entry' = NoEntry
          /\ Finished.offset <= MAX_OFFSET /\ m_archive_size' = Finished.offset
          /\ m_total_files' = m_total_files + 1
        BY <1>6 DEF ZipEntryClose, Closing
    <2>2. m_total_files \in Nat /\ m_total_files < MAX_FILES
        BY <2>1, WorkingTypes DEF ArchiveInv, Sizes
    <2>3. QED
        BY <2>1, <2>2, NatLimits DEF Sizes
<1>7. CASE ZipClose \/ ZipCloseFails \/ Crash
    <2>1. /\ m_archive_size' = 0 /\ m_total_files' = 0
          /\ m_central_dir_offsets' = <<>> /\ entry' = NoEntry
        BY <1>7 DEF ZipClose, ZipCloseFails, Crash, Released
    <2>2. QED
        BY <2>1, NatLimits DEF Sizes
<1>8. QED
    BY <1>1, <1>2, <1>3, <1>4, <1>5, <1>6, <1>7 DEF Next, Deletes

LEMMA LimitsAlways == Spec /\ [][~Deletes]_vars => [](ArchiveInv /\ Counts /\ Sizes)
<1>1. Counts /\ [Next]_vars => Counts'
    BY CountsStep DEF Counts, vars, handle
<1>2. ArchiveInv /\ Sizes /\ [Next]_vars /\ [~Deletes]_vars => Sizes'
    BY SizesStep DEF Sizes, vars, handle
<1>3. QED
    BY <1>1, <1>2, ArchiveAlways, InitCounts, InitSizes, PTL DEF Spec

\* The entry i of the directory in memory.
LEMMA WorkingLayout ==
    ASSUME Working, NEW i \in Entries
    PROVE  LET c == Record(i)
           IN /\ file[c.ofs + 1].k = "local" /\ file[c.ofs + 2] = Name(c.name)
              /\ file[c.ofs + 1] = [k |-> "local", method |-> c.method, comp |-> c.comp,
                                    uncomp |-> c.uncomp, crc |-> c.crc]
              /\ c.ofs + 2 + c.comp =
                   IF i < m_total_files THEN Record(i + 1).ofs ELSE m_archive_size
<1>1. /\ Held(file, m_archive_size, m_central_dir, log)
      /\ Len(m_central_dir) = Len(log) /\ Len(log) \in Nat /\ m_total_files = Len(log)
    BY WorkingTypes
<1>2. \A j \in 1..Len(log) : m_central_dir_offsets[j] = j - 1
    BY DEF Working
<1>3. \A j \in 1..Len(log) : Record(j) = m_central_dir[j]
    BY <1>1, <1>2 DEF Record
<1>4. i \in 1..Len(log)
    BY <1>1 DEF Entries
<1>5. Kept(file, Record(i), log[i], m_archive_size)
    BY <1>1, <1>3, <1>4 DEF Held
<1>6. Record(i).ofs + 2 + Record(i).comp =
        IF i < m_total_files THEN Record(i + 1).ofs ELSE m_archive_size
    <2>1. m_central_dir[i].ofs + 2 + m_central_dir[i].comp =
            IF i < Len(m_central_dir) THEN m_central_dir[i + 1].ofs ELSE m_archive_size
        BY <1>1, <1>4 DEF Held, Chained
    <2>2. i < Len(log) => i + 1 \in 1..Len(log)
        BY <1>1, <1>4
    <2>3. QED
        BY <1>1, <1>3, <1>4, <2>1, <2>2
<1>7. QED
    BY <1>5, <1>6 DEF Kept

-----------------------------------------------------------------------------
(* The theorems.                                                           *)

\* What a reader that accepts the file makes of it.
LEMMA AcceptedView ==
    ASSUME ArchiveInv, Accepts(file)
    PROVE  /\ View(file) = log /\ log \in Seq(Logged)
           /\ file[LocateEnd(file)].total = Len(log)
<1>1. PICK m, dir : Held(file, m, dir, log)
    BY DEF ArchiveInv, Working
<1>2. QED
    BY <1>1, HeldView DEF Held

\* By name it gets the first entry of that name.
LEMMA ReadByName ==
    ASSUME ArchiveInv, Accepts(file), NEW n
    PROVE  LET named == {i \in DOMAIN log : log[i].name = n}
           IN ReadNamed(file, n) = IF named = {} THEN Unreadable ELSE log[Min(named)].data
<1> DEFINE total == file[LocateEnd(file)].total
           named == {i \in DOMAIN log : log[i].name = n}
           found == {i \in 1..total : Directory(file)[i].name = n}
<1>1. /\ View(file) = log /\ log \in Seq(Logged) /\ total = Len(log)
      /\ Len(log) \in Nat /\ DOMAIN log = 1..total
    BY AcceptedView
<1>2. \A i \in 1..total : log[i] = [name |-> Directory(file)[i].name,
                                    data |-> Extract(file, Directory(file)[i])]
    BY <1>1 DEF View
<1>3. \A i \in 1..total : /\ log[i].name = Directory(file)[i].name
                          /\ log[i].data = Extract(file, Directory(file)[i])
    <2> TAKE i \in 1..total
    <2> DEFINE name == Directory(file)[i].name
               data == Extract(file, Directory(file)[i])
    <2>1. log[i] = [name |-> name, data |-> data]
        BY <1>2
    <2> HIDE DEF name, data
    <2>2. log[i].name = name /\ log[i].data = data
        BY <2>1
    <2>3. QED
        BY <2>2 DEF name, data
<1>4. found = named
    BY <1>1, <1>3
<1>5. ReadNamed(file, n) =
        IF found = {} THEN Unreadable ELSE Extract(file, Directory(file)[Min(found)])
    BY DEF ReadNamed
<1>6. CASE named = {}
    BY <1>4, <1>5, <1>6
<1>7. CASE named # {}
    <2>1. named \in SUBSET Nat
        BY <1>1
    <2> HIDE DEF named, found
    <2>2. Min(named) \in named
        BY <1>7, <2>1, MinNat
    <2>3. Min(named) \in 1..total
        BY <1>1, <2>2 DEF named
    <2>4. ReadNamed(file, n) = log[Min(named)].data
        BY <1>3, <1>4, <1>5, <1>7, <2>3
    <2>5. QED
        BY <1>7, <2>4 DEF named
<1>8. QED
    BY <1>6, <1>7

\* As long as nothing is deleted, a reader accepts the file only if it has every
\* entry that was closed, with the contents it was given, in their order: whether
\* the archive was made anew or entries were appended to it, whatever the file held
\* before, and also when a write stops in the middle, a call gives up on any of
\* its error paths, the directory does not fit, or the process dies at any moment of
\* any call (zip.c, zip_open to zip_close).
THEOREM Whole == Spec /\ [][~Deletes]_vars => [](Accepts(file) => View(file) = log)
<1>1. ArchiveInv => (Accepts(file) => View(file) = log)
    BY AcceptedView
<1>2. QED
    BY <1>1, ArchiveAlways, PTL

\* Then a reader never gets contents under a name that were not closed under it.
THEOREM NeverForged == Spec /\ [][~Deletes]_vars => []NothingForged
<1>1. ArchiveInv => NothingForged
    <2> SUFFICES ASSUME ArchiveInv, Accepts(file), NEW i \in DOMAIN View(file)
                 PROVE  View(file)[i] \in written
        BY DEF NothingForged
    <2>1. View(file) = log /\ log[i] \in ToSet(log)
        BY AcceptedView DEF ToSet
    <2>2. QED
        BY <2>1 DEF ArchiveInv
<1>2. QED
    BY <1>1, ArchiveAlways, PTL

\* Then what zip_close says it finalized is accepted by a reader and reads back, by
\* its index and by its name, however often it was opened and appended to before.
THEOREM ReadsBack == Spec /\ [][~Deletes]_vars => []ClosedReadsBack
<1>1. ArchiveInv => ClosedReadsBack
    <2> SUFFICES ASSUME ArchiveInv, mode = "closed", sound
                 PROVE  /\ Accepts(file) /\ View(file) = log
                        /\ \A n \in Names :
                             LET named == {i \in DOMAIN log : log[i].name = n}
                             IN ReadNamed(file, n) =
                                  IF named = {} THEN Unreadable ELSE log[Min(named)].data
        BY DEF ClosedReadsBack
    <2>1. Accepts(file) /\ View(file) = log
        BY DEF ArchiveInv, Complete
    <2>2. QED
        BY <2>1, ReadByName
<1>2. QED
    BY <1>1, ArchiveAlways, PTL

\* Then the directory in memory says at every moment what the file holds, one entry
\* after the other, also after calls that failed, and no counter passes its limit.
THEOREM LaidOut == Spec /\ [][~Deletes]_vars => []Layout
<1>1. ArchiveInv /\ Counts /\ Sizes => TypeOK
    <2> SUFFICES ASSUME ArchiveInv, Counts, Sizes PROVE TypeOK
        OBVIOUS
    <2>1. CASE mode = "writing"
        <3>1. Working
            BY <2>1 DEF ArchiveInv
        <3>2. /\ m_archive_size \in 0..MAX_OFFSET /\ m_total_files \in 0..MAX_FILES
              /\ m_total_files = Len(log) /\ Len(log) \in Nat
            BY <3>1, WorkingTypes, NatLimits DEF Sizes
        <3>3. Len(m_central_dir_offsets) = m_total_files
            BY <3>1, <3>2 DEF Working
        <3>4. entry # NoEntry => entry.name \in Names /\ entry.status \in {"okay", "failed"}
            BY <3>1 DEF Working, EntryGrows, OpenedEntries
        <3>5. QED
            BY <2>1, <3>2, <3>3, <3>4 DEF TypeOK, Counts, Sizes
    <2>2. CASE mode = "closed"
        <3>1. Len(m_central_dir_offsets) = 0
            BY <2>2 DEF Sizes
        <3>2. QED
            BY <2>2, <3>1, NatLimits DEF TypeOK, Counts, Sizes
    <2>3. QED
        BY <2>1, <2>2 DEF ArchiveInv
<1>2. ArchiveInv /\ Counts /\ Sizes => Layout
    BY <1>1, WorkingLayout DEF ArchiveInv, Layout
<1>3. QED
    BY <1>2, LimitsAlways, PTL

\* The archive that is made anew for each transfer (srv_util.c:226-254) is at
\* every moment either refused by a reader or has every entry that was closed, with
\* the contents it was given, in their order, whatever was done to the file before:
\* here entries may also be deleted from the archives that came before.
THEOREM FreshWhole == Spec => []FreshAllOrNothing
<1>1. FreshInv => FreshAllOrNothing
    BY AcceptedView DEF FreshInv, FreshAllOrNothing
<1>2. QED
    BY <1>1, FreshAlways, PTL

\* And when zip_close says that it finalized such an archive, a reader does accept
\* it, whatever failed before, so it is not only never wrong.
THEOREM FreshReadsBack ==
    Spec => [](how = "w" /\ mode = "closed" /\ sound => Complete)
<1>1. FreshInv => (how = "w" /\ mode = "closed" /\ sound => Complete)
    BY DEF FreshInv, ArchiveInv
<1>2. QED
    BY <1>1, FreshAlways, PTL
====
