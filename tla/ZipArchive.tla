---- MODULE ZipArchive ----
(***************************************************************************)
(* The archive file of zip.c and the ZIP half of miniz.h: what writing,    *)
(* appending, deleting and closing do to the bytes on the disk, and what a *)
(* reader makes of them, also when writes fail or the process dies.        *)
(*                                                                         *)
(* The file is a sequence of cells: a header, a name, a directory record   *)
(* or a unit of contents is one cell, and an offset counts cells.  A write *)
(* that fails leaves a prefix of its cells and perhaps half a cell, which  *)
(* no signature check accepts.  A CRC is the contents themselves: that two *)
(* contents have one CRC is left out.  Compressed contents are units that  *)
(* only the decompressor understands, with an end mark.                    *)
(***************************************************************************)
EXTENDS Integers, Sequences, SequencesExt, FiniteSets, FiniteSetsExt

CONSTANTS
  Names,        \* names of entries
  Buffers,      \* what a call of zip_entry_write is given: sequences of units
  Levels,       \* 0 stores, another level compresses
  MaxData,      \* units per entry
  MAX_FILES,    \* 0xFFFF: entries a directory can count
  MAX_OFFSET,   \* 0xFFFFFFFF: an offset of 32 bits
  MaxOpens,     \* how often the archive is opened
  MaxFaults     \* how many calls fail

\* What entries hold.
Units == UNION {ToSet(buf) : buf \in Buffers}

ASSUME ArchiveAssumption ==
  /\ {MaxData, MAX_FILES, MAX_OFFSET, MaxOpens, MaxFaults} \subseteq Nat
  /\ Levels \subseteq Nat
  /\ Buffers \subseteq Seq(Units)

VARIABLES
  file,                  \* the cells on the disk
  how,                   \* the mode of the last zip_open: "w", "a" or "d"
  mode,                  \* m_zip_mode; "closed": no handle
  level,                 \* zip->level
  m_archive_size, m_total_files,
  m_central_dir, m_central_dir_offsets,
  entry,                 \* zip->entry while its name is set, else NoEntry
  log,                   \* what the archive should hold (history)
  written,               \* every entry closed in this file without error (history)
  whole,                 \* the file was new, or sound, when opened (history)
  sound,                 \* the last zip_close finalized the archive (history)
  opens, faults

handle == <<mode, level, m_archive_size, m_total_files, m_central_dir,
            m_central_dir_offsets, entry>>
vars == <<file, how, handle, log, written, whole, sound, opens, faults>>

-----------------------------------------------------------------------------
(* Cells *)

Zero == [k |-> "zero"]
Torn == [k |-> "torn"]
Name(n) == [k |-> "name", n |-> n]
Stored(u) == [k |-> "data", u |-> u]
Deflated(u) == [k |-> "deflated", u |-> u]
FinalBlock == [k |-> "final"]

LocalHeader(e) ==
  [k |-> "local", method |-> e.method, comp |-> e.comp, uncomp |-> e.uncomp, crc |-> e.crc]
CentralHeader(e) ==
  [k |-> "central", name |-> e.name, ofs |-> e.header_offset, method |-> e.method,
   comp |-> e.comp, uncomp |-> e.uncomp, crc |-> e.crc]
EndOfCentralDir(total, size, ofs) ==
  [k |-> "end", total |-> total, size |-> size, ofs |-> ofs]

\* m_pWrite: fseek and fwrite.
Put(f, ofs, cells) ==
  [i \in 1..Max({Len(f), ofs + Len(cells)}) |->
     IF i \in ofs + 1..ofs + Len(cells) THEN cells[i - ofs] ELSE f[i]]

\* What a write of cells that fails may leave to be written.
Partly(cells) ==
  UNION {{SubSeq(cells, 1, n), Append(SubSeq(cells, 1, n), Torn)} : n \in 0..Len(cells) - 1}

\* A write that succeeds, or one that fails and counts.
Writes(ofs, cells) ==
  file' = Put(file, ofs, cells) /\ UNCHANGED faults
FailsToWrite(ofs, cells) ==
  /\ faults < MaxFaults /\ faults' = faults + 1
  /\ \E part \in Partly(cells) : file' = Put(file, ofs, part)

-----------------------------------------------------------------------------
(* The reader *)

\* mz_zip_reader_locate_header_sig scans the file from its end; 0: not found.
LocateEnd(f) == Max({0} \cup {i \in DOMAIN f : f[i].k = "end"})

Directory(f) == LET end == f[LocateEnd(f)] IN SubSeq(f, end.ofs + 1, end.ofs + end.size)

\* mz_zip_reader_read_central_dir finds nothing wrong.  (It compares the sizes
\* of a stored entry only if the 32 bits it reads as method and time are zero.
\* No entry is written with sizes that differ, so nothing hangs on it.)
GoodRecord(f, c) ==
  /\ c.k = "central"
  /\ c.method = 0 => c.comp = c.uncomp
  /\ c.uncomp > 0 => c.comp > 0
  /\ c.ofs + 1 + c.comp <= Len(f)
Accepts(f) ==
  /\ LocateEnd(f) > 0
  /\ LET end == f[LocateEnd(f)]
     IN /\ end.size >= end.total
        /\ end.ofs + end.size <= Len(f)
        /\ \A i \in 1..end.total : GoodRecord(f, Directory(f)[i])

\* What a reader that fails returns; no contents hold a torn cell.
Unreadable == <<Torn>>

\* tinfl_decompress of the contents: up to the final block, or no result.
Inflated(cells) ==
  IF ~\E i \in DOMAIN cells : cells[i].k = "final" THEN Unreadable
  ELSE LET n == Min({i \in DOMAIN cells : cells[i].k = "final"}) - 1
       IN IF \A i \in 1..n : cells[i].k = "deflated"
          THEN [i \in 1..n |-> cells[i].u] ELSE Unreadable
AsStored(cells) ==
  IF \A i \in DOMAIN cells : cells[i].k = "data"
  THEN [i \in DOMAIN cells |-> cells[i].u] ELSE Unreadable

\* A reader that does not compare the CRC.
Bug_NoCrc(f, c) ==
  LET begin == c.ofs + 2
      data == SubSeq(f, begin + 1, begin + c.comp)
      out == IF c.method = 0 THEN AsStored(data) ELSE Inflated(data)
  IN IF c.comp = 0 THEN <<>>
     ELSE IF f[c.ofs + 1].k # "local" \/ begin + c.comp > Len(f) THEN Unreadable
     ELSE IF out = Unreadable \/ Len(out) # c.uncomp THEN Unreadable
     ELSE out

\* mz_zip_reader_extract_to_callback for the directory record c.
Extract(f, c) ==
  LET begin == c.ofs + 2
      data == SubSeq(f, begin + 1, begin + c.comp)
      out == IF c.method = 0 THEN AsStored(data) ELSE Inflated(data)
  IN IF c.comp = 0 THEN <<>>
     ELSE IF f[c.ofs + 1].k # "local" \/ begin + c.comp > Len(f) THEN Unreadable
     ELSE IF out = Unreadable \/ Len(out) # c.uncomp \/ out # c.crc THEN Unreadable
     ELSE out

\* What zip_open for reading, then reading every entry by its index, returns.
View(f) ==
  [i \in 1..f[LocateEnd(f)].total |->
     [name |-> Directory(f)[i].name, data |-> Extract(f, Directory(f)[i])]]

\* mz_zip_reader_locate_file and zip_entry_read: the first entry of that name.
ReadNamed(f, n) ==
  LET found == {i \in 1..f[LocateEnd(f)].total : Directory(f)[i].name = n}
  IN IF found = {} THEN Unreadable ELSE Extract(f, Directory(f)[Min(found)])

-----------------------------------------------------------------------------
(* Opening *)

NoEntry == [name |-> "none"]

Opens(m) ==
  /\ mode = "closed" /\ opens < MaxOpens
  /\ opens' = opens + 1
  /\ how' = m
  /\ level' \in Levels
  /\ mode' = "writing"
  /\ entry' = NoEntry
  /\ whole' = (m = "w" \/ sound)
  /\ sound' = FALSE
  /\ UNCHANGED faults

\* The file opened for writing and not cut.
Bug_OpenedOver ==
  /\ Opens("w")
  /\ m_archive_size' = 0 /\ m_total_files' = 0
  /\ m_central_dir' = <<>> /\ m_central_dir_offsets' = <<>>
  /\ log' = <<>> /\ written' = {}
  /\ UNCHANGED file

\* zip_open with 'w': fopen cuts the file to nothing.
ZipOpenNew ==
  /\ Opens("w")
  /\ file' = <<>>
  /\ m_archive_size' = 0 /\ m_total_files' = 0
  /\ m_central_dir' = <<>> /\ m_central_dir_offsets' = <<>>
  /\ log' = <<>> /\ written' = {}

\* zip_open with 'a' or 'd': the directory is read, and writing starts at its
\* place in the file.
ZipOpenExisting(m) ==
  /\ Opens(m)
  /\ Accepts(file)
  /\ LET end == file[LocateEnd(file)]
     IN /\ end.total < MAX_FILES /\ Len(file) + 2 <= MAX_OFFSET
        /\ m_archive_size' = end.ofs
        /\ m_total_files' = end.total
        /\ m_central_dir' = Directory(file)
        /\ m_central_dir_offsets' = [i \in 1..end.total |-> i - 1]
  /\ log' = View(file)
  /\ UNCHANGED <<file, written>>

-----------------------------------------------------------------------------
(* Writing an entry *)

HandleKept == UNCHANGED <<how, mode, level, m_archive_size, m_total_files,
                          m_central_dir, m_central_dir_offsets, log, written, whole, sound, opens>>

\* zip_entry_open: room for the local header, and the name.
Opened(n) ==
  [name |-> n, header_offset |-> m_archive_size, offset |-> m_archive_size + 2,
   method |-> 0, comp |-> 0, uncomp |-> 0, crc |-> <<>>,
   pending |-> <<>>, status |-> "okay"]
EntryOpenAllowed ==
  /\ mode = "writing" /\ how \in {"w", "a"}
  /\ m_total_files < MAX_FILES
  /\ m_archive_size + 3 <= MAX_OFFSET
ZipEntryOpen(n) ==
  /\ EntryOpenAllowed
  /\ Writes(m_archive_size, <<Zero, Name(n)>>)
  /\ entry' = Opened(n)
  /\ HandleKept
ZipEntryOpenFails(n) ==
  /\ EntryOpenAllowed
  /\ FailsToWrite(m_archive_size, <<Zero, Name(n)>>)
  /\ entry' = NoEntry
  /\ HandleKept

\* mz_zip_writer_add_put_buf_callback moves the entry's end on.
Advanced(e, cells) == [e EXCEPT !.offset = @ + Len(cells), !.comp = @ + Len(cells)]

AllStored(units) == [i \in DOMAIN units |-> Stored(units[i])]
Compressed(units) == [i \in DOMAIN units |-> Deflated(units[i])]

\* zip_entry_write: the size and the CRC count the units before they are
\* written.  The compressor keeps units back as long as it likes.
Counted(buf) == [entry EXCEPT !.uncomp = @ + Len(buf), !.crc = @ \o buf]
EntryWritable(buf) ==
  /\ mode = "writing" /\ entry # NoEntry /\ entry.status = "okay"
  /\ entry.uncomp + Len(buf) <= MaxData
ZipEntryWrite(buf) ==
  /\ EntryWritable(buf)
  /\ \/ /\ level = 0
        /\ Writes(entry.offset, AllStored(buf))
        /\ entry' = Advanced(Counted(buf), AllStored(buf))
     \/ /\ level # 0
        /\ entry' = [Counted(buf) EXCEPT !.pending = @ \o buf]
        /\ UNCHANGED <<file, faults>>
     \/ /\ level # 0
        /\ LET out == Compressed(entry.pending \o buf)
           IN /\ Writes(entry.offset, out)
              /\ entry' = [Advanced(Counted(buf), out) EXCEPT !.pending = <<>>]
  /\ HandleKept
ZipEntryWriteFails(buf) ==
  /\ EntryWritable(buf)
  /\ entry' = [Counted(buf) EXCEPT !.status = "failed"]
  /\ FailsToWrite(entry.offset,
       IF level = 0 THEN AllStored(buf) ELSE Compressed(entry.pending \o buf))
  /\ HandleKept

-----------------------------------------------------------------------------
(* Closing an entry *)

\* TDEFL_FINISH, at a level that compresses.
Rest == IF level = 0 THEN <<>> ELSE Append(Compressed(entry.pending), FinalBlock)
Finished == [Advanced(entry, Rest) EXCEPT !.method = IF level = 0 THEN 0 ELSE 8]

\* After a write of stored data failed, callers give the entry up; a compressor
\* that failed refuses to finish.
Closing == mode = "writing" /\ entry # NoEntry /\ (level = 0 => entry.status = "okay")

Abandoned == entry' = NoEntry /\ HandleKept

\* The header made before the compressor has finished.
Bug_HeaderFirst ==
  /\ Closing /\ entry.status = "okay" /\ Finished.offset <= MAX_OFFSET
  /\ file' = Put(Put(file, entry.offset, Rest), entry.header_offset, <<LocalHeader(entry)>>)
  /\ m_central_dir_offsets' = Append(m_central_dir_offsets, Len(m_central_dir))
  /\ m_central_dir' = Append(m_central_dir, CentralHeader(Finished))
  /\ m_total_files' = m_total_files + 1
  /\ m_archive_size' = Finished.offset
  /\ entry' = NoEntry
  /\ log' = Append(log, [name |-> entry.name, data |-> entry.crc])
  /\ written' = written \cup {[name |-> entry.name, data |-> entry.crc]}
  /\ UNCHANGED <<how, mode, level, whole, sound, opens, faults>>
ZipEntryClose ==
  /\ Closing /\ entry.status = "okay" /\ Finished.offset <= MAX_OFFSET
  /\ file' = Put(Put(file, entry.offset, Rest), entry.header_offset, <<LocalHeader(Finished)>>)
  /\ m_central_dir_offsets' = Append(m_central_dir_offsets, Len(m_central_dir))
  /\ m_central_dir' = Append(m_central_dir, CentralHeader(Finished))
  /\ m_total_files' = m_total_files + 1
  /\ m_archive_size' = Finished.offset
  /\ entry' = NoEntry
  /\ log' = Append(log, [name |-> entry.name, data |-> entry.crc])
  /\ written' = written \cup {[name |-> entry.name, data |-> entry.crc]}
  /\ UNCHANGED <<how, mode, level, whole, sound, opens, faults>>

\* Its error paths, in the order of the code: the compressor, the size, the
\* header, and memory for the directory.
ZipEntryCloseFails ==
  /\ Closing
  /\ \/ entry.status # "okay" /\ UNCHANGED <<file, faults>>
     \/ entry.status = "okay" /\ Rest # <<>> /\ FailsToWrite(entry.offset, Rest)
     \/ /\ entry.status = "okay" /\ Finished.offset > MAX_OFFSET
        /\ Writes(entry.offset, Rest)
     \/ /\ entry.status = "okay" /\ Finished.offset <= MAX_OFFSET
        /\ faults < MaxFaults /\ faults' = faults + 1
        /\ \E header \in {LocalHeader(Finished), Torn, Zero} :
             file' = Put(Put(file, entry.offset, Rest), entry.header_offset, <<header>>)
  /\ Abandoned

-----------------------------------------------------------------------------
(* Deleting entries *)

Record(i) == m_central_dir[m_central_dir_offsets[i] + 1]
Entries == 1..m_total_files

\* zip_entry_mark: what is kept lies before the first deleted entry.
Marks(names) ==
  LET deleted == {i \in Entries : Record(i).name \in names}
  IN [i \in Entries |->
        IF i \in deleted THEN "delete"
        ELSE IF \E d \in deleted : Record(d).ofs < Record(i).ofs THEN "move" ELSE "keep"]

\* zip_entry_finalize, which sorts the offsets: from a local header to the next one, or to the directory.
EntryLength(i) ==
  Min({m_archive_size} \cup {Record(j).ofs : j \in {x \in Entries : Record(x).ofs > Record(i).ofs}})
    - Record(i).ofs
Lengths(first, end) == MapThenSumSet(EntryLength, first..end - 1)

\* The first entry from i on that is not marked m.
Past(marks, i, m) == Min({m_total_files + 1} \cup {j \in Entries : j >= i /\ marks[j] # m})

\* zip_files_move; nothing is left to say when the file ends too early.
Moved(f, to, from, n) ==
  [x \in DOMAIN f |-> IF x \in to + 1..to + n THEN f[x + from - to] ELSE f[x]]

\* One turn of the loop of zip_entries_delete_mark: entries that stay, entries
\* that go, entries that move, and the move.  The length to move is never reset.
Turn(marks, s) ==
  LET gone  == Past(marks, s.i, "keep")
      moved == Past(marks, gone, "delete")
      next  == Past(marks, moved, "move")
      to    == s.to + Lengths(s.i, gone)
      from  == (IF gone > s.i THEN to ELSE s.from) + Lengths(gone, moved)
      cut   == s.deleted + Lengths(gone, moved)
      len   == s.len + Lengths(moved, next)
      ok    == from + len <= Len(s.file)
  IN [i |-> next, to |-> to + len, from |-> from + len, deleted |-> cut, len |-> len, ok |-> ok,
      file |-> IF ok THEN Moved(s.file, to, from, len) ELSE s.file,
      dir |-> [p \in DOMAIN s.dir |->
                 IF \E j \in moved..next - 1 : m_central_dir_offsets[j] + 1 = p
                 THEN [s.dir[p] EXCEPT !.ofs = @ - cut] ELSE s.dir[p]]]
\* The loop: each turn goes on by one entry or more.
DeleteMarked(marks) ==
  LET after[n \in 0..m_total_files] ==
        IF n = 0
        THEN [i |-> 1, to |-> 0, from |-> 0, deleted |-> 0, len |-> 0, ok |-> TRUE,
              file |-> file, dir |-> m_central_dir]
        ELSE LET s == after[n - 1]
             IN IF ~s.ok \/ s.i > m_total_files THEN s ELSE Turn(marks, s)
  IN after[m_total_files]

\* The groups of neighbours that are deleted, from left to right, each as its
\* first entry and the one after its last.
Groups(marks) ==
  SetToSortSeq(
    {g \in Entries \X (2..m_total_files + 1) :
       /\ g[1] < g[2] /\ \A i \in g[1]..g[2] - 1 : marks[i] = "delete"
       /\ g[1] = 1 \/ marks[g[1] - 1] # "delete"
       /\ g[2] = m_total_files + 1 \/ marks[g[2]] # "delete"},
    LAMBDA x, y : x[1] < y[1])

\* zip_central_dir_move: the records of a group leave the directory.
DirectoryMove(s, g) ==
  LET deleted == s.offs[g[1]]
      next    == IF g[2] > m_total_files THEN Len(s.dir) ELSE s.offs[g[2]]
      size    == IF g[2] > m_total_files THEN 0 ELSE next - deleted
  IN [dir  |-> SubSeq(s.dir, 1, deleted) \o SubSeq(s.dir, next + 1, Len(s.dir)),
      offs |-> [i \in Entries |-> IF i >= g[2] THEN s.offs[i] - size ELSE s.offs[i]]]
\* The second loop of zip_central_dir_delete: their offsets leave the array.
OffsetsMove(offs, g) ==
  [i \in Entries |->
     IF i \in g[1]..m_total_files + g[1] - g[2] THEN offs[i + g[2] - g[1]] ELSE offs[i]]

ZipEntriesDelete(names) ==
  LET marks == Marks(names)
      done  == DeleteMarked(marks)
      left  == FoldLeft(DirectoryMove, [dir |-> done.dir, offs |-> m_central_dir_offsets],
                        Groups(marks))
      total == Cardinality({i \in Entries : marks[i] # "delete"})
  IN /\ mode = "writing" /\ how = "d" /\ m_total_files > 0
     /\ done.ok
     /\ file' = done.file
     /\ m_archive_size' = m_archive_size - done.deleted
     /\ m_total_files' = total
     /\ m_central_dir' = left.dir
     /\ m_central_dir_offsets' =
          SubSeq(FoldLeft(OffsetsMove, left.offs, Groups(marks)), 1, total)
     /\ log' = SelectSeq(log, LAMBDA e : e.name \notin names)
     /\ UNCHANGED <<how, mode, level, entry, written, whole, sound, opens, faults>>

\* The file ends before what is to move: it is closed under the handle, and what
\* a later call does with it is undefined.
ZipEntriesDeleteFails(names) ==
  LET done == DeleteMarked(Marks(names))
  IN /\ mode = "writing" /\ how = "d" /\ m_total_files > 0
     /\ ~done.ok
     /\ file' = done.file
     /\ mode' = "undefined"
     /\ UNCHANGED <<how, level, m_archive_size, m_total_files, m_central_dir,
                    m_central_dir_offsets, entry, log, written, whole, sound, opens, faults>>

-----------------------------------------------------------------------------
(* Closing the archive *)

DirectoryOfs == IF m_total_files > 0 THEN m_archive_size ELSE 0
DirectorySize == IF m_total_files > 0 THEN Len(m_central_dir) ELSE 0
LastCells ==
  (IF m_total_files > 0 THEN m_central_dir ELSE <<>>)
    \o <<EndOfCentralDir(m_total_files, DirectorySize, DirectoryOfs)>>

Fits == m_archive_size + Len(m_central_dir) + 1 <= MAX_OFFSET

Bug_NotCut(f) == f
\* zip_archive_truncate, with the size after the directory.
Truncated(f) == SubSeq(f, 1, m_archive_size + Len(LastCells))

Released ==
  /\ mode' = "closed"
  /\ entry' = NoEntry
  /\ m_archive_size' = 0 /\ m_total_files' = 0
  /\ m_central_dir' = <<>> /\ m_central_dir_offsets' = <<>>
  /\ level' = 0
  /\ UNCHANGED <<how, log, written, whole, opens>>

\* zip_close: finalize, cut, end.
ZipClose ==
  /\ mode = "writing" /\ Fits
  /\ file' = Truncated(Put(file, m_archive_size, LastCells))
  /\ sound' = TRUE
  /\ Released
  /\ UNCHANGED faults
\* A write or fflush fails, or the directory does not fit: the file is not cut.
ZipCloseFails ==
  /\ mode = "writing"
  /\ \/ Fits /\ FailsToWrite(m_archive_size, LastCells)
     \/ /\ Fits /\ faults < MaxFaults /\ faults' = faults + 1
        /\ file' = Put(file, m_archive_size, LastCells)
     \/ ~Fits /\ UNCHANGED <<file, faults>>
  /\ sound' = FALSE
  /\ Released

\* The process dies.
Crash ==
  /\ mode \in {"writing", "undefined"}
  /\ sound' = FALSE
  /\ Released
  /\ UNCHANGED <<file, faults>>

-----------------------------------------------------------------------------
Init ==
  /\ file = <<>> /\ how = "w" /\ mode = "closed" /\ level = 0
  /\ m_archive_size = 0 /\ m_total_files = 0
  /\ m_central_dir = <<>> /\ m_central_dir_offsets = <<>>
  /\ entry = NoEntry
  /\ log = <<>> /\ written = {} /\ whole = TRUE /\ sound = FALSE
  /\ opens = 0 /\ faults = 0

Next ==
  \/ ZipOpenNew
  \/ \E m \in {"a", "d"} : ZipOpenExisting(m)
  \/ \E n \in Names : ZipEntryOpen(n) \/ ZipEntryOpenFails(n)
  \/ \E buf \in Buffers : ZipEntryWrite(buf) \/ ZipEntryWriteFails(buf)
  \/ ZipEntryClose \/ ZipEntryCloseFails
  \/ \E names \in SUBSET Names : ZipEntriesDelete(names) \/ ZipEntriesDeleteFails(names)
  \/ ZipClose \/ ZipCloseFails
  \/ Crash

Spec == Init /\ [][Next]_vars

-----------------------------------------------------------------------------
(* Properties *)

TypeOK ==
  /\ how \in {"w", "a", "d"}
  /\ mode \in {"closed", "writing", "undefined"}
  /\ level \in Levels \cup {0}
  /\ m_archive_size \in 0..MAX_OFFSET
  /\ m_total_files \in 0..MAX_FILES
  /\ Len(m_central_dir_offsets) = m_total_files
  /\ entry # NoEntry =>
       /\ entry.name \in Names
       /\ entry.uncomp = Len(entry.crc) /\ entry.uncomp <= MaxData
       /\ entry.status \in {"okay", "failed"}
  /\ opens \in 0..MaxOpens /\ faults \in 0..MaxFaults
  /\ {whole, sound} \subseteq BOOLEAN

\* An archive that zip_close finalized reads back as what was put in and not
\* deleted, in order, however many entries failed on the way and whatever the
\* file held before; and by name one gets the first entry of the name.
ClosedReadsBack ==
  mode = "closed" /\ sound =>
    /\ Accepts(file)
    /\ View(file) = log
    /\ \A n \in Names :
         LET named == {i \in DOMAIN log : log[i].name = n}
         IN ReadNamed(file, n) = IF named = {} THEN Unreadable ELSE log[Min(named)].data

\* At no moment, also after a crash or a failed zip_close, does a reader get
\* contents under a name that were never written and closed under it.
NothingForged ==
  Accepts(file) => \A i \in DOMAIN View(file) :
                     View(file)[i].data # Unreadable => View(file)[i] \in written

\* The archive of the server, which is made anew each time, is at every moment
\* either refused by a reader or complete.
FreshAllOrNothing ==
  how = "w" /\ Accepts(file) => View(file) = log

\* While an archive is open that was new or finalized before, its directory in
\* memory says what the file holds, whatever failed since: entries one after the
\* other, each with its header and its name.
Layout ==
  /\ TypeOK
  /\ mode = "writing" /\ whole =>
       \A i \in Entries :
         LET c == Record(i)
         IN /\ file[c.ofs + 1].k = "local" /\ file[c.ofs + 2] = Name(c.name)
            /\ file[c.ofs + 1] = [k |-> "local", method |-> c.method, comp |-> c.comp,
                                  uncomp |-> c.uncomp, crc |-> c.crc]
            /\ c.ofs + 2 + c.comp =
                 IF i < m_total_files THEN Record(i + 1).ofs ELSE m_archive_size
====
