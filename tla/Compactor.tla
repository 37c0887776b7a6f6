----------------------------- MODULE Compactor -----------------------------
(***************************************************************************)
(* The offline binlog compactor (src/tool/fdht_compress.c) and a peer's   *)
(* sync reader that reads the same segments.  main picks the closed       *)
(* segments to compact ("all", "auto" from binlog.compressed.index, or    *)
(* one index); compress_binlog_file counts the records, folds them into a *)
(* key index where a delete or an expired record removes the key and a    *)
(* set replaces it, writes the surviving records to binlog.NNN.new in     *)
(* hash-table order and renames that file over the segment.               *)
(*                                                                         *)
(* A record is [id, key, op, exp, len]: exp is "expired at the time the   *)
(* tool runs", len its size in units; offsets count units, as the         *)
(* reader's binlog_offset counts bytes.                                   *)
(***************************************************************************)
EXTENDS Integers, Sequences, SequencesExt, FiniteSets

CONSTANTS
    Keys,       \* keys, model values
    Shapes,     \* records a segment may hold: [key, op, exp, len]
    MaxRecs,    \* bound: records per closed segment
    CurRecs,    \* bound: records of the segment being written
    CurIndex,   \* g_binlog_index: segments 0..CurIndex-1 are closed
    Modes,      \* command lines the operator may give: "all", "auto", "single"
    MaxRuns,    \* bound: times the tool is started
    IoFails,    \* TRUE: read, write, open and rename may fail
    Crashes,    \* TRUE: the tool may be killed at any step
    MarkSegs    \* segments the peer's mark may be in when the model starts

ASSUME /\ CurIndex \in Nat /\ MaxRecs \in Nat \ {0} /\ CurRecs \in Nat
       /\ Modes \subseteq {"all", "auto", "single"} /\ MaxRuns \in Nat
       /\ IoFails \in BOOLEAN /\ Crashes \in BOOLEAN /\ MarkSegs \subseteq 0..CurIndex

VARIABLES
    orig,    \* the segments as the server wrote them (history)
    files,   \* files[s]: binlog.s on disk
    newf,    \* binlog.NNN.new being written
    cidx,    \* binlog.compressed.index: Absent, Truncated (0 bytes) or a number
    tool,    \* the tool process: pc, mode, cur, last, rows, val, runs
    mark,    \* the peer's mark file: [s, o]
    rd,      \* the peer's BinLogReader: st, s, o and the file it has open
    store    \* the peer's hash table: key -> id of its live record, or NoRec

vars == <<orig, files, newf, cidx, tool, mark, rd, store>>

Segs == 0..CurIndex
NoRec == <<-1, -1>>
Absent == -1     \* binlog.compressed.index does not exist
Truncated == -2  \* it exists and is empty

\* The records of segment s built from a sequence of shapes.
Stamp(s, sh) == [i \in DOMAIN sh |-> [key |-> sh[i].key, op |-> sh[i].op,
                                      exp |-> sh[i].exp, len |-> sh[i].len,
                                      id |-> <<s, i>>]]

\* Offset of the i-th record of f, and the size of f.
Off(f, i) == FoldLeft(LAMBDA a, r : a + r.len, 0, SubSeq(f, 1, i - 1))
Size(f) == Off(f, Len(f) + 1)

-----------------------------------------------------------------------------
(* The index pass of compress_binlog_file and its reference. *)

\* Mutant: a delete record does not remove the key from the index.
IndexRecordNoDelete(idx, r) ==
    IF r.exp THEN [idx EXCEPT ![r.key] = NoRec]
    ELSE IF r.op = "del" THEN idx
    ELSE [idx EXCEPT ![r.key] = r]

\* One record of the second pass: an expired record or a delete is
\* hash_delete'd, any other set is hash_insert'ed over the key.
IndexRecord(idx, r) ==
    IF r.exp \/ r.op = "del" THEN [idx EXCEPT ![r.key] = NoRec]
    ELSE [idx EXCEPT ![r.key] = r]

BuildIndex(f) == FoldLeft(IndexRecord, [k \in Keys |-> NoRec], f)
IndexRows(f) == {BuildIndex(f)[k] : k \in Keys} \ {NoRec}

\* What the compaction of f should keep: the live sets no later record of
\* f touches.
LatestLive(f) ==
    {f[i] : i \in {i \in 1..Len(f) : /\ f[i].op = "set" /\ ~f[i].exp
                                    /\ \A j \in i + 1..Len(f) : f[j].key # f[i].key}}

\* f is a compaction of the segment o: its latest live records, each once,
\* in any order.
IsCompaction(f, o) == Len(f) = Cardinality(ToSet(f)) /\ ToSet(f) = LatestLive(o)

\* The peer applies a record to its hash table; an expired value reads as
\* absent.
Apply(st, r) == [st EXCEPT ![r.key] = IF r.op = "set" /\ ~r.exp THEN r.id ELSE NoRec]
Replay(st, f) == FoldLeft(Apply, st, f)
Empty == [k \in Keys |-> NoRec]

-----------------------------------------------------------------------------
(* Initial state: closed segments of 1..MaxRecs records, a current segment *)
(* of at most CurRecs, no compressed index yet, the tool not running, and  *)
(* a peer whose mark is at a record boundary and whose table holds what it *)
(* applied before it.                                                      *)

Recs == UNION {ToSet(orig[s]) : s \in Segs}

\* The records of the segments before s, in the order the server wrote them.
Before(s) == FoldLeft(\o, <<>>, [i \in 1..s |-> orig[i - 1]])
History == Before(CurIndex + 1)

Init ==
    /\ \E sh \in [Segs -> UNION {[1..n -> Shapes] : n \in 0..MaxRecs}] :
          /\ \A s \in Segs : IF s < CurIndex THEN Len(sh[s]) >= 1 ELSE Len(sh[s]) <= CurRecs
          /\ orig = [s \in Segs |-> Stamp(s, sh[s])]
    /\ files = orig
    /\ newf = <<>>
    /\ cidx = Absent
    /\ tool = [pc |-> "idle", mode |-> "none", cur |-> 0, last |-> -1,
               rows |-> {}, val |-> 0, runs |-> 0]
    /\ \E s \in MarkSegs : \E k \in 0..Len(orig[s]) :
          /\ mark = [s |-> s, o |-> Off(orig[s], k + 1)]
          /\ store = Replay(Empty, Before(s) \o SubSeq(orig[s], 1, k))
    /\ rd = [st |-> "closed", s |-> 0, o |-> 0, f |-> <<>>, dirty |-> FALSE]

-----------------------------------------------------------------------------
(* The tool: main, get_binlog_compressed_index,                            *)
(* write_to_binlog_compressed_index and compress_binlog_file.  tool.pc is  *)
(* the step it is about to take; "idle" is "not running".                  *)

Exit(t) == [t EXCEPT !.pc = "idle", !.rows = {}]
Compress(t, i) == [t EXCEPT !.pc = "compress", !.cur = i]

\* Mutant: auto mode records the whole range as done after its first segment.
CompressedUpToEnd(t, s) == t.last + 1

\* The index auto mode writes after compressing segment s.
CompressedUpTo(t, s) == s + 1

\* The end of one iteration of main's loop, compress_binlog_file having
\* returned 0.
AfterSegment(t) ==
    CASE t.mode = "auto"   -> [t EXCEPT !.pc = "idx_open", !.val = CompressedUpTo(t, t.cur)]
      [] t.cur < t.last    -> Compress(t, t.cur + 1)
      [] OTHER             -> Exit(t)

\* get_binlog_compressed_index and main's range check for auto mode: no
\* index file means write 0 and start at 0; an empty file is an error; an
\* index past the last closed segment means nothing to do.
AutoStart(t) ==
    CASE cidx = Absent                     -> [t EXCEPT !.pc = "idx_open", !.val = 0]
      [] cidx = Truncated \/ cidx > t.last -> t
      [] OTHER                             -> Compress(t, cidx)

\* get_current_binlog_index: whether open() and read() of the server's
\* binlog.index succeed; g_binlog_index is then CurIndex.
BinlogIndexRead == IF IoFails THEN BOOLEAN ELSE {TRUE}

\* main: the operator starts the tool with mode m.  It first reads
\* g_binlog_index and exits if that fails.
Launch(m) ==
    /\ tool.pc = "idle" /\ tool.runs < MaxRuns
    /\ \E ok \in BinlogIndexRead :
       LET t == [tool EXCEPT !.mode = m, !.last = CurIndex - 1, !.runs = @ + 1] IN
       \/ ~ok /\ tool' = t
       \/ /\ ok
          /\ CASE m = "all"  -> tool' = IF CurIndex = 0 THEN t ELSE Compress(t, 0)
               [] m = "auto" -> tool' = AutoStart(t)
               [] OTHER      -> \E i \in 0..CurIndex - 1 : tool' = Compress([t EXCEPT !.last = i], i)
    /\ UNCHANGED <<orig, files, newf, cidx, mark, rd, store>>

\* write_to_binlog_compressed_index: open with O_TRUNC ...
IdxOpen ==
    /\ tool.pc = "idx_open"
    /\ \/ cidx' = Truncated /\ tool' = [tool EXCEPT !.pc = "idx_write"]
       \/ IoFails /\ tool' = Exit(tool) /\ UNCHANGED cidx
    /\ UNCHANGED <<orig, files, newf, mark, rd, store>>

\* ... then write the number; auto mode goes on with that segment.
IdxWrite ==
    /\ tool.pc = "idx_write"
    /\ \/ /\ cidx' = tool.val
          /\ tool' = IF tool.val <= tool.last THEN Compress(tool, tool.val) ELSE Exit(tool)
       \/ IoFails /\ tool' = Exit(tool) /\ UNCHANGED cidx
    /\ UNCHANGED <<orig, files, newf, mark, rd, store>>

\* compress_binlog_file up to hash_walk: both read passes, the key index
\* and the O_TRUNC open of binlog.NNN.new.  An empty segment is ENOENT.
CompressFile ==
    /\ tool.pc = "compress"
    /\ \/ /\ Len(files[tool.cur]) > 0
          /\ tool' = [tool EXCEPT !.pc = "walk", !.rows = IndexRows(files[tool.cur])]
          /\ newf' = <<>>
       \/ /\ Len(files[tool.cur]) = 0 \/ IoFails
          /\ tool' = Exit(tool) /\ UNCHANGED newf
    /\ UNCHANGED <<orig, files, cidx, mark, rd, store>>

\* Mutant: the walk writes a row but does not move past it.
WalkRowNoAdvance ==
    /\ tool.pc = "walk"
    /\ \E r \in tool.rows : newf' = Append(newf, r) /\ UNCHANGED tool
    /\ UNCHANGED <<orig, files, cidx, mark, rd, store>>

\* compress_write_to_binlog for one hash entry, in hash-table order: lseek,
\* read and write of the record, each of which may fail.
WalkRow ==
    /\ tool.pc = "walk"
    /\ \E r \in tool.rows :
          \/ newf' = Append(newf, r) /\ tool' = [tool EXCEPT !.rows = @ \ {r}]
          \/ IoFails /\ tool' = Exit(tool) /\ UNCHANGED newf
    /\ UNCHANGED <<orig, files, cidx, mark, rd, store>>

\* The walk is over: rename binlog.NNN.new over binlog.NNN.
Rename ==
    /\ tool.pc = "walk" /\ tool.rows = {}
    /\ \/ /\ files' = [files EXCEPT ![tool.cur] = newf] /\ newf' = <<>>
          /\ tool' = AfterSegment(tool)
       \/ IoFails /\ tool' = Exit(tool) /\ UNCHANGED <<files, newf>>
    /\ UNCHANGED <<orig, cidx, mark, rd, store>>

\* The tool is killed between two of its steps.
CrashTool ==
    /\ Crashes /\ tool.pc # "idle"
    /\ tool' = Exit(tool)
    /\ UNCHANGED <<orig, files, newf, cidx, mark, rd, store>>

-----------------------------------------------------------------------------
(* The peer's sync thread (src/server/sync.c) reading the same segments.   *)
(* An open descriptor keeps the file it opened: rename does not change     *)
(* what rd.f holds.                                                        *)

\* fdht_open_readable_binlog: open binlog.<mark.s> and lseek to mark.o.
ROpen ==
    /\ rd.st = "closed"
    /\ rd' = [st |-> "open", s |-> mark.s, o |-> mark.o, f |-> files[mark.s], dirty |-> FALSE]
    /\ UNCHANGED <<orig, files, newf, cidx, tool, mark, store>>

\* fdht_binlog_read finds a whole record at the offset; the peer applies it.
RRead ==
    /\ rd.st = "open"
    /\ \E i \in 1..Len(rd.f) :
          /\ Off(rd.f, i) = rd.o
          /\ store' = Apply(store, rd.f[i])
          /\ rd' = [rd EXCEPT !.o = @ + rd.f[i].len, !.dirty = TRUE]
    /\ UNCHANGED <<orig, files, newf, cidx, tool, mark>>

\* fdht_binlog_read at the end of a closed segment: open the next one at
\* offset 0 and write the mark.
RRotate ==
    /\ rd.st = "open" /\ rd.o >= Size(rd.f) /\ rd.s < CurIndex
    /\ rd' = [st |-> "open", s |-> rd.s + 1, o |-> 0, f |-> files[rd.s + 1], dirty |-> FALSE]
    /\ mark' = [s |-> rd.s + 1, o |-> 0]
    /\ UNCHANGED <<orig, files, newf, cidx, tool, store>>

\* The offset is inside a record, and the bytes read there as a header give
\* a key or value length that is invalid: fdht_binlog_read returns EINVAL,
\* the thread leaves its loop and saves its offset as the mark if it read
\* anything.  (Bytes that sscanf cannot parse give ENOENT instead, and the
\* thread sleeps and reads on from where the fd is: a step that changes
\* nothing this model records.)
RGarbage ==
    /\ rd.st = "open" /\ rd.o < Size(rd.f) /\ rd.o \notin {Off(rd.f, i) : i \in 1..Len(rd.f)}
    /\ mark' = IF rd.dirty THEN [s |-> rd.s, o |-> rd.o] ELSE mark
    /\ rd' = [rd EXCEPT !.st = "closed"]
    /\ UNCHANGED <<orig, files, newf, cidx, tool, store>>

\* fdht_write_to_mark_file, every 1000 rows or at the end of the log.
RSave ==
    /\ rd.st = "open" /\ rd.dirty
    /\ mark' = [s |-> rd.s, o |-> rd.o]
    /\ rd' = [rd EXCEPT !.dirty = FALSE]
    /\ UNCHANGED <<orig, files, newf, cidx, tool, store>>

\* The connection to the peer fails: save the mark if it moved, close.
RDisconnect ==
    /\ rd.st = "open"
    /\ mark' = IF rd.dirty THEN [s |-> rd.s, o |-> rd.o] ELSE mark
    /\ rd' = [rd EXCEPT !.st = "closed"]
    /\ UNCHANGED <<orig, files, newf, cidx, tool, store>>

ToolNext ==
    \/ \E m \in Modes : Launch(m)
    \/ IdxOpen \/ IdxWrite \/ CompressFile \/ WalkRow \/ Rename \/ CrashTool

ReaderNext == ROpen \/ RRead \/ RRotate \/ RGarbage \/ RSave \/ RDisconnect

Next == ToolNext \/ ReaderNext

Spec == Init /\ [][Next]_vars

-----------------------------------------------------------------------------
(* Properties. *)

\* Every file and every piece of the tool's state is of its kind; the
\* .new file never holds more records than a segment.
TypeOK ==
    /\ \A s \in Segs : ToSet(files[s]) \subseteq Recs /\ Len(files[s]) <= MaxRecs
    /\ ToSet(newf) \subseteq Recs /\ Len(newf) <= MaxRecs
    /\ cidx \in {Absent, Truncated} \cup 0..CurIndex
    /\ tool.pc \in {"idle", "idx_open", "idx_write", "compress", "walk"}
    /\ tool.rows \subseteq Recs /\ tool.runs \in 0..MaxRuns
    /\ mark.s \in Segs /\ rd.st \in {"open", "closed"}

\* compress_binlog_file's index pass and hash walk: every segment on disk
\* is either as the server wrote it or holds exactly the latest live record
\* of each key of that segment, once, whatever the walk order, the
\* failures and the kills between steps.
CompactionSound == \A s \in Segs : files[s] = orig[s] \/ IsCompaction(files[s], orig[s])

\* auto mode: binlog.compressed.index = n only once segments 0..n-1 have
\* been compacted, so a later "auto" run never skips one.
IndexSound == cidx >= 0 => \A s \in 0..cidx - 1 : IsCompaction(files[s], orig[s])

\* A peer that has read to the end of the log from its mark holds what a
\* replay of the server's whole history gives: compaction of the segments
\* behind or under its mark loses no update and brings back no deleted key.
PeerConverges ==
    (rd.st = "open" /\ rd.s = CurIndex /\ rd.o = Size(rd.f)) => store = Replay(Empty, History)

=============================================================================
