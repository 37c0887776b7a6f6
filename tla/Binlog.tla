------------------------------- MODULE Binlog -------------------------------
(***************************************************************************)
(* The binlog of one FastDHT storage server and the sync threads that      *)
(* replicate it (src/server/sync.c).                                       *)
(*                                                                         *)
(* Writer: fdht_binlog_write appends a record to the write-combining       *)
(* buffer, flushing the buffer first when it is full; a record at least    *)
(* as large as the buffer is written straight to the segment file by       *)
(* fdht_binlog_direct_write, one write() per field.  fdht_binlog_fsync     *)
(* writes the buffer out.  When the writable segment reaches its maximum   *)
(* size the writer increments g_binlog_index, saves it to binlog.index     *)
(* and calls open_next_writable_binlog, which calls fdht_sync_destroy,     *)
(* which flushes the buffer once more while the caller still holds the     *)
(* lock and before the caller has reset the buffer.                        *)
(*                                                                         *)
(* Sync threads: one per destination server.  Each negotiates a start      *)
(* position on first contact (fdht_sync_req, fdht_binlog_reader_skip),     *)
(* then reads records (fdht_binlog_read), forwards them (fdht_sync_data)   *)
(* and saves its position in a mark file every MarkEvery forwarded         *)
(* records, on segment change, on backfill completion and on leaving the   *)
(* tailing loop.                                                           *)
(*                                                                         *)
(* Data abstraction: a file is a sequence of units.  A record of length n  *)
(* occupies the units <<id,1>>, ..., <<id,n>>, unit <<id,1>> being its     *)
(* fixed-width text header.  Offsets and sizes count units.  A record's   *)
(* key and value are abstracted to its id; recs[id] keeps its op kind,     *)
(* timestamp and length.                                                   *)
(***************************************************************************)
EXTENDS Integers, Sequences, FiniteSets, SequencesExt

CONSTANTS
    Peers,        \* destination servers, one sync thread each
    Appenders,    \* worker threads that call fdht_binlog_write
    Ops,          \* op kinds the workload writes to the binlog
    RecLens,      \* record lengths (units) the workload writes
    BuffSize,     \* size of binlog_write_cache_buff (units)
    MaxFileSize,  \* SYNC_BINLOG_FILE_MAX_SIZE (units)
    MarkEvery,    \* the 1000 of "sync_row_count % 1000 == 0"
    Untils,       \* until_timestamp values a peer may answer in fdht_sync_req
    MaxAppends,   \* bound: number of fdht_binlog_write calls
    MaxTime,      \* bound: the clock
    MaxSeg,       \* bound: highest binlog segment index
    MaxDepth,     \* nesting of fdht_binlog_fsync at which the stack overflows
    Crashes,      \* TRUE: the server process may be killed at any step
    NetFails,     \* TRUE: requests to a peer may fail, after or before it applied them
    FirstStart    \* TRUE: the model starts in the server's first start, with no sync.ini

\* The op_type characters of a binlog record.
SOURCE_SET  == "SOURCE_SET"
SOURCE_DEL  == "SOURCE_DEL"
REPLICA_SET == "REPLICA_SET"
REPLICA_DEL == "REPLICA_DEL"
SourceOps == {SOURCE_SET, SOURCE_DEL}
AllOps == SourceOps \cup {REPLICA_SET, REPLICA_DEL}

ASSUME /\ Ops \subseteq AllOps
       /\ RecLens \subseteq 2..BuffSize
       /\ MarkEvery \in Nat \ {0}
       /\ Untils \subseteq 0..MaxTime
       /\ {MaxAppends, MaxTime, MaxSeg, MaxDepth} \subseteq Nat
       /\ Crashes \in BOOLEAN /\ NetFails \in BOOLEAN /\ FirstStart \in BOOLEAN
       /\ Appenders \cap Peers = {}

Actors == Peers \cup Appenders
SegIdx == 0..MaxSeg
Ids == 1..MaxAppends
NoFd == -1                 \* a closed file descriptor
Truncated == -2            \* binlog.index opened with O_TRUNC, not yet written
NoMark == [idx |-> -1]     \* no mark file

\* No writer operation in progress for an actor.
NoOp == [pc |-> "idle", id |-> 0, k |-> 0, depth |-> 0, caller |-> "none"]

\* The reader after fdht_reader_init's memset: no file open.  dirty stands
\* for last_write_row_count # scan_row_count, syncMod for
\* sync_row_count % MarkEvery: the only ways the code uses the two counters.
\* eof: fdht_binlog_read's read() has returned 0 and the thread has not yet
\* compared binlog_index with g_binlog_index.
DownReader == [st |-> "down", idx |-> 0, off |-> 0, pos |-> NoFd,
               need |-> FALSE, done |-> FALSE, until |-> 0,
               syncMod |-> 0, dirty |-> FALSE, eof |-> FALSE]

VARIABLES
    files,        \* files[s]: content of segment file binlog.s
    created,      \* segment files that exist
    binlogIndex,  \* g_binlog_index: the writable segment
    indexFile,    \* the number saved in binlog.index
    fileSize,     \* binlog_file_size: units written to the writable segment
    wfd,          \* g_binlog_fd: the segment the writer has open, or NoFd
    buf,          \* binlog_write_cache_buff up to pbinlog_write_cache_current
    mutex,        \* sync_thread_lock: "free", "destroyed" or its holder
    wop,          \* wop[a]: the writer operation actor a is in the middle of
    up,           \* the server process is running
    iniFile,      \* data/sync.ini (DATA_DIR_INITED_FILENAME): "absent", "truncated" or "written"
    recs,         \* recs[id]: the record of the id-th fdht_binlog_write call
    now,          \* time(NULL)
    rd,           \* rd[p]: the BinLogReader of the sync thread of peer p
    mark,         \* mark[p]: the content of the mark file of peer p
    got,          \* ids of the records peer p has applied
    bad,          \* ids of records peer p was sent misframed
    dup,          \* ids of records peer p was sent more than once
    start         \* start[p]: where p's first mark file started

writerVars == <<files, created, binlogIndex, indexFile, fileSize, wfd, buf,
                mutex, wop, recs, up, iniFile>>
syncVars == <<rd, mark, got, bad, dup, start>>
vars == <<writerVars, now, syncVars>>

\* fdht_sync_init has returned: it has loaded or written sync.ini and
\* created the sync threads; the worker threads call fdht_binlog_write only
\* once the server is serving.
Serving == up /\ iniFile = "written"

-----------------------------------------------------------------------------
(* Records and files *)

\* Mutant: the terminator byte left out of the record length.
CalcRecordLengthShort(rec) == rec.len - 1

\* CALC_RECORD_LENGTH: header, key, separator, value and terminator.
CalcRecordLength(rec) == rec.len

UnitsOf(id, n) == [k \in 1..n |-> <<id, k>>]

\* The outcome of fdht_binlog_read at unit position pos of segment s, before
\* any move to the next segment: "error" (fd closed), "eof" (read returns 0),
\* "partial" (a record not yet fully written: rewound, ENOENT), "garbage" (pos
\* is not at a header: sscanf fails or a length is invalid) or a record,
\* intact when its units are the ones its header announces.
ReadAt(s, pos) ==
    LET f == files[s] IN
    CASE pos = NoFd -> [kind |-> "error"]
      [] pos >= Len(f) -> [kind |-> "eof"]
      [] f[pos + 1][2] # 1 -> [kind |-> "garbage"]
      [] pos + CalcRecordLength(recs[f[pos + 1][1]]) > Len(f) -> [kind |-> "partial"]
      [] OTHER ->
           LET id == f[pos + 1][1]
               n == CalcRecordLength(recs[id])
           IN [kind |-> "record", id |-> id, len |-> n,
               intact |-> SubSeq(f, pos + 1, pos + n) = UnitsOf(id, n)]

\* rewind_to_prev_rec_end: seek back over what the failed read consumed.
Rewind(pos, n) == pos - n

-----------------------------------------------------------------------------
(* The writer lock: an error-checking mutex (init_pthread_lock).  Locking it *)
(* again from its holder fails with EDEADLK and locking or unlocking a       *)
(* destroyed one fails with EINVAL; sync.c logs these failures and goes on.  *)

CanLock(a) == mutex \in {"free", "destroyed"}
Locked(a) == IF mutex = "free" THEN a ELSE mutex
Unlocked(a, m) == IF m = a THEN "free" ELSE m

\* Mutant: the new index is not saved to binlog.index.
StartRotationNoIndex(a, caller, id) ==
    /\ binlogIndex < MaxSeg
    /\ binlogIndex' = binlogIndex + 1
    /\ UNCHANGED indexFile
    /\ mutex' = Locked(a)
    /\ wop' = [wop EXCEPT ![a] = [pc |-> "reenter", id |-> id, k |-> 0,
                                  depth |-> 1, caller |-> caller]]

\* The first step of a rotation, once fdht_binlog_fsync or
\* fdht_binlog_direct_write has found binlog_file_size >= the maximum:
\* g_binlog_index++ and write_to_binlog_index's open of binlog.index with
\* O_TRUNC; WriteIndex writes the number, then open_next_writable_binlog
\* calls fdht_sync_destroy, which calls fdht_binlog_fsync(true) (depth 1).
StartRotation(a, caller, id) ==
    /\ binlogIndex < MaxSeg
    /\ binlogIndex' = binlogIndex + 1
    /\ indexFile' = Truncated
    /\ mutex' = Locked(a)
    /\ wop' = [wop EXCEPT ![a] = [pc |-> "index", id |-> id, k |-> 0,
                                  depth |-> 1, caller |-> caller]]

\* Mutant: the cache pointer is not reset after a flush that did not rotate.
FsyncNoReset(a, caller, id, after) ==
    IF wfd = NoFd
    THEN /\ buf' = after
         /\ UNCHANGED <<files, fileSize, binlogIndex, indexFile, mutex, wop>>
    ELSE /\ files' = [files EXCEPT ![wfd] = @ \o buf]
         /\ fileSize' = fileSize + Len(buf)
         /\ IF fileSize + Len(buf) >= MaxFileSize
            THEN /\ StartRotation(a, caller, id)
                 /\ UNCHANGED buf
            ELSE /\ buf' = buf \o after
                 /\ UNCHANGED <<binlogIndex, indexFile, mutex, wop>>

\* fdht_binlog_fsync by actor a with a non-empty buffer, the lock taken:
\* write the buffer and fsync; on success add its size, and rotate if the
\* segment is full (the buffer is reset only after the rotation returns);
\* otherwise reset the buffer to after (the buffer once the caller has
\* appended what it still has to) and unlock.  A write to a closed fd
\* fails (EBADF): the buffer is reset all the same.
Fsync(a, caller, id, after) ==
    IF wfd = NoFd
    THEN /\ buf' = after
         /\ UNCHANGED <<files, fileSize, binlogIndex, indexFile, mutex, wop>>
    ELSE /\ files' = [files EXCEPT ![wfd] = @ \o buf]
         /\ fileSize' = fileSize + Len(buf)
         /\ IF fileSize + Len(buf) >= MaxFileSize
            THEN /\ StartRotation(a, caller, id)
                 /\ UNCHANGED buf
            ELSE /\ buf' = after
                 /\ UNCHANGED <<binlogIndex, indexFile, mutex, wop>>

-----------------------------------------------------------------------------
(* Writer actions *)

\* fdht_binlog_write: lock; a record at least as large as the buffer goes to
\* fdht_binlog_direct_write (without flushing the buffer first); otherwise
\* flush the buffer with fdht_binlog_fsync(false) if the record does not fit,
\* append the record to the buffer and unlock.
BinlogWrite(a) ==
    /\ Serving
    /\ wop[a].pc = "idle"
    /\ CanLock(a)
    /\ Len(recs) < MaxAppends
    /\ \E op \in Ops, n \in RecLens :
         LET id == Len(recs) + 1 IN
         /\ recs' = Append(recs, [op |-> op, ts |-> now, len |-> n])
         /\ \/ /\ n >= BuffSize
               /\ mutex' = Locked(a)
               /\ wop' = [wop EXCEPT ![a] = [NoOp EXCEPT !.pc = "direct", !.id = id]]
               /\ UNCHANGED <<files, binlogIndex, indexFile, fileSize, buf>>
            \/ /\ n < BuffSize
               /\ BuffSize - Len(buf) < n
               /\ Fsync(a, "append", id, UnitsOf(id, n))
            \/ /\ n < BuffSize
               /\ BuffSize - Len(buf) >= n
               /\ buf' = buf \o UnitsOf(id, n)
               /\ UNCHANGED <<files, binlogIndex, indexFile, fileSize, mutex, wop>>
    /\ UNCHANGED <<created, wfd, up, iniFile, now, syncVars>>

\* fdht_binlog_direct_write: one write() per field, here one unit per step;
\* after the last one, fsync, add the record length to binlog_file_size and
\* rotate if the segment is full, else return to fdht_binlog_write, which
\* unlocks.  A write to a closed fd fails and the call returns the error.
DirectWrite(a) ==
    /\ wop[a].pc = "direct"
    /\ LET id == wop[a].id
           n == CalcRecordLength(recs[id])
           k == wop[a].k
       IN \/ /\ wfd = NoFd
             /\ mutex' = Unlocked(a, mutex)
             /\ wop' = [wop EXCEPT ![a] = NoOp]
             /\ UNCHANGED <<files, fileSize, binlogIndex, indexFile>>
          \/ /\ wfd # NoFd
             /\ files' = [files EXCEPT ![wfd] = Append(@, <<id, k + 1>>)]
             /\ IF k + 1 < n
                THEN /\ wop' = [wop EXCEPT ![a].k = k + 1]
                     /\ UNCHANGED <<fileSize, binlogIndex, indexFile, mutex>>
                ELSE /\ fileSize' = fileSize + n
                     /\ IF fileSize + n >= MaxFileSize
                        THEN StartRotation(a, "direct", id)
                        ELSE /\ mutex' = Unlocked(a, mutex)
                             /\ wop' = [wop EXCEPT ![a] = NoOp]
                             /\ UNCHANGED <<binlogIndex, indexFile>>
    /\ UNCHANGED <<created, wfd, buf, recs, up, iniFile, now, syncVars>>

\* The nested fdht_binlog_fsync(true) of fdht_sync_destroy.  Its lock fails
\* (EDEADLK from the holder, EINVAL once destroyed) and it goes on.  An empty
\* buffer: unlock and return to fdht_sync_destroy.  A non-empty buffer has not
\* been reset by the caller yet: it is written to the old segment a second
\* time, binlog_file_size (not yet reset either) is still over the maximum,
\* and the rotation starts again one level deeper.
ReenterFsync(a) ==
    /\ wop[a].pc = "reenter"
    /\ \/ /\ buf = <<>>
          /\ mutex' = Unlocked(a, mutex)
          /\ wop' = [wop EXCEPT ![a].pc = "destroy"]
          /\ UNCHANGED <<files, fileSize, binlogIndex, indexFile>>
       \/ /\ buf # <<>>
          /\ wop[a].depth < MaxDepth
          /\ binlogIndex < MaxSeg
          /\ wfd # NoFd
          /\ files' = [files EXCEPT ![wfd] = @ \o buf]
          /\ fileSize' = fileSize + Len(buf)
          /\ binlogIndex' = binlogIndex + 1
          /\ indexFile' = Truncated
          /\ wop' = [wop EXCEPT ![a].depth = @ + 1, ![a].pc = "index"]
          /\ UNCHANGED mutex
    /\ UNCHANGED <<created, wfd, buf, recs, up, iniFile, now, syncVars>>

\* The rest of write_to_binlog_index: write g_binlog_index into the file
\* just truncated and close it; then open_next_writable_binlog starts with
\* fdht_sync_destroy and its nested fdht_binlog_fsync(true).
WriteIndex(a) ==
    /\ wop[a].pc = "index"
    /\ indexFile' = binlogIndex
    /\ wop' = [wop EXCEPT ![a].pc = "reenter"]
    /\ UNCHANGED <<files, created, binlogIndex, fileSize, wfd, buf, mutex, recs,
                   up, iniFile, now, syncVars>>

\* fdht_sync_destroy after its nested flush: close(g_binlog_fd), set it to
\* -1, then pthread_mutex_destroy, which succeeds on an unlocked mutex and
\* fails (EBUSY, EINVAL) otherwise.
CloseAndDestroy(a) ==
    /\ wop[a].pc = "destroy"
    /\ wfd' = NoFd
    /\ mutex' = IF mutex = "free" THEN "destroyed" ELSE mutex
    /\ wop' = [wop EXCEPT ![a].pc = "open"]
    /\ UNCHANGED <<files, created, binlogIndex, indexFile, fileSize, buf, recs,
                   up, iniFile, now, syncVars>>

\* The rest of open_next_writable_binlog: unlink binlog.<g_binlog_index> if it
\* exists and create it empty.  Back in the fdht_binlog_fsync or
\* fdht_binlog_direct_write that rotated: binlog_file_size = 0.  At depth 1
\* that is the caller's own call: fdht_binlog_direct_write returns and
\* fdht_binlog_write unlocks; fdht_binlog_fsync resets the buffer, then the
\* flush timer unlocks, or fdht_binlog_write appends its record and unlocks.
\* Deeper, it is a nested fdht_binlog_fsync(true): reset, unlock, and return
\* into the fdht_sync_destroy of the level above.
OpenNext(a) ==
    /\ wop[a].pc = "open"
    /\ files' = [files EXCEPT ![binlogIndex] = <<>>]
    /\ created' = created \cup {binlogIndex}
    /\ wfd' = binlogIndex
    /\ fileSize' = 0
    /\ mutex' = Unlocked(a, mutex)
    /\ LET op == wop[a] IN
       \/ /\ op.depth > 1
          /\ buf' = <<>>
          /\ wop' = [wop EXCEPT ![a] = [op EXCEPT !.pc = "destroy", !.depth = @ - 1]]
       \/ /\ op.depth = 1
          /\ wop' = [wop EXCEPT ![a] = NoOp]
          /\ buf' = CASE op.caller = "direct" -> buf
                      [] op.caller = "timer"  -> <<>>
                      [] op.caller = "append" -> UnitsOf(op.id, recs[op.id].len)
    /\ UNCHANGED <<binlogIndex, indexFile, recs, up, iniFile, now, syncVars>>

\* fdht_sync_init finds binlog.index empty: read() returns 0, the
\* "bytes <= 0" check fails with EIO and the server exits without starting.
\* No thread of the process runs again.
StartFails ==
    /\ up' = FALSE
    /\ wfd' = NoFd
    /\ buf' = <<>>
    /\ mutex' = "free"
    /\ wop' = [a \in Actors |-> NoOp]
    /\ rd' = [p \in Peers |-> DownReader]
    /\ UNCHANGED <<files, created, binlogIndex, indexFile, fileSize, recs, iniFile,
                   now, mark, got, bad, dup, start>>

\* The server process is killed and started again: fdht_sync_init reads
\* binlog.index, opens that segment with O_CREAT | O_APPEND and takes its size
\* from lseek(SEEK_END), whatever its tail holds; the buffer and every writer
\* operation in progress are gone; the sync threads start over from their
\* mark files.  Files, binlog.index, sync.ini and mark files survive.  An
\* empty binlog.index fails the "bytes <= 0" check; an empty sync.ini has no
\* INIT_ITEM_SERVER_JOIN_TIME and load_sync_init_data returns ENOENT.  A
\* missing sync.ini is written again by the new start (SyncIniOpen).
Restart ==
    \/ /\ indexFile # Truncated
       /\ iniFile # "truncated"
       /\ binlogIndex' = indexFile
       /\ created' = created \cup {indexFile}
       /\ wfd' = indexFile
       /\ fileSize' = Len(files[indexFile])
       /\ buf' = <<>>
       /\ mutex' = "free"
       /\ wop' = [a \in Actors |-> NoOp]
       /\ rd' = [p \in Peers |-> DownReader]
       /\ UNCHANGED <<files, indexFile, recs, up, iniFile, now, mark, got, bad, dup, start>>
    \/ /\ indexFile = Truncated \/ iniFile = "truncated"
       /\ StartFails

\* load_sync_init_data on a start that finds no sync.ini: g_server_join_time
\* is set and write_to_sync_ini_file opens the file with O_TRUNC ...
SyncIniOpen ==
    /\ up /\ iniFile = "absent"
    /\ iniFile' = "truncated"
    /\ UNCHANGED <<files, created, binlogIndex, indexFile, fileSize, wfd, buf,
                   mutex, wop, recs, up, now, syncVars>>

\* ... then writes the items in one write(); fdht_sync_init goes on to
\* create_sync_threads and the server serves.
SyncIniWrite ==
    /\ up /\ iniFile = "truncated"
    /\ iniFile' = "written"
    /\ UNCHANGED <<files, created, binlogIndex, indexFile, fileSize, wfd, buf,
                   mutex, wop, recs, up, now, syncVars>>

\* The nesting of fdht_binlog_fsync has no end while the buffer is not empty:
\* the stack overflows and the process dies.  The model lets it die after
\* MaxDepth levels, or earlier if the next level would pass MaxSeg.
StackOverflow(a) ==
    /\ wop[a].pc = "reenter"
    /\ buf # <<>>
    /\ wop[a].depth = MaxDepth \/ binlogIndex = MaxSeg
    /\ Restart

Crash == Crashes /\ up /\ Restart

Tick ==
    /\ now < MaxTime
    /\ now' = now + 1
    /\ UNCHANGED <<writerVars, syncVars>>

-----------------------------------------------------------------------------
(* Sync threads *)

\* fdht_open_readable_binlog: open the reader's segment and seek to its
\* offset; if the file does not exist the fd is left at -1.
OpenReadable(r) == [r EXCEPT !.pos = IF r.idx \in created THEN r.off ELSE NoFd]

\* The answers fdht_sync_req can get from a peer: its sync_old_done flag,
\* whether the source of its old data is this server (need_sync_old), and
\* until_timestamp.  A failed request is retried and changes nothing.
SyncReqAnswers == [done : BOOLEAN, need : BOOLEAN, until : Untils]

\* The outcomes of fdht_report_sync_done (send SYNC_NOTIFY, await the reply).
ReportSyncDone == IF NetFails THEN BOOLEAN ELSE {TRUE}

\* The fields fdht_write_to_mark_file saves.
MarkOf(r) == [idx |-> r.idx, off |-> r.off, need |-> r.need, done |-> r.done,
              until |-> r.until, syncMod |-> r.syncMod]

\* Mutant: the backfill filter applied to source records as well.
ForwardedAll(r, rec) == r.need /\ ~r.done /\ rec.ts <= r.until

\* STARAGE_CHECK_IF_NEED_SYNC_OLD: a replica record is sent only while this
\* server owes the peer old data up to until_timestamp.
Forwarded(r, rec) ==
    \/ rec.op \in SourceOps
    \/ r.need /\ ~r.done /\ rec.ts <= r.until

\* fdht_binlog_reader_skip: read records older than until_timestamp, moving to
\* the next segment at the end of one; stop before the first newer record, at
\* the end of the log, or where a read fails with ENOENT.
RECURSIVE Skip(_)
Skip(r) ==
    LET x == ReadAt(r.idx, r.pos) IN
    CASE x.kind = "record" /\ recs[x.id].ts < r.until ->
             Skip([r EXCEPT !.pos = @ + x.len, !.off = @ + x.len])
      [] x.kind = "eof" /\ r.idx < binlogIndex /\ r.idx + 1 \in created ->
             Skip([r EXCEPT !.idx = @ + 1, !.off = 0, !.pos = 0])
      [] x.kind = "eof" /\ r.idx < binlogIndex ->
             [r EXCEPT !.idx = @ + 1, !.off = 0, !.pos = NoFd]
      [] x.kind = "garbage" -> [r EXCEPT !.pos = @ + 1]
      [] OTHER -> r

\* Mutant: the mark is not saved when the loop is left.
DisconnectNoSave(p, r, m) ==
    /\ mark' = [mark EXCEPT ![p] = m]
    /\ rd' = [rd EXCEPT ![p] = DownReader]

\* Leaving the tailing loop: save the mark if rows were scanned since it was
\* last saved (m is the mark file's content at that point), close the files.
Disconnect(p, r, m) ==
    /\ mark' = [mark EXCEPT ![p] = IF r.dirty THEN MarkOf(r) ELSE m]
    /\ rd' = [rd EXCEPT ![p] = DownReader]

\* The ENOENT branch of fdht_sync_thread_entrance's loop, r being the reader
\* after the read: report the end of the old data if it was owed (saving the
\* mark on success), send a heartbeat if its interval is over (leaving the
\* loop if it fails), flush the binlog buffer if it is not empty and the
\* 60 s check interval is over.  The intervals are abstracted to choices.
EndOfLog(p, r) ==
    \E reportOk \in ReportSyncDone,
       beat \in IF NetFails THEN {"none", "ok", "fail"} ELSE {"none", "ok"},
       flushDue \in BOOLEAN :
      LET report == r.need /\ ~r.done /\ reportOk
          r2 == IF report THEN [r EXCEPT !.done = TRUE, !.dirty = FALSE] ELSE r
          m2 == IF report THEN MarkOf(r2) ELSE mark[p]
      IN \/ /\ beat = "fail"
            /\ Disconnect(p, r2, m2)
            /\ UNCHANGED writerVars
         \/ /\ beat # "fail"
            /\ rd' = [rd EXCEPT ![p] = r2]
            /\ mark' = [mark EXCEPT ![p] = m2]
            /\ IF flushDue /\ buf # <<>>
               THEN /\ CanLock(p)
                    /\ Fsync(p, "timer", 0, <<>>)
                    /\ UNCHANGED <<created, wfd, recs, up, iniFile>>
               ELSE UNCHANGED writerVars

\* The sync thread of p is in its tailing loop and not inside a flush.
Tailing(p) == rd[p].st = "up" /\ wop[p].pc = "idle"

\* ... and about to call read() in fdht_binlog_read.
Reading(p) == Tailing(p) /\ ~rd[p].eof

\* fdht_binlog_read: read() returns 0 at the end of the segment file.  The
\* check of g_binlog_index that decides what that means is a later step.
ReaderEof(p) ==
    /\ Reading(p)
    /\ ReadAt(rd[p].idx, rd[p].pos).kind = "eof"
    /\ rd' = [rd EXCEPT ![p].eof = TRUE]
    /\ UNCHANGED <<writerVars, now, mark, got, bad, dup, start>>

\* fdht_binlog_read returns a record: fdht_sync_data sends it (or skips a
\* replica record that is not owed) and succeeds; then scan_row_count++,
\* binlog_offset += record_len, and the mark is saved when sync_row_count is
\* a multiple of 1000.
ReaderForward(p) ==
    /\ Reading(p)
    /\ LET r == rd[p]
           x == ReadAt(r.idx, r.pos)
       IN /\ x.kind = "record"
          /\ LET fwd == Forwarded(r, recs[x.id])
                 r2 == [r EXCEPT !.pos = @ + x.len, !.off = @ + x.len,
                                 !.syncMod = IF fwd THEN (@ + 1) % MarkEvery ELSE @,
                                 !.dirty = TRUE]
             IN /\ got' = [got EXCEPT ![p] = IF fwd THEN @ \cup {x.id} ELSE @]
                /\ dup' = [dup EXCEPT ![p] = IF fwd /\ x.id \in got[p] THEN @ \cup {x.id} ELSE @]
                /\ bad' = [bad EXCEPT ![p] = IF fwd /\ ~x.intact THEN @ \cup {x.id} ELSE @]
                /\ IF r2.syncMod = 0
                   THEN /\ rd' = [rd EXCEPT ![p] = [r2 EXCEPT !.dirty = FALSE]]
                        /\ mark' = [mark EXCEPT ![p] = MarkOf(r2)]
                   ELSE /\ rd' = [rd EXCEPT ![p] = r2]
                        /\ UNCHANGED mark
    /\ UNCHANGED <<writerVars, now, start>>

\* fdht_sync_data fails (the peer may have applied the record and the reply
\* been lost): rewind_to_prev_rec_end and leave the loop.
ReaderForwardFail(p) ==
    /\ NetFails
    /\ Reading(p)
    /\ LET r == rd[p]
           x == ReadAt(r.idx, r.pos)
       IN /\ x.kind = "record"
          /\ Forwarded(r, recs[x.id])
          /\ \E applied \in BOOLEAN :
               /\ got' = [got EXCEPT ![p] = IF applied THEN @ \cup {x.id} ELSE @]
               /\ dup' = [dup EXCEPT ![p] = IF applied /\ x.id \in got[p] THEN @ \cup {x.id} ELSE @]
               /\ bad' = [bad EXCEPT ![p] = IF applied /\ ~x.intact THEN @ \cup {x.id} ELSE @]
          /\ Disconnect(p, [r EXCEPT !.pos = Rewind(@ + x.len, x.len)], mark[p])
    /\ UNCHANGED <<writerVars, now, start>>

\* fdht_binlog_read returns ENOENT without a record: after read() returned
\* 0, binlog_index is not below g_binlog_index (the end of the last
\* segment); a record not completely written (rewound); or a header sscanf
\* cannot parse (not rewound: the fd has moved past it).
ReaderEnd(p) ==
    /\ Tailing(p)
    /\ LET r == rd[p]
           x == ReadAt(r.idx, r.pos)
       IN \/ r.eof /\ r.idx >= binlogIndex /\ EndOfLog(p, [r EXCEPT !.eof = FALSE])
          \/ ~r.eof /\ x.kind = "partial" /\ EndOfLog(p, r)
          \/ ~r.eof /\ x.kind = "garbage" /\ EndOfLog(p, [r EXCEPT !.pos = @ + 1])
    /\ UNCHANGED <<now, got, bad, dup, start>>

\* Mutant: binlog_offset not reset when moving to the next segment.
ReaderRotateKeepOffset(p) ==
    /\ Tailing(p)
    /\ LET r == rd[p]
           r1 == [r EXCEPT !.idx = @ + 1, !.eof = FALSE]
       IN /\ r.eof
          /\ r.idx < binlogIndex
          /\ \/ /\ r1.idx \in created
                /\ rd' = [rd EXCEPT ![p] = [r1 EXCEPT !.pos = 0, !.dirty = FALSE]]
                /\ mark' = [mark EXCEPT ![p] = MarkOf(r1)]
                /\ UNCHANGED writerVars
             \/ /\ r1.idx \notin created
                /\ EndOfLog(p, [r1 EXCEPT !.pos = NoFd])
    /\ UNCHANGED <<now, got, bad, dup, start>>

\* After read() returned 0, binlog_index < g_binlog_index (read without the
\* lock, whatever the writer has appended to this segment since): the end
\* of a segment that is not the writable one.  binlog_index++, offset 0,
\* open it and save the mark; if it does not exist yet, the open fails with
\* ENOENT, which the loop takes for the end of the log, and the fd stays
\* closed.
ReaderRotate(p) ==
    /\ Tailing(p)
    /\ LET r == rd[p]
           r1 == OpenReadable([r EXCEPT !.idx = @ + 1, !.off = 0, !.eof = FALSE])
       IN /\ r.eof
          /\ r.idx < binlogIndex
          /\ \/ /\ r1.pos # NoFd
                /\ rd' = [rd EXCEPT ![p] = [r1 EXCEPT !.dirty = FALSE]]
                /\ mark' = [mark EXCEPT ![p] = MarkOf(r1)]
                /\ UNCHANGED writerVars
             \/ /\ r1.pos = NoFd
                /\ EndOfLog(p, r1)
    /\ UNCHANGED <<now, got, bad, dup, start>>

\* Mutant: a failed read is retried in the loop instead of reconnecting.
ReaderErrorRetry(p) ==
    /\ Reading(p)
    /\ ReadAt(rd[p].idx, rd[p].pos).kind \in {"error", "garbage"}
    /\ UNCHANGED vars

\* fdht_binlog_read fails otherwise: read() on the closed fd (EBADF), or a
\* header with an invalid length (EINVAL): leave the loop.
ReaderError(p) ==
    /\ Reading(p)
    /\ LET r == rd[p]
           x == ReadAt(r.idx, r.pos)
       IN /\ x.kind \in {"error", "garbage"}
          /\ Disconnect(p, r, mark[p])
    /\ UNCHANGED <<writerVars, now, got, bad, dup, start>>

NoPos == [s |-> -1, o |-> -1]

\* Mutant: the saved offset is not seeked to when the mark is loaded.
ReaderInitNoSeek(p) ==
    /\ Serving
    /\ rd[p].st = "down"
    /\ wop[p].pc = "idle"
    /\ \/ /\ mark[p] # NoMark
          /\ mark[p].idx \in created
          /\ LET m == mark[p] IN
             rd' = [rd EXCEPT ![p] = [st |-> "up", idx |-> m.idx, off |-> m.off,
                                      pos |-> 0, need |-> m.need, done |-> m.done,
                                      until |-> m.until, syncMod |-> m.syncMod,
                                      dirty |-> FALSE, eof |-> FALSE]]
          /\ UNCHANGED <<mark, start>>
       \/ /\ mark[p] # NoMark
          /\ mark[p].idx \notin created
          /\ UNCHANGED <<rd, mark, start>>
       \/ /\ mark[p] = NoMark
          /\ \E need, pdone \in BOOLEAN, until \in Untils :
               LET r0 == [DownReader EXCEPT !.st = "up", !.pos = 0, !.need = need,
                                            !.done = pdone, !.until = until]
                   r1 == IF ~need /\ until > 0 THEN Skip(r0) ELSE r0
               IN /\ rd' = [rd EXCEPT ![p] = r1]
                  /\ mark' = [mark EXCEPT ![p] = MarkOf(r1)]
                  /\ start' = [start EXCEPT ![p] = [s |-> r1.idx, o |-> r1.off]]
    /\ UNCHANGED <<writerVars, now, got, bad, dup>>

\* Connected to p, fdht_reader_init: load the mark file if there is one;
\* otherwise negotiate with fdht_sync_req (the peer answers sync_old_done,
\* whether this server is the source of its old data, and until_timestamp),
\* skip old records when this server is not that source, and save the first
\* mark.  Then open the segment at the offset; if the segment does not exist
\* the open fails and the thread reconnects and tries again, for ever.
ReaderInit(p) ==
    /\ Serving
    /\ rd[p].st = "down"
    /\ wop[p].pc = "idle"
    /\ LET m == mark[p]
           loaded == OpenReadable([st |-> "up", idx |-> m.idx, off |-> m.off,
                                   pos |-> NoFd, need |-> m.need, done |-> m.done,
                                   until |-> m.until, syncMod |-> m.syncMod,
                                   dirty |-> FALSE, eof |-> FALSE])
       IN \/ /\ m # NoMark
             /\ loaded.pos # NoFd
             /\ rd' = [rd EXCEPT ![p] = loaded]
             /\ UNCHANGED <<mark, start>>
          \/ /\ m # NoMark
             /\ loaded.pos = NoFd
             /\ UNCHANGED <<rd, mark, start>>
          \/ /\ m = NoMark
             /\ \E ans \in SyncReqAnswers :
                  LET r0 == OpenReadable([DownReader EXCEPT !.st = "up", !.need = ans.need,
                                                            !.done = ans.done, !.until = ans.until])
                      r1 == IF ~ans.need /\ ans.until > 0 THEN Skip(r0) ELSE r0
                  IN /\ r0.pos # NoFd
                     /\ rd' = [rd EXCEPT ![p] = r1]
                     /\ mark' = [mark EXCEPT ![p] = MarkOf(r1)]
                     /\ start' = [start EXCEPT ![p] = [s |-> r1.idx, o |-> r1.off]]
    /\ UNCHANGED <<writerVars, now, got, bad, dup>>

-----------------------------------------------------------------------------

Init ==
    /\ files = [s \in SegIdx |-> <<>>]
    /\ created = {0}
    /\ binlogIndex = 0
    /\ indexFile = 0
    /\ fileSize = 0
    /\ wfd = 0
    /\ buf = <<>>
    /\ mutex = "free"
    /\ wop = [a \in Actors |-> NoOp]
    /\ up = TRUE
    /\ iniFile = IF FirstStart THEN "absent" ELSE "written"
    /\ recs = <<>>
    /\ now = 1
    /\ rd = [p \in Peers |-> DownReader]
    /\ mark = [p \in Peers |-> NoMark]
    /\ got = [p \in Peers |-> {}]
    /\ bad = [p \in Peers |-> {}]
    /\ dup = [p \in Peers |-> {}]
    /\ start = [p \in Peers |-> NoPos]

Next ==
    \/ \E a \in Appenders : BinlogWrite(a) \/ DirectWrite(a)
    \/ \E a \in Actors : \/ WriteIndex(a) \/ ReenterFsync(a) \/ StackOverflow(a)
                         \/ CloseAndDestroy(a) \/ OpenNext(a)
    \/ \E p \in Peers : \/ ReaderInit(p) \/ ReaderEof(p) \/ ReaderForward(p) \/ ReaderForwardFail(p)
                        \/ ReaderEnd(p) \/ ReaderRotate(p) \/ ReaderError(p)
    \/ SyncIniOpen \/ SyncIniWrite
    \/ Tick
    \/ Crash

Spec == Init /\ [][Next]_vars

\* Every thread the server starts keeps running its loop: the sync threads
\* retry for ever, and a writer call in progress runs to its end.  New
\* fdht_binlog_write calls, the clock and crashes are not forced.
Fairness ==
    /\ WF_vars(SyncIniOpen \/ SyncIniWrite)
    /\ \A a \in Appenders : WF_vars(DirectWrite(a))
    /\ \A a \in Actors : WF_vars(WriteIndex(a) \/ ReenterFsync(a) \/ StackOverflow(a)
                                 \/ CloseAndDestroy(a) \/ OpenNext(a))
    /\ \A p \in Peers : WF_vars(ReaderInit(p) \/ ReaderEof(p) \/ ReaderForward(p) \/ ReaderEnd(p)
                                \/ ReaderRotate(p) \/ ReaderError(p))

FairSpec == Spec /\ Fairness

-----------------------------------------------------------------------------
(* Properties *)

Unit == Ids \X (1..BuffSize)
Pos == [s : -1..MaxSeg, o : Nat \cup {-1}]

TypeOK ==
    /\ files \in [SegIdx -> Seq(Unit)]
    /\ created \subseteq SegIdx /\ binlogIndex \in SegIdx
    /\ indexFile \in SegIdx \cup {Truncated} /\ up \in BOOLEAN
    /\ iniFile \in {"absent", "truncated", "written"}
    /\ wfd \in SegIdx \cup {NoFd}
    /\ buf \in Seq(Unit) /\ Len(buf) <= BuffSize
    /\ mutex \in Actors \cup {"free", "destroyed"}
    /\ \A a \in Actors : wop[a].pc \in {"idle", "direct", "index", "reenter", "destroy", "open"}
    /\ \A p \in Peers : rd[p].st \in {"down", "up"}
    /\ \A p \in Peers : got[p] \cup bad[p] \cup dup[p] \subseteq Ids
    /\ \A p \in Peers : start[p] \in Pos

\* The headers in the segment files: record id at offset o of segment s.
Located == UNION {{[id |-> files[s][k][1], s |-> s, o |-> k - 1] :
                      k \in {j \in DOMAIN files[s] : files[s][j][2] = 1}} : s \in created}

\* The record whose header is at h is there in full.
Whole(h) ==
    LET n == CalcRecordLength(recs[h.id]) IN
    /\ h.o + n <= Len(files[h.s])
    /\ SubSeq(files[h.s], h.o + 1, h.o + n) = UnitsOf(h.id, n)

PosLt(a, b) == a.s < b.s \/ (a.s = b.s /\ a.o < b.o)
MarkPos(p) == [s |-> mark[p].idx, o |-> mark[p].off]

\* No loss behind the mark (fdht_write_to_mark_file, fdht_sync_thread_entrance):
\* every complete source record that lies between where a peer's first mark
\* started and where its mark file now points has been applied by that peer,
\* across disconnects, segment rotations and restarts.  A mark saved past a
\* record that was never sent would lose it for good.
MarkNeverAhead ==
    \A p \in Peers : mark[p] # NoMark =>
        \A h \in Located :
            (/\ recs[h.id].op \in SourceOps
             /\ Whole(h)
             /\ ~PosLt(h, start[p])
             /\ PosLt(h, MarkPos(p))) => h.id \in got[p]

\* No loss behind the mark within its segment: every complete source record
\* of the segment a peer's mark file points into, between where its first
\* mark started and the mark, has been applied by that peer, across
\* disconnects, failed requests, restarts and the mark saves of
\* fdht_sync_thread_entrance (every MarkEvery rows, at ENOENT, on leaving the
\* loop).  Records of earlier segments are left to MarkNeverAhead, which the
\* unlocked rotation check of fdht_binlog_read breaks.
MarkNeverAheadInSegment ==
    \A p \in Peers : mark[p] # NoMark =>
        \A h \in Located :
            (/\ h.s = mark[p].idx
             /\ recs[h.id].op \in SourceOps
             /\ Whole(h)
             /\ ~PosLt(h, start[p])
             /\ PosLt(h, MarkPos(p))) => h.id \in got[p]

\* The mark is on a record boundary (spec 3, Peer Checkpoint): the offset a
\* sync thread saves is the start of a record or the end of its segment,
\* never the middle of a record, so that a restarted thread reads whole
\* records.
MarkAtBoundary ==
    \A p \in Peers : (mark[p] # NoMark /\ mark[p].idx \in created) =>
        LET f == files[mark[p].idx]
            o == mark[p].off
        IN o = Len(f) \/ (o < Len(f) /\ f[o + 1][2] = 1)

\* At most once without failures: while no process crash and no failed
\* request happens, reconnects of a sync thread (after a failed rotation open)
\* and segment rotations never make it send a record twice (spec 8: rotation
\* yields no duplicates).
DeliveredOnce == \A p \in Peers : dup[p] = {}

\* Framing (fdht_binlog_read): every record sent to a peer is a record the
\* writer wrote, never bytes of two records read under one header.
DeliveredIntact == \A p \in Peers : bad[p] = {}

\* Log order (spec 4.2: a large record is written "flushing the buffer first,
\* to preserve ordering"): if a record is in the log, then every record
\* appended before it that is in the log has a copy before it.
LogOrder ==
    \A h2 \in Located : \A h1 \in Located :
        h1.id < h2.id =>
            \E h \in Located : h.id = h1.id /\ PosLt(h, h2)

\* The sync thread keeps up with the writer (fdht_binlog_read's rotation,
\* the reconnect after a failed open of a segment not yet created): each
\* sync thread eventually reads, for good, the segment the writer writes.
ReaderFollowsWriter ==
    \A p \in Peers : <>[](rd[p].st = "up" /\ rd[p].idx = binlogIndex)

\* Segments are contiguous (open_next_writable_binlog, fdht_sync_init):
\* every segment before the writable one has been created, so a sync thread
\* that reaches the end of one finds the next.
SegmentsContiguous == \A s \in 0..binlogIndex - 1 : s \in created

\* The writer resumes where it left off (fdht_sync_init opens the segment
\* named in binlog.index): whenever no writer call is in progress, the
\* segment the writer has open is g_binlog_index, that is the number saved in
\* binlog.index, and the file exists.
WriterOnIndexedSegment ==
    (\A a \in Actors : wop[a].pc = "idle") =>
        /\ wfd = binlogIndex
        /\ indexFile = binlogIndex
        /\ binlogIndex \in created

\* Restart after a crash (spec 8: killing the process after a flush and
\* restarting it retains every flushed record): whenever fdht_sync_init runs
\* after a crash it finds a readable binlog.index and sync.ini and the server
\* starts, so the segments written so far are served again.
\* write_to_binlog_index and write_to_sync_ini_file truncate their file
\* before they write it.
RestartSucceeds == up

=============================================================================
