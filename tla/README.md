# TLA+ models of the FastDHT server

This directory holds TLA+ models of three parts of FastDHT: the server's
binlog replication path (`src/server/sync.c`), the receive thread's request
framing (`src/server/recv_thread.c`) and the offline binlog compactor
(`src/tool/fdht_compress.c`), with a peer reading the segments it rewrites. It also holds the TLC
configurations that check them, and `PROJECT.json`, which maps every
definition to the C lines it models.

## The system

A FastDHT server logs every change to its binlog, and a sync thread per peer
replays the log to that peer. The parts:

* **Binlog writer** (`fdht_binlog_write`, `fdht_binlog_fsync`,
  `fdht_binlog_direct_write`). A record is formatted into a buffer that
  `sync_thread_lock` protects. The buffer is flushed when it is full and,
  from the sync threads, on a timer. A record at least as large as the
  buffer is written directly, with several `write()` calls. When a segment
  passes its maximum size, `write_to_binlog_index` and
  `open_next_writable_binlog` rotate to the next segment `binlog.NNN`. That
  path calls `fdht_sync_destroy`, which flushes again and destroys the mutex.
* **Binlog reader** (`fdht_binlog_read`, `fdht_binlog_reader_skip`). It reads
  one record from the reader's segment and offset. It rotates to the next
  segment at the end of a file. On a partial or malformed record it rewinds.
* **Mark store** (`fdht_reader_init`, `fdht_write_to_mark_file`). Each peer's
  position (segment, offset) and backfill state are kept in a mark file. The
  file is saved every 1000 synced records and on disconnect.
* **Sync threads** (`fdht_sync_thread_entrance`). One thread per peer
  connects, asks the peer for its state (`fdht_sync_req`), then loops:
  * reading records and sending them (`fdht_sync_data`);
  * at the end of the log: reporting that backfill is done, sending
    heartbeats and flushing the writer's buffer on a timer;
  * on a failure: rewinding and disconnecting.
* **Receive thread** (`server_sock_read`, `client_sock_read`,
  `recv_add_event`).
  * A connection is accepted and bound to a task popped from the free queue.
  * The one-shot read callback reads the header, checks `pkg_len`, grows the
    buffer with `realloc` and reads the body.
  * The complete task goes to the work queue.
  * After the answer, the send side re-arms the read event, or closes the
    socket and returns the task.
  * Reads time out: a connection idle at a request boundary whose header
    said keep-alive waits again, and any other is closed.
* **Compactor** (`fdht_compress`, an offline tool). `main` picks closed
  segments: all of them, one given index, or in "auto" mode those from the
  number in `binlog.compressed.index` on, writing the next number after each.
  `compress_binlog_file` counts the records, folds them into a key index
  (a delete or an expired record removes the key, a set replaces it), copies
  the surviving records to `binlog.NNN.new` in hash-table order and renames
  that over the segment. Peers' mark files keep byte offsets into the same
  segments.
* **Not under these models**: the hash table, work and send threads and client, of which only
  headers are present (see below).

## Module `Binlog.tla`

Data is abstracted and control is kept. A record is a sequence of *units*
`<<id, k>>`, where unit 1 is the record's header. The record length
`CalcRecordLength` is a unit count drawn from `RecLens`. Offsets count
units. A segment is `files[s]`. The reader's file position `pos` and its
`binlog_offset` (`off`) are kept apart, because the code lets them diverge.

| Variable | Code |
|---|---|
| `files`, `created` | segment files on disk; which exist |
| `binlogIndex`, `indexFile` | `g_binlog_index`; contents of `binlog.index` (`Truncated` between its `O_TRUNC` open and its write) |
| `up` | the server process runs; FALSE once `fdht_sync_init` has refused to start |
| `iniFile` | `data/sync.ini`: absent, truncated (between `write_to_sync_ini_file`'s `O_TRUNC` open and its write) or written |
| `fileSize`, `wfd` | `binlog_file_size`; `g_binlog_fd` (-1 after `fdht_sync_destroy`) |
| `buf` | `binlog_write_cache_buff` |
| `mutex` | `sync_thread_lock`: free, held by a thread, or destroyed |
| `wop[a]` | where thread `a` is inside a writer call (direct write, nested fsync, destroy, open) and the recursion depth |
| `rd[p]`, `mark[p]` | the `BinLogReader` of p's sync thread; its mark file |
| `recs`, `got`, `bad`, `dup`, `start` | history: the append order, records p applied intact, torn, or twice, and where p started |

Actions:
* writer: one per step of a writer call that another thread can interleave
  with: `BinlogWrite`, `DirectWrite` (one `write()` at a time),
  `WriteIndex` (the write after `write_to_binlog_index`'s `O_TRUNC` open,
  which a rotation's first step does), `ReenterFsync`, `CloseAndDestroy`,
  `OpenNext` and `StackOverflow`;
* restart: `Crash` and `Restart` (`fdht_sync_init`). `StartFails` is its
  exit on an empty `binlog.index` or `sync.ini`, after which no thread runs
  again. With `FirstStart = TRUE` the model starts inside the first
  `fdht_sync_init`, before `load_sync_init_data` has written `sync.ini`.
  `SyncIniOpen` and `SyncIniWrite` are the two steps of
  `write_to_sync_ini_file`. Writes and sync threads wait for `Serving`,
  which means the start has finished.
* sync thread: one action per branch of its loop: `ReaderInit`,
  `ReaderForward`, `ReaderForwardFail`, `ReaderEnd`, `ReaderRotate` and
  `ReaderError`. `ReaderEof` is `read()` returning 0 at the end of a
  segment. The check of `g_binlog_index` that follows it, made without the
  lock, is a separate step (`ReaderRotate`, or the end-of-log branch of
  `ReaderEnd`), so the writer can flush and rotate in between;
* `Tick`: the clock, which drives the backfill cutoff (`until_timestamp`).

Each action includes every state change its handler makes. For example,
`Fsync` includes the rotation it triggers, and `Disconnect` includes the
mark write.

The mutex is modelled as an error-checking mutex, as fastcommon creates it.
After `pthread_mutex_destroy` the lock calls fail, the code ignores the
failure, and the mutex gives no exclusion. The unbounded recursion of the
re-entrant flush is cut at `MaxDepth` or at `MaxSeg` by `StackOverflow`,
which kills the process and restarts it.

`MCBinlog.tla` adds the symmetry set over peers and appenders. Symmetry is
used only for safety runs.

## Modules `Framer.tla` and `RecvFraming.tla`

`Framer` is the abstract contract of the receive side.
* Each client has a fixed list of requests `wire[c]` and writes its byte
  stream one byte at a time (`sent[c]`).
* A byte is `<<c, i, k>>`: connection, request and position. Positions 1 to
  `HeaderSize` are the header.
* The server may accept, refuse or drop a connection at any time.
* `HandOver` appends the next request of a connection to `handed` only when
  all of it has arrived and `Valid` holds: `pkg_len >= 0` and the whole
  package within `g_max_pkg_size`.

`RecvFraming` is the code. Its variables:

| Variable | Code |
|---|---|
| `task` | the one `struct task_info`: `conn`, `st`, `offset`, `length`, `size` and `data`, plus `junkKeep` |
| `task.st` | free (in the free queue), wait (read event armed), read (in `client_sock_read`), work (at the work and send threads) |
| `got[c]` | bytes the server has taken from c's socket |
| `overflow` | a `recv` wrote past `size` |

* One task stands for the free queue at its limit, so a second connection
  is refused while the task is in use, and a later connection reuses the
  buffer.
* Ints are `Bits` wide and wrap (`Wrap`), as `pkg_len + sizeof(header)`
  does in the code.
* A negative `recv_bytes` is converted to `size_t`, so `recv` may return
  everything pending.
* Bytes nobody wrote are `Junk`. A header made of junk or stale bytes
  decodes to any of `GarbageLens`. Its keep-alive flag is `junkKeep`, which
  is fixed per buffer.
* `SockReadStep` is one pass of the read loop, with every branch: realloc
  failure, `EAGAIN` with re-arm or `event_add` failure, EOF, and data.
  `Received` carries the header checks and the hand-over (`Advance`).
* `Respond` stands for the work and send threads, whose source is not
  present. It calls `recv_add_event` or closes.
* `FreeQueuePush` is assumed to clear offset and length, since the task
  queue is not under `src/`.

The refinement:
* `Abs == INSTANCE Framer WITH ...` maps the shared variables one to one.
* `FramerRefined == Abs!AbsSpec` is checked as a property.
* A step of the code either is a `Framer` step (an accept, refuse, drop or
  hand-over) or leaves the abstract state unchanged.

## Module `Compactor.tla`

`Compactor` models the tool and one peer's sync reader over the same files.
A record is `[id, key, op, exp, len]`, where `exp` says whether the record
has expired when the tool runs and `len` is its size in units. `MCCompactor`
gives the record shapes.

| Variable | Code |
|---|---|
| `orig` | the segments as the server wrote them (history, never changed) |
| `files`, `newf` | `binlog.NNN` on disk; `binlog.NNN.new` |
| `cidx` | `binlog.compressed.index`: `Absent`, `Truncated` (0 bytes) or a number |
| `tool` | the process: next step, mode, current and last segment, rows left to walk, value to write, times started |
| `rd`, `mark`, `store` | the peer's `BinLogReader` (with the file its descriptor holds), its mark file, and its table |

The actions and their code:
* `Launch` is `main` up to the loop, with `BinlogIndexRead` for
  `get_current_binlog_index` (an exit if it fails) and `AutoStart` for
  `get_binlog_compressed_index`.
* `IdxOpen` and `IdxWrite` are the `O_TRUNC` open and the `write` of
  `write_to_binlog_compressed_index`, as two steps.
* `CompressFile` is `compress_binlog_file` up to `hash_walk`. That covers
  both read passes, the index `BuildIndex` (fold of `IndexRecord`), the
  `ENOENT` exit on an empty segment and the open of `.new`.
* `WalkRow` is one `compress_write_to_binlog` call. The row is any row of
  the index not yet written.
* `Rename` is the rename. `AfterSegment` is the rest of the loop body.
* `CrashTool` kills the tool between two steps. Every I/O call may fail when
  `IoFails` holds.
* The reader's actions are `ROpen` (`fdht_open_readable_binlog`), `RRead`,
  `RRotate`, `RGarbage` (an offset inside a record), `RSave` and
  `RDisconnect` (`fdht_sync_thread_entrance`). An open descriptor keeps the
  file it opened, so a rename does not change `rd.f`.
  Every record is taken to be a source record, which the sync thread
  always forwards. The replica-op filter is modelled in `Binlog`.

`IsCompaction` is the reference against which the code's fold is checked:
the latest live set of each key of the segment, once each, in any order.

## Runs

Every Binlog cfg has one peer. A second peer only permutes the same interleavings,
because sync threads do not share state except the writer.

| Run | Module | Expect | Bounds | Shows |
|---|---|---|---|---|
| `progress` | Binlog | pass | fair spec, first start, every record written directly and filling a 3-unit segment, up to segment 3 | `MarkNeverAheadInSegment`, `MarkAtBoundary`, `DeliveredOnce` and `WriterOnIndexedSegment` across rotations, flushes and disconnects, and `ReaderFollowsWriter`: each sync thread ends up reading the writable segment |
| `crash` | Binlog | pass | first start, crashes at any step, network failures, 3 buffered appends of 2 units into 3-unit segments, up to segment 4, nested rotation depth 2 | TypeOK, and the mark invariants survive failed requests and restart from `binlog.index` and mark files |
| `large_record_order` | Binlog | violation | | `LogOrder`: a large record overtakes buffered ones (sync.c:1156) |
| `rotation_gap` | Binlog | violation | 2-unit segments, depth 2 | `SegmentsContiguous`: re-entrant flush skips a segment (sync.c:348) |
| `eof_rotation_skip` | Binlog | violation | buffered records into 2-unit segments, no failures | `MarkNeverAhead`: a record flushed between the reader's end-of-file `read()` and its index check is skipped (sync.c:1222) |
| `index_truncated` | Binlog | violation | crashes, 2-unit segments | `RestartSucceeds`: a kill between truncating and writing `binlog.index` stops the server from starting (sync.c:302) |
| `unlocked_tear` | Binlog | violation | 1 appender and a timer flush | `DeliveredIntact`: mutex destroyed on rotation (sync.c:625) |
| `framing` | RecvFraming | pass | 2 connections, up to 2 requests of 0-2 body bytes each, header 2, buffer 2, max package 3, 8-bit ints, realloc failures | TypeOK, `NoHeapOverflow`, and `FramerRefined`: the code implements `Framer` |
| `handled` | RecvFraming | pass | fair spec, 1 connection, every `event_add` and realloc failure | `EventuallyHandled` |
| `length_overflow` | RecvFraming | violation | 5-bit ints, a request of length 15 | `FramerRefined`: `pkg_len + header` wraps negative (recv_thread.c:308) |
| `compact` | Compactor | pass | 2 closed segments of 1-2 records, 3 record shapes over 2 keys, 2 tool runs in any mode, I/O failures and kills, a peer starting at any record boundary | TypeOK; `CompactionSound`: every segment is the original or its exact compaction; `IndexSound`: the compressed index never runs ahead of the compacted segments |
| `compact_stale_mark` | Compactor | violation | one "all" run, no failures | `PeerConverges`: a peer resuming at a saved offset into a rewritten segment skips a delete (fdht_compress.c:768) |

The bounds are chosen to make each case happen:
* a length of 3 with a buffer of 3 forces the direct-write path, and a
  length of 2 forces buffering;
* a segment size of 2-4 units rotates after one or two records;
* `MaxDepth` 2 reaches the nested flush;
* `MarkEvery` 2 stands in for the 1000-record mark period, so mark saves
  happen both between and at period boundaries;
* in RecvFraming, a header of 2 with a buffer of 2 and bodies of 0-2 bytes
  makes the buffer grow on some requests and not on others;
* a body of 2 exceeds the maximum package of 3, so the refusal path runs;
* keep-alive and close-after requests both occur, and two connections make
  the task be refused, then reused with stale contents;
* 8 bits is enough for the pass runs, because no sum reaches 127. The
  overflow run narrows ints to 5 bits, so that `15 + 2` wraps exactly as
  `pkg_len` near `INT_MAX` does with 32 bits;
* in Compactor, a 2-unit set of k1, a delete of k1 and a set of k2 give
  segments with nothing, one or two surviving rows (so the walk order
  matters), an empty compaction, and old offsets that land past the end
  of a rewritten segment or inside one of its records. Two tool runs reach
  auto after a killed auto (an empty or a stale index) and "all" over
  segments already compacted.

The crash and rotation_gap cfgs do not check deadlock. A kill or a stack
overflow while `binlog.index` is truncated stops the server for good, as the
code does, and such a state has no successor.

Every action and every disjunct of `Next` fires in the pass runs. The
crash run covers network failures and heartbeats. The crash run
covers nested rotation and the `wfd = -1` branches. The
handled run covers the `event_add` failure branches of RecvFraming, and the
framing run covers the refused second connection.

## Fairness

`Fairness` (used by `progress`) is weak fairness on every step of the sync
threads' loops, `ReaderEof` included, on the two steps of writing `sync.ini`, and on
every step of a writer call already in progress. These threads loop forever
with `usleep` and have no other way to exit. New appends, the clock and
crashes are not fair, because clients and failures are not obliged to occur.

RecvFraming's `FairSpec` is weak fairness on:
* `ServerSockRead`, because the listening event fires while a connection
  waits in the backlog;
* `SockReadable` and `SockReadStep`, because libevent runs a ready callback;
* `SockTimeout`, because the read event is registered with a timeout;
* `Respond`, because the work and send threads answer every task.

Clients are not fair.

Compactor has no fairness and no liveness property, because the operator
need not start the tool and the peer need not reconnect.

## Findings

These are detailed in `PROJECT.json`:
1. Rotation re-enters `fdht_binlog_fsync` through `fdht_sync_destroy`. It
   writes the buffer twice, advances the index twice and overflows the stack.
   TLC's trace ends with `g_binlog_index` at 2 while segment 1 was never
   created (`SegmentsContiguous`), so a reader can wait forever for a
   segment that never exists.
2. A large record is written without flushing the buffer first. The spec
   says the buffer is flushed to preserve ordering.
3. Rotation destroys the writer mutex. Afterwards a timer flush can tear a
   direct write without any crash.
4. `pkg_len + sizeof(FDHTProtoHeader)` wraps negative for a `pkg_len` near
   `INT_MAX`. It passes the `g_max_pkg_size` check, and the task is handed to
   the work queue at once with a negative length.
5. `fdht_binlog_read` takes `read() == 0` for the end of segment s and only
   then tests `binlog_index < g_binlog_index`, without the lock. If the
   writer flushes a record into s and rotates between the two, the reader
   moves to s+1 at offset 0 and writes that mark, and the record is never
   sent (`MarkNeverAhead`). TLC's trace has 6 states: a buffered append, the
   reader at the end of empty segment 0, a second append that flushes the
   first record into segment 0 and rotates, and the reader's rotation. The
   race is reachable in the `crash` and `progress` configurations too, so
   those runs check the loss-free property only within the mark's segment
   (`MarkNeverAheadInSegment`), and no pass run claims eventual delivery.
6. The compactor rewrites a closed segment while peers' mark files hold
   byte offsets into it. A peer that reconnects seeks to its old offset.
   That offset now lies past records it had not read, or inside a record,
   so the peer skips a delete and keeps a key the server deleted. The spec
   says that a reader can resume at any (segment, offset) pair it has
   seen, and that the compactor runs independently over closed segments.
   `PeerConverges` is also broken another way, by resurrection. Compaction
   is per segment, so it drops a delete whose set lives in an earlier
   segment, and a peer that backfills from segment 0 gets the key back.
   Adding `CONSTRAINT mark.o = 0` to the cfg makes TLC report that trace.
7. `write_to_binlog_index` truncates `binlog.index` and only then writes the
   new number. If the process is killed between the two steps of a
   rotation, `fdht_sync_init` reads 0 bytes on restart and exits with EIO,
   on every later start too. So no flushed record is served again, although
   the spec says a restart after a successful flush keeps every flushed
   record. TLC's trace takes 4 states: two appends, the second of which
   rotates, then the kill. `write_to_sync_ini_file` has the same window on
   the first start (sync.c:1843). An empty `sync.ini` lacks
   `INIT_ITEM_SERVER_JOIN_TIME`, so `load_sync_init_data` returns ENOENT on
   every later start. `index_truncated.cfg` with `FirstStart = TRUE` makes
   TLC report that 3-state trace instead.

The idle timeout takes keep-alive from whatever header is in the reused
buffer (recv_thread.c:176), so a connection that never sent anything can be
kept open forever, holding the only task. The model reaches this
(`SockTimeout`), but the liveness property that states it had to give its
run to finding 5, because the project keeps at most 12 runs.

A crash between the `write()` calls of a direct write leaves a torn record
(sync.c:567). It is listed as a hazard that `DeliveredIntact` covers.
When `event_add` fails after part of a header was read, the task goes back
to the free queue and only then is its offset advanced (recv_thread.c:290).
It is listed as a hazard that `FramerRefined` covers. `framing.cfg` with
`EventAddFails = TRUE` shows it.

## Not modelled, and the plan

* Write errors of the log file, such as the buffer being dropped at
  sync.c:1026, failed writes of `binlog.index`, which the code makes
  fatal (`fdht_terminate`), and a failed write of `sync.ini`. The first
  start's `write_to_binlog_index`, which has the same window as a rotation's,
  is taken as done before the model starts. Writes always succeed in the model.
* The peer's handling of SYNC_NOTIFY and of replica ops.
* `fdht_binlog_reader_skip` (`Skip`) runs within `ReaderInit` as one step.
  Its reads have the same end-of-file race as finding 5, which the model
  shows in the tailing loop only.
* In Compactor, expiry is fixed per record, although a record can expire
  between two runs of the tool. `get_current_binlog_index` either fails
  (`BinlogIndexRead`) or gives the constant `CurIndex`, because the server
  does not write while the tool runs. Two
  effects are reached but not stated: an empty `binlog.compressed.index`
  makes every later auto run fail, and an "all" run stops at a segment
  that compacted to empty.
* The receive thread's event base is used from the send thread
  (`recv_add_event`). Each call is taken as atomic, because the send thread's
  source is not present.
* More than one task in the free queue. One task already reaches the queue
  at its limit and the reuse of a buffer.
* `HashEngine.tla` (spec-modelled, since only `hash.h` is present): refines
  an abstract key-value map by `INSTANCE ... WITH`.
* A replication module that composes the writer, the readers and the peers'
  stores, and checks convergence.
