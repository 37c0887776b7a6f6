---------------------------- MODULE RecvFraming ----------------------------
(***************************************************************************)
(* The receive thread of the FastDHT server (src/server/recv_thread.c):   *)
(* server_sock_read accepts a connection and binds it to a task taken     *)
(* from the free queue; client_sock_read, a one-shot libevent read        *)
(* callback, reads the header, checks pkg_len, grows the task buffer and  *)
(* reads the body, then hands the task to the work queue.  After the      *)
(* response the send side calls recv_add_event to read the next request   *)
(* on the same task, or closes the socket and returns the task.           *)
(*                                                                         *)
(* Bytes are <<c, i, k>> as in Framer; ints are Bits wide and wrap as the *)
(* build does.  One task object is modelled: the free queue of one.       *)
(***************************************************************************)
EXTENDS Integers, Sequences, SequencesExt

CONSTANTS
    Conns, Reqs, MaxReqs, HeaderSize, MaxPkgSize,
    MinBuffSize,    \* g_min_buff_size: the size of a fresh task buffer
    Bits,           \* width of int
    GarbageLens,    \* what buff2int may decode from a header of mixed bytes
    EventAddFails,  \* TRUE: event_add / event_base_set / send_set_event may fail
    AllocFails      \* TRUE: realloc may fail

ASSUME /\ HeaderSize \in Nat \ {0} /\ MinBuffSize >= HeaderSize
       /\ MaxPkgSize >= HeaderSize /\ Bits \in Nat \ {0}
       /\ EventAddFails \in BOOLEAN /\ AllocFails \in BOOLEAN

VARIABLES wire, sent, fin, status, handed,
    got,       \* got[c]: bytes of c's stream the server has taken from the socket
    task,      \* the struct task_info
    overflow   \* a recv wrote past the end of the task buffer

vars == <<wire, sent, fin, status, handed, got, task, overflow>>

Abs == INSTANCE Framer WITH wire <- wire, sent <- sent, fin <- fin,
                            status <- status, handed <- handed

NoConn == "none"
Junk == <<NoConn, 0, 0>>   \* a byte nothing of this run wrote (malloc'd memory)

IntMin == -(2 ^ (Bits - 1))
IntMax == 2 ^ (Bits - 1) - 1
\* Conversion of a wider result to int: two's complement truncation.
Wrap(x) == ((x - IntMin) % (2 ^ Bits)) + IntMin

Pending(c) == sent[c] - got[c]

\* recv(): the next n bytes of c's stream.
NextBytes(c, n) == SubSeq(Abs!Stream(c), got[c] + 1, got[c] + n)

\* The bytes bs written at offset o of buffer d; what lies past its end is
\* lost to the heap.
WriteAt(d, o, bs) ==
    [j \in 1..Len(d) |-> IF o < j /\ j <= o + Len(bs) THEN bs[j - o] ELSE d[j]]

\* FDHTProtoHeader at the start of the buffer: pkg_len and keep_alive are
\* those of one request when all its header bytes are there, else anything.
WholeHeader(d) ==
    /\ d[1] # Junk
    /\ \A k \in 1..HeaderSize : d[k] = <<d[1][1], d[1][2], k>>
HdrReq(d) == wire[d[1][1]][d[1][2]]
PkgLens(d) == IF WholeHeader(d) THEN {HdrReq(d).len} ELSE GarbageLens
\* keep_alive of a header this run did not write is what the malloc'd bytes
\* held: fixed for the buffer, chosen when it was allocated.
KeepOf(t) == IF WholeHeader(t.data) THEN HdrReq(t.data).keep ELSE t.junkKeep

\* free_queue_push: the task goes back with offset and length cleared.
FreeQueuePush(t) == [t EXCEPT !.conn = NoConn, !.st = "free", !.offset = 0, !.length = 0]

\* close(fd); free_queue_push(pTask)
CloseAndFree(c, t) ==
    /\ status' = [status EXCEPT ![c] = "closed"]
    /\ task' = FreeQueuePush(t)

-----------------------------------------------------------------------------

Init ==
    /\ Abs!AbsInit
    /\ got = [c \in Conns |-> 0]
    /\ \E junkKeep \in BOOLEAN :
          task = [conn |-> NoConn, st |-> "free", offset |-> 0, length |-> 0,
                  size |-> MinBuffSize, data |-> [j \in 1..MinBuffSize |-> Junk],
                  junkKeep |-> junkKeep]
    /\ overflow = FALSE

\* The clients, as in the abstract specification.
Client(c) ==
    /\ Abs!Connect(c) \/ Abs!Send(c) \/ Abs!Hang(c)
    /\ UNCHANGED <<got, task, overflow>>

\* server_sock_read: accept, pop a task (none while it is in use), register
\* the read event.
ServerSockRead(c) ==
    /\ status[c] = "backlog"
    /\ \/ /\ task.st # "free"
          /\ status' = [status EXCEPT ![c] = "closed"]
          /\ UNCHANGED task
       \/ /\ task.st = "free"
          /\ status' = [status EXCEPT ![c] = "open"]
          /\ task' = [task EXCEPT !.conn = c, !.st = "wait"]
       \/ /\ task.st = "free" /\ EventAddFails
          /\ CloseAndFree(c, [task EXCEPT !.conn = c])
    /\ UNCHANGED <<wire, sent, fin, handed, got, overflow>>

\* libevent runs client_sock_read once the socket is readable.
SockReadable ==
    /\ task.st = "wait"
    /\ Pending(task.conn) > 0 \/ fin[task.conn]
    /\ task' = [task EXCEPT !.st = "read"]
    /\ UNCHANGED <<wire, sent, fin, status, handed, got, overflow>>

\* client_sock_read called with EV_TIMEOUT: a connection idle at a request
\* boundary whose header says keep_alive waits again, any other is closed.
SockTimeout ==
    LET c == task.conn
    IN /\ task.st = "wait" /\ Pending(c) = 0 /\ ~fin[c]
       /\ \/ task.offset = 0 /\ KeepOf(task) /\ UNCHANGED vars
          \/ task.offset = 0 /\ KeepOf(task) /\ EventAddFails /\ CloseAndFree(c, task)
          \/ ~(task.offset = 0 /\ KeepOf(task)) /\ CloseAndFree(c, task)
       /\ UNCHANGED <<wire, sent, fin, handed, got, overflow>>

\* Mutant: the package counted complete only past its length.
AdvanceLate(c, t, o1) ==
    IF o1 > t.length
    THEN /\ task' = [t EXCEPT !.offset = o1, !.st = "work"]
         /\ handed' = Append(handed, [c |-> c, pkg |-> SubSeq(t.data, 1, Min({t.length, t.size}))])
    ELSE /\ task' = [t EXCEPT !.offset = o1]
         /\ UNCHANGED handed

\* After offset += bytes: hand the task over when the package is complete,
\* else read on.
Advance(c, t, o1) ==
    IF o1 >= t.length
    THEN /\ task' = [t EXCEPT !.offset = o1, !.st = "work"]
         /\ handed' = Append(handed, [c |-> c, pkg |-> SubSeq(t.data, 1, Min({t.length, t.size}))])
    ELSE /\ task' = [t EXCEPT !.offset = o1]
         /\ UNCHANGED handed

\* Mutant: the g_max_pkg_size check left out.
PkgLenOkUnchecked(v) == TRUE

\* length = pkg_len + sizeof(FDHTProtoHeader), within g_max_pkg_size.
PkgLenOk(v) == Wrap(v + HeaderSize) <= MaxPkgSize

\* recv() returned n > 0 bytes, written at the task's offset.
Received(c, t, n) ==
    LET o  == t.offset
        d1 == WriteAt(t.data, o, NextBytes(c, n))
        o1 == Wrap(o + n)
        t1 == [t EXCEPT !.data = d1]
    IN /\ got' = [got EXCEPT ![c] = @ + n]
       /\ overflow' = (overflow \/ o + n > t.size)
       /\ \/ /\ t.length = 0 /\ o1 < HeaderSize
             /\ \/ task' = [t1 EXCEPT !.offset = o1, !.st = "wait"] /\ UNCHANGED status
                \* event_add failed: the task is returned, then offset += bytes
                \/ /\ EventAddFails
                   /\ status' = [status EXCEPT ![c] = "closed"]
                   /\ task' = [FreeQueuePush(t1) EXCEPT !.offset = @ + n]
             /\ UNCHANGED handed
          \/ /\ t.length = 0 /\ o1 >= HeaderSize
             /\ \E v \in PkgLens(d1) :
                   \/ v < 0 /\ CloseAndFree(c, t1) /\ UNCHANGED handed
                   \/ /\ v >= 0 /\ ~PkgLenOk(v)
                      /\ CloseAndFree(c, t1) /\ UNCHANGED handed
                   \/ /\ v >= 0 /\ PkgLenOk(v)
                      /\ Advance(c, [t1 EXCEPT !.length = Wrap(v + HeaderSize)], o1)
                      /\ UNCHANGED status
          \/ /\ t.length # 0
             /\ Advance(c, t1, o1)
             /\ UNCHANGED status

\* Mutant: the buffer grown one byte short.
ReallocSizeShort(size, rb) == Wrap(size + rb - 1)

\* realloc(pTask->data, pTask->size + recv_bytes)
ReallocSize(size, rb) == Wrap(size + rb)

\* One pass of the while loop of client_sock_read: size the buffer for the
\* rest of the header or package, recv, and act on the result.
SockReadStep ==
    LET c    == task.conn
        o    == task.offset
        rb   == IF task.length = 0 THEN Wrap(HeaderSize - o) ELSE Wrap(task.length - o)
        grow == Wrap(o + rb) > task.size
        sz   == IF grow THEN ReallocSize(task.size, rb) ELSE task.size
        t0   == [task EXCEPT !.size = sz,
                   !.data = task.data \o [j \in 1..(sz - task.size) |-> Junk]]
        \* recv_bytes, converted to size_t
        cap  == IF rb < 0 THEN Pending(c) ELSE rb
    IN /\ task.st = "read"
       /\ \/ /\ grow /\ AllocFails
             /\ CloseAndFree(c, task)
             /\ UNCHANGED <<got, overflow, handed>>
          \/ /\ Pending(c) = 0 /\ ~fin[c]
             /\ \/ task' = [t0 EXCEPT !.st = "wait"] /\ UNCHANGED status
                \/ EventAddFails /\ CloseAndFree(c, t0)
             /\ UNCHANGED <<got, overflow, handed>>
          \/ /\ Pending(c) = 0 /\ fin[c]
             /\ CloseAndFree(c, t0)
             /\ UNCHANGED <<got, overflow, handed>>
          \/ /\ Pending(c) > 0
             /\ \E n \in 1..Min({cap, Pending(c)}) : Received(c, t0, n)
       /\ UNCHANGED <<wire, sent, fin>>

\* Mutant: offset not cleared for the next request.
RecvAddEventNoReset ==
    LET t == [task EXCEPT !.length = 0]
    IN \/ task' = [t EXCEPT !.st = "wait"] /\ UNCHANGED status
       \/ EventAddFails /\ CloseAndFree(task.conn, t)

\* recv_add_event: clear offset and length and wait for the next request.
RecvAddEvent ==
    LET t == [task EXCEPT !.offset = 0, !.length = 0]
    IN \/ task' = [t EXCEPT !.st = "wait"] /\ UNCHANGED status
       \/ EventAddFails /\ CloseAndFree(task.conn, t)

\* The work and send threads answer the request, then keep the connection
\* (recv_add_event) or close it and return the task.
Respond ==
    /\ task.st = "work"
    /\ RecvAddEvent \/ CloseAndFree(task.conn, task)
    /\ UNCHANGED <<wire, sent, fin, handed, got, overflow>>

Next ==
    \/ \E c \in Conns : Client(c) \/ ServerSockRead(c)
    \/ SockReadable \/ SockTimeout \/ SockReadStep \/ Respond

Spec == Init /\ [][Next]_vars

\* The event loop runs every ready callback, its timers fire, and the work
\* and send threads answer every task handed to them.  Clients are not
\* obliged to do anything.
FairSpec ==
    /\ Spec
    /\ \A c \in Conns : WF_vars(ServerSockRead(c))
    /\ WF_vars(SockReadable) /\ WF_vars(SockReadStep)
    /\ WF_vars(SockTimeout) /\ WF_vars(Respond)

-----------------------------------------------------------------------------
(* Properties *)

TypeOK ==
    /\ task.conn \in Conns \cup {NoConn}
    /\ task.st \in {"free", "wait", "read", "work"}
    /\ (task.st = "free") = (task.conn = NoConn)
    /\ task.size \in MinBuffSize..IntMax /\ Len(task.data) = task.size
    /\ task.offset \in 0..task.size /\ task.length \in IntMin..IntMax
    /\ task.junkKeep \in BOOLEAN
    /\ \A c \in Conns : got[c] \in 0..sent[c]

\* The buffer growth in client_sock_read (realloc by recv_bytes when
\* offset + recv_bytes > size) keeps every recv() inside the task buffer,
\* across requests, reused tasks and every failure path.
NoHeapOverflow == ~overflow

\* client_sock_read implements the framing contract: it hands to the work
\* queue exactly the requests of the connection, whole, in order, only when
\* complete and of an acceptable length.
FramerRefined == Abs!AbsSpec

\* Every request a client sends completely is handed over, unless the server
\* closes the connection: the read event is always re-armed, and a task
\* handed to the workers comes back.
EventuallyHandled ==
    \A c \in Conns : sent[c] = Len(Abs!Stream(c))
                       ~> (status[c] = "closed" \/ Abs!HandedCount(c) = Len(wire[c]))

=============================================================================
