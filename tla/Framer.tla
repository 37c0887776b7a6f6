------------------------------- MODULE Framer -------------------------------
(***************************************************************************)
(* What the receive side of a FastDHT server connection promises: the     *)
(* byte stream a client sends is cut into its requests, each handed to the *)
(* work queue whole, in order, once it has fully arrived and only if its  *)
(* declared length is acceptable; the server may close a connection at    *)
(* any time.  A request is a header of HeaderSize bytes carrying pkg_len, *)
(* followed by pkg_len body bytes.  RecvFraming refines this module.       *)
(***************************************************************************)
EXTENDS Integers, Sequences, SequencesExt

CONSTANTS
    Conns,        \* client connections, model values
    Reqs,         \* requests a client may send: [len : pkg_len, keep : keep_alive]
    MaxReqs,      \* bound: requests per connection
    HeaderSize,   \* sizeof(FDHTProtoHeader)
    MaxPkgSize    \* g_max_pkg_size

VARIABLES
    wire,     \* wire[c]: the requests client c sends, in order
    sent,     \* sent[c]: bytes of that stream the client has written
    fin,      \* fin[c]: the client has shut down its side
    status,   \* status[c]: "idle", "backlog" (not yet accepted), "open", "closed"
    handed    \* the packages handed to the work queue: [c, pkg]

absVars == <<wire, sent, fin, status, handed>>

\* The bytes of the i-th request of c; a byte is <<c, i, k>>, k <= HeaderSize
\* for the header.
ReqBytes(c, i) == [k \in 1..HeaderSize + wire[c][i].len |-> <<c, i, k>>]
Stream(c) == FlattenSeq([i \in 1..Len(wire[c]) |-> ReqBytes(c, i)])

\* The checks client_sock_read makes on a complete header.
Valid(r) == r.len >= 0 /\ HeaderSize + r.len <= MaxPkgSize

HandedCount(c) == Len(SelectSeq(handed, LAMBDA h : h.c = c))

\* Where the i-th request of c ends in its stream.
End(c, i) == Len(FlattenSeq([j \in 1..i |-> ReqBytes(c, j)]))

AbsInit ==
    /\ wire \in [Conns -> UNION {[1..n -> Reqs] : n \in 1..MaxReqs}]
    /\ sent = [c \in Conns |-> 0]
    /\ fin = [c \in Conns |-> FALSE]
    /\ status = [c \in Conns |-> "idle"]
    /\ handed = <<>>

\* The client side.
Connect(c) ==
    /\ status[c] = "idle"
    /\ status' = [status EXCEPT ![c] = "backlog"]
    /\ UNCHANGED <<wire, sent, fin, handed>>

Send(c) ==
    /\ status[c] \in {"backlog", "open"} /\ ~fin[c]
    /\ sent[c] < Len(Stream(c))
    /\ sent' = [sent EXCEPT ![c] = @ + 1]
    /\ UNCHANGED <<wire, fin, status, handed>>

Hang(c) ==
    /\ status[c] \in {"backlog", "open"} /\ ~fin[c]
    /\ fin' = [fin EXCEPT ![c] = TRUE]
    /\ UNCHANGED <<wire, sent, status, handed>>

\* The server side.
Accept(c) ==
    /\ status[c] = "backlog"
    /\ status' = [status EXCEPT ![c] = "open"]
    /\ UNCHANGED <<wire, sent, fin, handed>>

Refuse(c) ==
    /\ status[c] = "backlog"
    /\ status' = [status EXCEPT ![c] = "closed"]
    /\ UNCHANGED <<wire, sent, fin, handed>>

HandOver(c) ==
    LET i == HandedCount(c) + 1
    IN /\ status[c] = "open"
       /\ i <= Len(wire[c])
       /\ Valid(wire[c][i])
       /\ sent[c] >= End(c, i)
       /\ handed' = Append(handed, [c |-> c, pkg |-> ReqBytes(c, i)])
       /\ UNCHANGED <<wire, sent, fin, status>>

Drop(c) ==
    /\ status[c] = "open"
    /\ status' = [status EXCEPT ![c] = "closed"]
    /\ UNCHANGED <<wire, sent, fin, handed>>

AbsNext ==
    \E c \in Conns : \/ Connect(c) \/ Send(c) \/ Hang(c)
                     \/ Accept(c) \/ Refuse(c) \/ HandOver(c) \/ Drop(c)

AbsSpec == AbsInit /\ [][AbsNext]_absVars

=============================================================================
