--------------------------- MODULE MCRecvFraming ---------------------------
EXTENDS RecvFraming, TLC

\* Request kinds for a header of 2 bytes and packages of at most 3: an empty
\* body asking keep-alive, a 1-byte body, and a body too large to accept.
MCReqs == {[len |-> 0, keep |-> TRUE], [len |-> 1, keep |-> FALSE],
           [len |-> 2, keep |-> FALSE]}

\* A request whose pkg_len is INT_MAX of a 5-bit int.
MCOverflowReqs == {[len |-> 15, keep |-> FALSE], [len |-> 0, keep |-> TRUE]}

\* Values buff2int may return for a header made of bytes of two requests.
MCGarbageLens == {-1, 0, 1, 2}

Symmetry == Permutations(Conns)
=============================================================================
