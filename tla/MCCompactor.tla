--------------------------- MODULE MCCompactor -----------------------------
EXTENDS Compactor

\* Record shapes over two keys: a 1-unit and a 2-unit set of k1 (so that an
\* old offset can land inside a record of the rewritten segment), a delete
\* of k1, a live set of k2 and a set of k2 that has expired.
MCShapes ==
    {[key |-> "k1", op |-> "set", exp |-> FALSE, len |-> 1],
     [key |-> "k1", op |-> "set", exp |-> FALSE, len |-> 2],
     [key |-> "k1", op |-> "del", exp |-> FALSE, len |-> 1],
     [key |-> "k2", op |-> "set", exp |-> FALSE, len |-> 1],
     [key |-> "k2", op |-> "set", exp |-> TRUE,  len |-> 1]}

\* The same without the expired record, for the runs that need more steps.
MCShapesLive == MCShapes \ {[key |-> "k2", op |-> "set", exp |-> TRUE, len |-> 1]}

\* A 2-unit set of k1, a delete of k1 and a live set of k2: enough for a
\* walk of two rows in either order and for an offset inside a record.
MCShapesSmall ==
    {[key |-> "k1", op |-> "set", exp |-> FALSE, len |-> 2],
     [key |-> "k1", op |-> "del", exp |-> FALSE, len |-> 1],
     [key |-> "k2", op |-> "set", exp |-> FALSE, len |-> 1]}

MCKeys == {"k1", "k2"}
=============================================================================
