------------------------------ MODULE MCBinlog ------------------------------
(* Binlog instantiated for TLC; the constants are given in the .cfg files. *)
EXTENDS Binlog, TLC

\* Sync threads are interchangeable, and so are worker threads.
Symmetry == Permutations(Peers) \cup Permutations(Appenders)
=============================================================================
