---------------------------- MODULE MCTraceFlush ----------------------------
(***************************************************************************)
(* Two threads flush through two runs: enough for a dump whose list the    *)
(* other flush empties, and with three calls that dump can skip one. In    *)
(* the liveness run there is one thread; its second run may overlap one    *)
(* that a timeout left behind. Threads and runs are interchangeable: the   *)
(* safety runs use the symmetry, the liveness run must not.                *)
(***************************************************************************)
EXTENDS TraceFlush, TLC

CONSTANTS f1, f2, r1, r2, r3

Interchangeable == Permutations(Flusher) \cup Permutations(Run)
=============================================================================
