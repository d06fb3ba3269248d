--------------------------- MODULE MCLocalRecorders ---------------------------
(*****************************************************************************)
(* Three sessions.  OpenClaw runs in two processes, which is what its wallet *)
(* and target files are about; the SDK's recorder in one that flushes three  *)
(* times, which is what the remembered target is about.  Each process has    *)
(* two contexts, so that runs of agents can overlap in it.                   *)
(*****************************************************************************)
EXTENDS LocalRecorders, TLC

CONSTANTS r1, r2, r3, a1, a2, w1, w2, e1, x1, x2

Interchangeable == Permutations(Run) \cup Permutations(Attempt) \cup Permutations(Context)
Pause == {[field |-> "paused", value |-> TRUE]}
CallBound == [h \in Host |-> IF h = "sdk" THEN 3 ELSE 2]
ProcBound == [h \in Host |-> IF h = "sdk" THEN {w1} ELSE {w1, w2}]
=============================================================================
