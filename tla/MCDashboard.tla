----------------------------- MODULE MCDashboard ------------------------------
(*********************************************************************************)
(* Two runtimes and three edits that race or cross; two memories added while the *)
(* list is read.  A day has one session more than is verified, which is the      *)
(* tampered one; the other day is tampered with.  Three reads of one content     *)
(* share a client.                                                               *)
(*********************************************************************************)
EXTENDS Dashboard

CONSTANTS r1, r2, t1, t2, s1, s2, s3, d1, d2, browser, script

DaySessions == [d \in {d1, d2} |-> IF d = d1 THEN <<s1, s2>> ELSE <<s3>>]
Elsewhere == {<<r1, [field |-> "paused", value |-> TRUE]>>}
ListedIn == {s1, s3}
Interchangeable == Permutations(Task) \cup Permutations(Poll)
=============================================================================
