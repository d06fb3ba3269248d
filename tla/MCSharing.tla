------------------------------ MODULE MCSharing ------------------------------
(*****************************************************************************)
(* Two namespaces of one owner, the first of which shares; two runs          *)
(* and two requests, so that a revocation of another namespace's capability, *)
(* an edited field and a late answer all happen.                             *)
(*****************************************************************************)
EXTENDS Sharing

CONSTANTS n1, n2, m1, m2, c1, x1, x2, o1, o2, q1, q2

Admins == [n \in {n1, n2} |-> IF n = n1 THEN m1 ELSE m2]
AnyShared == {"ReadOnly"}
Interchangeable == Permutations(Op) \cup Permutations(Request) \cup Permutations(Name)
=============================================================================
