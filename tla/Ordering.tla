------------------------------ MODULE Ordering -------------------------------
(******************************************************************************)
(* Sorting and filtering of positions in a log.  SetToSortSeq and SelectSeq   *)
(* of the community and standard modules do the same, but are beyond what the *)
(* proof system can expand.                                                   *)
(******************************************************************************)
EXTENDS Naturals, FiniteSets

\* The members of a finite set, each once, in an order that is strict and total on it.
InOrder(S, Precedes(_, _)) ==
  CHOOSE s \in [1..Cardinality(S) -> S] :
    \A i, j \in 1..Cardinality(S) : i < j => Precedes(s[i], s[j])
=============================================================================
