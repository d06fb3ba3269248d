----------------------------- MODULE MCNamespace ----------------------------
(***************************************************************************)
(* Two namespaces, two owners and one name: enough for a name collision, a *)
(* foreign registration and a revocation across namespaces.  Kinds on both *)
(* sides of KIND_MAX, versions on both sides of VERSION.                   *)
(***************************************************************************)
EXTENDS Namespace, TLC

CONSTANTS a1, a2, x1, n1, n2, c1, c2, c3

Symmetry == Permutations({a1, a2}) \cup Permutations({n1, n2}) \cup Permutations({c1, c2, c3})
=============================================================================
