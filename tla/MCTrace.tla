------------------------------- MODULE MCTrace ------------------------------
(***************************************************************************)
(* One namespace whose admin can mint, revoke, deactivate and burn at any  *)
(* moment, two sessions written through the same capability, and enough    *)
(* calls for a session of two links beside a session of one.  Status 0 is  *)
(* refused by both closes, 4 by close_session only.                        *)
(***************************************************************************)
EXTENDS Trace, TLC

CONSTANTS s1, s2, k1, k2, k3

Symmetry == Permutations({s1, s2}) \cup Permutations({k1, k2, k3})
=============================================================================
