--------------------------- MODULE MCTraceVerifier --------------------------
(***************************************************************************)
(* Three calls spread over two sessions, so that pages of two hold rows of *)
(* both and a session's rows span pages.  With one payload, two calls with *)
(* the same parent have the same content.  Output and StatusArg are empty: *)
(* closing a call emits nothing the verifier reads, and sealing a session  *)
(* only stops its writers, as an active session left alone does.  So does  *)
(* losing authority, which the bound WritersStay leaves out.               *)
(***************************************************************************)
EXTENDS TraceVerifier

CONSTANTS s1, s2, k1, k2, k3, c1, c2

WritersStay ==
  /\ revokedLog = {}
  /\ \A n \in DOMAIN namespaces : namespaces[n].active
  /\ \A c \in DOMAIN caps : caps[c].kind # "ReadOnly"

Symmetry ==
  Permutations({s1, s2}) \cup Permutations({k1, k2, k3}) \cup Permutations({c1, c2})
=============================================================================
