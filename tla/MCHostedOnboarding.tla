-------------------------- MODULE MCHostedOnboarding --------------------------
(*****************************************************************************)
(* Two accounts of one wallet, two runs of the onboarding and two approvals: *)
(* enough for a stale lookup, a stale namespace and a second callback.       *)
(*****************************************************************************)
EXTENDS HostedOnboarding, TLC

CONSTANTS a1, a2, f1, f2, d1, d2

Interchangeable == Permutations(Account) \cup Permutations(Flow) \cup Permutations(Delegate)
NoEnv == [delegate |-> {}, accountId |-> {}, embeddingApiKey |-> FALSE, memwalPackageId |-> FALSE]
KeyOnly == [NoEnv EXCEPT !.embeddingApiKey = TRUE]
Environments ==
  {NoEnv, KeyOnly, [KeyOnly EXCEPT !.memwalPackageId = TRUE]}
    \cup {[KeyOnly EXCEPT !.accountId = {a}] : a \in Account}
=============================================================================
