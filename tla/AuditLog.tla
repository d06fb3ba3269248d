------------------------------ MODULE AuditLog ------------------------------
(***************************************************************************)
(* What the trace contract promises, without hashes or authority: every    *)
(* session is a log that only grows, by one entry at a time, until it is   *)
(* sealed at its length; and every entry gets at most one outcome, before  *)
(* or after the sealing.  Trace implements it.                             *)
(***************************************************************************)
EXTENDS Naturals, Sequences, Objects

CONSTANTS LogId, Outcome

VARIABLES
  log,        \* the entries of each session, in order
  sealed,     \* the length at which a session was sealed
  outcome     \* the outcome of each settled entry

auditVars == <<log, sealed, outcome>>

Init == log = Empty /\ sealed = Empty /\ outcome = Empty

Open(s) ==
  /\ s \notin DOMAIN log
  /\ log' = Put(log, s, <<>>)
  /\ UNCHANGED <<sealed, outcome>>

\* The new log differs from the old one in one entry, at the end of s.
Extend(s) ==
  /\ s \in DOMAIN log \ DOMAIN sealed
  /\ DOMAIN log' = DOMAIN log
  /\ Len(log'[s]) = Len(log[s]) + 1
  /\ log' = [log EXCEPT ![s] = Append(@, log'[s][Len(log'[s])])]
  /\ UNCHANGED <<sealed, outcome>>

\* The i-th entry of s gets its outcome.
Settle(s, i, o) ==
  /\ log[s][i].call_id \notin DOMAIN outcome
  /\ outcome' = Put(outcome, log[s][i].call_id, o)
  /\ UNCHANGED <<log, sealed>>

Seal(s) ==
  /\ s \in DOMAIN log \ DOMAIN sealed
  /\ sealed' = Put(sealed, s, Len(log[s]))
  /\ UNCHANGED <<log, outcome>>

Next ==
  \/ \E s \in LogId : Open(s) \/ Extend(s) \/ Seal(s)
  \/ \E s \in DOMAIN log : \E i \in DOMAIN log[s], o \in Outcome : Settle(s, i, o)

Spec == Init /\ [][Next]_auditVars
=============================================================================
