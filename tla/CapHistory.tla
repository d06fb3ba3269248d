----------------------------- MODULE CapHistory ------------------------------
(*****************************************************************************)
(* namespace-history.ts: who may use a namespace, read from its events while *)
(* capabilities go on being minted and revoked.                              *)
(*                                                                           *)
(* A history is one request of two streams, the Minted and the Revoked       *)
(* events of all namespaces, fetched concurrently page by page; each page    *)
(* comes from a full node whose index may trail the ledger.  A second event  *)
(* for a capability that already has one (an admin's mark, then a burn)      *)
(* changes no row's status, and is left out.                                 *)
(*****************************************************************************)
EXTENDS Namespace, FiniteSets, SequencesExt

CONSTANTS
  Request,        \* requests for a history
  AdminOf,        \* the Admin capability of each namespace
  PageSize,       \* events per queryEvents page (50)
  MaxLag          \* bound: events a node's index may be behind the ledger

ASSUME HistoryConstants ==
  /\ IsFiniteSet(NamespaceId)
  /\ AdminOf \in [NamespaceId -> CapId]
  /\ PageSize \in Nat \ {0} /\ MaxLag \in Nat

VARIABLES
  ledger,         \* of each event type: capabilities in the order of their events
  request         \* the state of each request

historyVars == <<ledger, request>>

Stream == {"minted", "revoked"}
NoRequest == [stage |-> "none"]
Unread == [cursor |-> 0, rows |-> {}, more |-> TRUE, horizon |-> 0]

\* The namespace an event names, which for a Revoked event is the admin's.
Event(n, c) == [namespace_id |-> n, cap_id |-> c]

-----------------------------------------------------------------------------
\* Namespaces that have been created, with their Admin capabilities.
ChainInit ==
  \E owner \in Address, names \in {f \in [NamespaceId -> Name] : IsInjective(f)} :
    LET admins == {AdminOf[n] : n \in NamespaceId}
        nsOf == [c \in admins |-> CHOOSE n \in NamespaceId : AdminOf[n] = c]
    IN
    /\ registry = [version |-> VERSION, namespace_index |->
         [key \in {<<owner, names[n]>> : n \in NamespaceId} |->
            CHOOSE n \in NamespaceId : names[n] = key[2]]]
    /\ namespaces = [n \in NamespaceId |->
         [owner |-> owner, name |-> names[n], namespace_kind |-> 0,
          active |-> TRUE, revoked |-> {}, version |-> VERSION]]
    /\ caps = [c \in admins |-> [kind |-> "Admin", namespace_id |-> nsOf[c], owner |-> owner]]
    /\ minted = [c \in admins |-> [kind |-> "Admin", namespace_id |-> nsOf[c]]]
    /\ revokedLog = {}
    /\ ledger = [minted |-> SetToSeq({Event(nsOf[c], c) : c \in admins}), revoked |-> <<>>]
    /\ request = [q \in Request |-> NoRequest]

\* A transaction appends its events to the ledger.
Logged ==
  ledger' = [minted |-> ledger.minted \o
               SetToSeq({Event(minted'[c].namespace_id, c) : c \in DOMAIN minted' \ DOMAIN minted}),
             revoked |-> ledger.revoked \o
               SetToSeq({Event(p[1], p[2]) : p \in revokedLog' \ revokedLog})]

-----------------------------------------------------------------------------
\* fetchNamespaceCapabilityHistory.
Asked(n) ==
  [stage |-> "reading", namespaceId |-> n, minted |-> Unread, revoked |-> Unread,
   begun |-> [s \in Stream |-> Len(ledger[s])]]

\* The requests when the ones under way are aborted.
Failed == [stage |-> "failed"]
Aborted == [q \in Request |-> IF request[q].stage = "reading" THEN Failed ELSE request[q]]

\* queryCapabilityEvents: one round of its loop, from a node whose index holds h
\* events.
Page(s, cursor, h) ==
  SubSeq(ledger[s], cursor + 1, IF h < cursor + PageSize THEN h ELSE cursor + PageSize)

Kept_OfAll(page, n) == {e.cap_id : e \in Range(page)}               \* mutant
Kept_Namespace(page, n) ==                                          \* mutant
  {e.namespace_id : e \in {f \in Range(page) : f.namespace_id = n}}
Kept(page, n) == {e.cap_id : e \in {f \in Range(page) : f.namespace_id = n}}

QueryEvents(q, s, h) ==
  LET scan == request[q][s]
      page == Page(s, scan.cursor, h)
  IN
  /\ request[q].stage = "reading" /\ scan.more
  /\ h >= scan.cursor /\ h + MaxLag >= Len(ledger[s])
  /\ request' = [request EXCEPT ![q][s] =
       [cursor |-> scan.cursor + Len(page),
        rows |-> scan.rows \cup Kept(page, request[q].namespaceId),
        more |-> h > scan.cursor + Len(page),
        horizon |-> h]]

\* The two event streams are joined; a failed page fails the whole history.
Joined(q) ==
  /\ request[q].stage = "reading"
  /\ \A s \in Stream : ~request[q][s].more
  /\ request' = [request EXCEPT ![q].stage = "done"]

Fails(q) ==
  /\ request[q].stage = "reading"
  /\ request' = [request EXCEPT ![q] = Failed]

\* The rows, and getCapabilities: minted minus revoked.
History(q) ==
  {[capId |-> c, active |-> c \notin request[q].revoked.rows] : c \in request[q].minted.rows}
GetCapabilities(q) == {row.capId : row \in {r \in History(q) : r.active}}

\* Each stream was read to an index at least as new as the ledger was at the start.
UpToDate(q) == \A s \in Stream : request[q][s].horizon >= request[q].begun[s]

\* A capability that exists and that its namespace accepts.
Works(c) == c \in DOMAIN caps /\ AssertCapForNamespace(c, minted[c].namespace_id)

\* What a history says is true: it lists capabilities of its namespace only, and a
\* row marked as revoked never works again, whatever admins of other namespaces have
\* marked.  And it is not older than the request: read from indexes that had caught
\* up, it lists what had been minted, and nothing revoked by then is active, although
\* the two streams are read at different moments (namespace-history.ts 54-134).
HistoryIsRight ==
  \A q \in Request : request[q].stage = "done" =>
    LET n == request[q].namespaceId
        earlier(s) == {e.cap_id : e \in {f \in Range(SubSeq(ledger[s], 1, request[q].begun[s])) :
                                           f.namespace_id = n}}
    IN
    /\ \A row \in History(q) : /\ minted[row.capId].namespace_id = n
                               /\ ~row.active => ~Works(row.capId)
    /\ UpToDate(q) =>
         /\ earlier("minted") \subseteq {row.capId : row \in History(q)}
         /\ GetCapabilities(q) \cap earlier("revoked") = {}
=============================================================================
