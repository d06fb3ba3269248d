---------------------------- MODULE SharingProofs -----------------------------
(*****************************************************************************)
(* Proofs about Sharing and CapHistory, for any number of namespaces, runs,  *)
(* requests and events, whatever page size and lag of the nodes.             *)
(*                                                                           *)
(* They rest on NsInv of the contract: a run that is not stale would still   *)
(* succeed because its namespace has one Admin capability (OneAdminCap), and *)
(* what the ledger has revoked no longer works (EventsTellAuthority).  The   *)
(* ledger says what was minted and revoked (LedgerOK), a request has read    *)
(* the events up to its cursor (ScanOK), a report is about an event on the   *)
(* ledger (Made), and what the page has reported was there before the        *)
(* request it waits for or shows began (Listed).                             *)
(*****************************************************************************)
EXTENDS Sharing, NamespaceProofs, FiniteSetTheorems

EventType == [namespace_id : NamespaceId, cap_id : CapId]

\* The capabilities of n among the first k events.
Named(L, n, k) == {L[i].cap_id : i \in {j \in 1..k : L[j].namespace_id = n}}
Of(s, n, k) == Named(ledger[s], n, k)

LedgerOK ==
  /\ ledger \in [minted : Seq(EventType), revoked : Seq(EventType)]
  /\ IsInjective(ledger.minted) /\ IsInjective(ledger.revoked)
  /\ Range(ledger.minted) = {Event(minted[c].namespace_id, c) : c \in DOMAIN minted}
  /\ Range(ledger.revoked) = {Event(p[1], p[2]) : p \in revokedLog}

Scan == [cursor : Nat, rows : SUBSET CapId, more : BOOLEAN, horizon : Nat]
Reading == [stage : {"reading", "done"}, namespaceId : NamespaceId, minted : Scan, revoked : Scan,
            begun : [Stream -> Nat]]

ScanOK(q, s) ==
  /\ request[q][s].cursor <= request[q][s].horizon
  /\ request[q][s].horizon <= Len(ledger[s])
  /\ request[q].begun[s] <= Len(ledger[s])
  /\ request[q][s].rows = Of(s, request[q].namespaceId, request[q][s].cursor)
  /\ ~request[q][s].more => request[q][s].cursor = request[q][s].horizon

RequestOK(q) ==
  \/ request[q] = NoRequest
  \/ request[q] = Failed
  \/ /\ request[q] \in Reading
     /\ \A s \in Stream : ScanOK(q, s)
     /\ request[q].stage = "done" => \A s \in Stream : ~request[q][s].more

ShareToMake == [stage : {"built", "stale"}, via : {"other", "page"}, cmd : {"share"},
                namespaceId : NamespaceId, adminCapId : AdminArg, kind : ShareKind]
ShareMade == [stage : {"executed", "done"}, via : {"other", "page"}, cmd : {"share"},
              namespaceId : NamespaceId, kind : ShareKind, capId : CapId]
Revocation == [stage : {"built", "stale", "executed", "done"}, via : {"other", "landing"},
               cmd : {"revoke"}, capId : CapId]
AdminRevocation == [stage : {"built", "stale", "executed", "done"}, via : {"other"},
                    cmd : {"admin_revoke"}, namespaceId : NamespaceId, adminCapId : AdminArg,
                    capId : CapId]
Idle == [stage |-> "none"]
OpState == {Idle, Failed} \cup ShareToMake \cup ShareMade \cup Revocation \cup AdminRevocation

\* What a run has done, or is to do, is about a capability that was minted.
Made(r) ==
  /\ r.stage \in {"executed", "done"} =>
       /\ r.capId \in DOMAIN minted
       /\ r.cmd = "share" => minted[r.capId] = [kind |-> r.kind, namespace_id |-> r.namespaceId]
       /\ r.cmd = "revoke" => <<minted[r.capId].namespace_id, r.capId>> \in revokedLog
       /\ r.cmd = "admin_revoke" => <<r.namespaceId, r.capId>> \in revokedLog
  /\ r.stage = "built" => WouldSucceed(r)

OpsOK == op \in [Op -> OpState] /\ \A o \in Op : Made(op[o])

Listed(q) ==
  \A o \in Op :
    op[o].stage = "done" /\ op[o].via = "page" /\ op[o].namespaceId = request[q].namespaceId =>
      op[o].capId \in Of("minted", request[q].namespaceId, request[q].begun["minted"])

PanelOK ==
  /\ field \in {{}} \cup {{n} : n \in NamespaceId}
  /\ panel \in [status : {"idle", "loading", "ready", "error"}, shown : SUBSET Request]
  /\ \A q \in Request : request[q].stage = "reading" => field = {request[q].namespaceId} /\ Listed(q)
  /\ panel.status = "ready" =>
       \A q \in panel.shown : /\ request[q].stage = "done"
                              /\ field = {request[q].namespaceId} /\ Listed(q)

RequestsOK == DOMAIN request = Request /\ \A q \in Request : RequestOK(q)

SharingInv == NsInv /\ LedgerOK /\ RequestsOK /\ OpsOK /\ PanelOK

-----------------------------------------------------------------------------
(***************************************************************************)
(* Sequences of events.                                                    *)
(***************************************************************************)
LEMMA SetToSeqLists ==
  ASSUME NEW S, IsFiniteSet(S)
  PROVE  /\ SetToSeq(S) \in Seq(S)
         /\ IsInjective(SetToSeq(S)) /\ Range(SetToSeq(S)) = S
<1> DEFINE N == Cardinality(S)
           g == SetToSeq(S)
<1>1. N \in Nat /\ \E f \in Bijection(1..N, S) : TRUE
  BY FS_CardinalityType DEF ExistsBijection
<1>2. PICK f \in Bijection(1..N, S) : TRUE
  BY <1>1
<1>3. f \in [1..N -> S] /\ IsInjective(f)
  BY <1>2 DEF Bijection, Injection, IsInjective
<1>4. SetToSeq(S) \in [1..N -> S] /\ IsInjective(SetToSeq(S))
  BY <1>3 DEF SetToSeq
<1> HIDE DEF g
<1>5. g \in Injection(1..N, S)
  BY <1>4 DEF g, Injection, IsInjective
<1>6. IsFiniteSet(1..N) /\ Cardinality(1..N) = N
  BY <1>1, FS_Interval
<1>7. g \in Surjection(1..N, S)
  BY <1>5, <1>6, FS_Injection
<1>8. Range(g) = S
  BY <1>7 DEF Surjection, Range
<1>9. QED  BY <1>1, <1>4, <1>8 DEF g

LEMMA ConcatLists ==
  ASSUME NEW E, NEW s \in Seq(E), NEW t \in Seq(E), IsInjective(s), IsInjective(t),
         Range(s) \cap Range(t) = {}
  PROVE  /\ s \o t \in Seq(E) /\ IsInjective(s \o t)
         /\ Range(s \o t) = Range(s) \cup Range(t)
         /\ Len(s) <= Len(s \o t) /\ \A i \in 1..Len(s) : (s \o t)[i] = s[i]
<1> DEFINE u == s \o t
<1>1. /\ u \in Seq(E) /\ Len(u) = Len(s) + Len(t) /\ Len(s) \in Nat /\ Len(t) \in Nat
      /\ \A i \in 1..Len(s) : u[i] = s[i]
      /\ \A i \in 1..Len(t) : u[Len(s) + i] = t[i]
  OBVIOUS
<1>2. DOMAIN s = 1..Len(s) /\ DOMAIN t = 1..Len(t)
  OBVIOUS
<1> HIDE DEF u
<1>3. DOMAIN u = 1..(Len(s) + Len(t))
  BY <1>1
<1>4. ASSUME NEW i \in DOMAIN u
      PROVE  \/ i \in DOMAIN s /\ u[i] = s[i]
             \/ i - Len(s) \in DOMAIN t /\ u[i] = t[i - Len(s)] /\ i \notin DOMAIN s
  <2>1. CASE i <= Len(s)
    BY <1>1, <1>2, <1>3, <2>1
  <2>2. CASE i > Len(s)
    <3>1. i - Len(s) \in 1..Len(t) /\ i = Len(s) + (i - Len(s))
      BY <1>1, <1>3, <2>2
    <3>2. QED  BY <1>1, <1>2, <2>2, <3>1
  <2>3. QED  BY <1>1, <1>3, <2>1, <2>2
<1>5. IsInjective(u)
  <2> SUFFICES ASSUME NEW a \in DOMAIN u, NEW b \in DOMAIN u, u[a] = u[b] PROVE a = b
    BY DEF IsInjective
  <2>1. a \in Int /\ b \in Int
    BY <1>1, <1>3
  <2>2. CASE a \in DOMAIN s /\ b \in DOMAIN s
    BY <1>4, <2>2, <1>1, <1>2 DEF IsInjective
  <2>3. CASE a \notin DOMAIN s /\ b \notin DOMAIN s
    <3>1. a - Len(s) \in DOMAIN t /\ b - Len(s) \in DOMAIN t /\ t[a - Len(s)] = t[b - Len(s)]
      BY <1>4, <2>3
    <3>2. a - Len(s) = b - Len(s)
      BY <3>1 DEF IsInjective
    <3>3. QED  BY <1>1, <2>1, <3>2
  <2>4. CASE (a \in DOMAIN s) # (b \in DOMAIN s)
    <3>1. u[a] \in Range(s) \cap Range(t)
      BY <1>1, <1>2, <1>4, <2>4 DEF Range
    <3>2. QED  BY <3>1
  <2>5. QED  BY <2>2, <2>3, <2>4
<1>6. Range(u) \subseteq Range(s) \cup Range(t)
  BY <1>4 DEF Range
<1>7. Range(s) \subseteq Range(u)
  BY <1>1, <1>2, <1>3 DEF Range
<1>8. Range(t) \subseteq Range(u)
  <2> SUFFICES ASSUME NEW i \in DOMAIN t PROVE t[i] \in Range(u)
    BY DEF Range
  <2>1. Len(s) + i \in DOMAIN u /\ u[Len(s) + i] = t[i]
    BY <1>1, <1>2, <1>3
  <2>2. QED  BY <2>1 DEF Range
<1>9. QED  BY <1>1, <1>5, <1>6, <1>7, <1>8 DEF u

\* A page adds the events after the cursor.
LEMMA PageRead ==
  ASSUME NEW L \in Seq(EventType), NEW a \in Nat, NEW m \in Nat, a <= m, m <= Len(L), NEW n
  PROVE  /\ Len(SubSeq(L, a + 1, m)) = m - a
         /\ Named(L, n, a) \cup Kept(SubSeq(L, a + 1, m), n) = Named(L, n, m)
         /\ Named(L, n, m) \subseteq CapId
<1> DEFINE page == SubSeq(L, a + 1, m)
<1>1. /\ page \in Seq(EventType) /\ Len(page) = m - a
      /\ \A i \in 1..(m - a) : page[i] = L[a + i]
  OBVIOUS
<1> HIDE DEF page
<1>2. DOMAIN page = 1..(m - a)
  BY <1>1
<1>3. \A i \in (a + 1)..m : i - a \in DOMAIN page /\ page[i - a] = L[i]
  <2> TAKE i \in (a + 1)..m
  <2>1. i - a \in 1..(m - a) /\ a + (i - a) = i
    OBVIOUS
  <2>2. QED  BY <1>1, <1>2, <2>1
<1>4. \A i \in DOMAIN page : a + i \in (a + 1)..m /\ page[i] = L[a + i]
  BY <1>1, <1>2
<1>5. Range(page) = {L[i] : i \in (a + 1)..m}
  BY <1>3, <1>4 DEF Range
<1>6. Kept(page, n) = {L[i].cap_id : i \in {j \in (a + 1)..m : L[j].namespace_id = n}}
  BY <1>5 DEF Kept
<1>7. 1..m = (1..a) \cup ((a + 1)..m)
  OBVIOUS
<1>8. Named(L, n, a) \cup Kept(page, n) = Named(L, n, m)
  BY <1>6, <1>7 DEF Named
<1>9. Named(L, n, m) \subseteq CapId
  <2>1. ASSUME NEW i \in 1..m PROVE L[i].cap_id \in CapId
    <3>1. L[i] \in EventType
      OBVIOUS
    <3>2. QED  BY <3>1 DEF EventType
  <2>2. QED  BY <2>1 DEF Named
<1>10. QED  BY <1>1, <1>8, <1>9 DEF page

-----------------------------------------------------------------------------
(***************************************************************************)
(* The first namespaces and their events.                                  *)
(***************************************************************************)
LEMMA SharingInitInv == SharingInit => SharingInv
<1> SUFFICES ASSUME SharingInit PROVE SharingInv
  OBVIOUS
<1> DEFINE admins == {AdminOf[n] : n \in NamespaceId}
           nsOf == [c \in admins |-> CHOOSE n \in NamespaceId : AdminOf[n] = c]
           events == {Event(nsOf[c], c) : c \in admins}
<1>1. PICK owner \in Address, names \in {f \in [NamespaceId -> Name] : IsInjective(f)} :
        /\ registry = [version |-> VERSION, namespace_index |->
             [key \in {<<owner, names[n]>> : n \in NamespaceId} |->
                CHOOSE n \in NamespaceId : names[n] = key[2]]]
        /\ namespaces = [n \in NamespaceId |->
             [owner |-> owner, name |-> names[n], namespace_kind |-> 0,
              active |-> TRUE, revoked |-> {}, version |-> VERSION]]
        /\ caps = [c \in admins |-> [kind |-> "Admin", namespace_id |-> nsOf[c], owner |-> owner]]
        /\ minted = [c \in admins |-> [kind |-> "Admin", namespace_id |-> nsOf[c]]]
        /\ revokedLog = {}
        /\ ledger = [minted |-> SetToSeq(events), revoked |-> <<>>]
        /\ request = [q \in Request |-> NoRequest]
  BY DEF SharingInit, ChainInit
<1>2. /\ admins \subseteq CapId
      /\ \A n \in NamespaceId : AdminOf[n] \in admins
      /\ \A c \in admins : nsOf[c] \in NamespaceId /\ AdminOf[nsOf[c]] = c
  BY HistoryConstants
<1>3. names \in [NamespaceId -> Name] /\ \A m, n \in NamespaceId : names[m] = names[n] => m = n
  BY DEF IsInjective
<1> HIDE DEF admins, nsOf
<1>4. NsInv
  <2> DEFINE keys == {<<owner, names[n]>> : n \in NamespaceId}
             index == [key \in keys |-> CHOOSE n \in NamespaceId : names[n] = key[2]]
  <2>1. \A n \in NamespaceId : <<owner, names[n]>> \in keys /\ index[<<owner, names[n]>>] = n
    <3> TAKE n \in NamespaceId
    <3>1. <<owner, names[n]>> \in keys
      OBVIOUS
    <3>2. index[<<owner, names[n]>>] = CHOOSE m \in NamespaceId : names[m] = names[n]
      BY <3>1
    <3>3. QED  BY <1>3, <3>1, <3>2
  <2>2. keys \subseteq Address \X Name /\ index \in [keys -> NamespaceId]
    <3>1. keys \subseteq Address \X Name
      BY <1>3
    <3>2. \A key \in keys : index[key] \in NamespaceId
      BY <2>1
    <3>3. QED  BY <3>1, <3>2
  <2> HIDE DEF index, keys
  <2>3. registry = [version |-> VERSION, namespace_index |-> index]
    BY <1>1 DEF index, keys
  <2>4. registry \in Registry
    BY <2>2, <2>3 DEF Registry, VERSION
  <2>5. DOMAIN namespaces = NamespaceId /\ namespaces \in [NamespaceId -> Namespace]
    <3>1. \A n \in NamespaceId : [owner |-> owner, name |-> names[n], namespace_kind |-> 0,
              active |-> TRUE, revoked |-> {}, version |-> VERSION] \in Namespace
      BY <1>3 DEF Namespace
    <3>2. QED  BY <1>1, <3>1
  <2>6. DOMAIN caps = admins /\ caps \in [admins -> Capability]
    <3>1. \A c \in admins : [kind |-> "Admin", namespace_id |-> nsOf[c], owner |-> owner] \in Capability
      BY <1>2 DEF Capability, CapKind
    <3>2. QED  BY <1>1, <3>1
  <2>7. DOMAIN minted = admins /\ minted \in [admins -> MintedEvent]
    <3>1. \A c \in admins : [kind |-> "Admin", namespace_id |-> nsOf[c]] \in MintedEvent
      BY <1>2 DEF MintedEvent, CapKind
    <3>2. QED  BY <1>1, <3>1
  <2>8. NsTypeOK
    BY <1>1, <1>2, <2>4, <2>5, <2>6, <2>7 DEF NsTypeOK
  <2>9. IndexPointsHome
    <3>1. \A n \in NamespaceId : namespaces[n].owner = owner /\ namespaces[n].name = names[n]
      BY <1>1
    <3>2. registry.namespace_index = index /\ DOMAIN index = keys
      BY <2>3 DEF index
    <3>3. QED  BY <2>1, <2>5, <3>1, <3>2 DEF IndexPointsHome
  <2>10. \A c \in admins : /\ minted[c].kind = "Admin" /\ minted[c].namespace_id = nsOf[c]
                           /\ caps[c].kind = "Admin" /\ caps[c].namespace_id = nsOf[c]
    BY <1>1
  <2>11. \A n \in NamespaceId : namespaces[n].revoked = {}
    BY <1>1
  <2>12. CapsComeFromMinting
    BY <1>1, <1>2, <2>5, <2>6, <2>7, <2>10, <2>11 DEF CapsComeFromMinting
  <2>13. OneAdminCap
    BY <1>2, <2>7, <2>10 DEF OneAdminCap
  <2>14. EventsTellAuthority
    BY <1>1, <1>2, <2>6, <2>7, <2>10, <2>11
    DEF EventsTellAuthority, AssertCapForNamespace, IsCapabilityRevoked
  <2>15. QED  BY <2>8, <2>9, <2>12, <2>13, <2>14 DEF NsInv
<1>5. LedgerOK
  <2> DEFINE g == [n \in NamespaceId |-> Event(nsOf[AdminOf[n]], AdminOf[n])]
  <2>1. g \in Surjection(NamespaceId, events)
    <3>1. \A n \in NamespaceId : g[n] \in events
      BY <1>2
    <3>2. \A c \in admins : nsOf[c] \in NamespaceId /\ g[nsOf[c]] = Event(nsOf[c], c)
      BY <1>2
    <3>3. g \in [NamespaceId -> events]
      BY <3>1
    <3> HIDE DEF g
    <3>4. \A e \in events : \E n \in NamespaceId : g[n] = e
      BY <3>2
    <3>5. QED  BY <3>3, <3>4 DEF Surjection
  <2>2. IsFiniteSet(events)
    BY <2>1, FS_Surjection, HistoryConstants
  <2>3. events \subseteq EventType
    BY <1>2 DEF EventType, Event
  <2> HIDE DEF events
  <2>4. /\ ledger.minted \in Seq(events) /\ IsInjective(ledger.minted)
        /\ Range(ledger.minted) = events
        /\ ledger.revoked = <<>> /\ ledger = [minted |-> ledger.minted, revoked |-> ledger.revoked]
    BY <1>1, <2>2, SetToSeqLists
  <2>5. ledger \in [minted : Seq(EventType), revoked : Seq(EventType)]
    <3>1. ledger.minted \in Seq(EventType)
      BY <2>3, <2>4
    <3>2. ledger.revoked \in Seq(EventType)
      BY <2>4
    <3>3. QED  BY <2>4, <3>1, <3>2
  <2>6. events = {Event(minted[c].namespace_id, c) : c \in DOMAIN minted}
    BY <1>1 DEF events
  <2>7. IsInjective(ledger.revoked) /\ Range(ledger.revoked) = {Event(p[1], p[2]) : p \in revokedLog}
    BY <1>1, <2>4 DEF IsInjective, Range
  <2>8. QED  BY <2>4, <2>5, <2>6, <2>7 DEF LedgerOK
<1>6. RequestsOK
  BY <1>1 DEF RequestsOK, RequestOK
<1>7. OpsOK
  BY DEF SharingInit, OpsOK, OpState, Idle, Made
<1>8. PanelOK
  BY <1>1 DEF SharingInit, PanelOK, NoRequest
<1>9. QED  BY <1>4, <1>5, <1>6, <1>7, <1>8 DEF SharingInv

-----------------------------------------------------------------------------
(***************************************************************************)
(* What a transaction does to the chain and to its events.                 *)
(***************************************************************************)
ChainGrows ==
  /\ \A c \in DOMAIN minted : c \in DOMAIN minted' /\ minted'[c] = minted[c]
  /\ \/ DOMAIN minted' = DOMAIN minted
     \/ \E c \in CapId \ DOMAIN minted : DOMAIN minted' = DOMAIN minted \cup {c}
  /\ \/ revokedLog' = revokedLog
     \/ \E n \in NamespaceId, c \in CapId : revokedLog' = revokedLog \cup {<<n, c>>}

LedgerGrows ==
  \A s \in Stream : /\ Len(ledger[s]) <= Len(ledger'[s])
                    /\ \A i \in 1..Len(ledger[s]) : ledger'[s][i] = ledger[s][i]

LEMMA FewAreFinite ==
  ASSUME NEW S, NEW x, S = {} \/ S = {x}
  PROVE  IsFiniteSet(S)
BY FS_EmptySet, FS_Singleton

LEMMA EventsLogged ==
  ASSUME NsTypeOK, NsTypeOK', LedgerOK, ChainGrows, Logged
  PROVE  LedgerOK' /\ LedgerGrows
<1> PICK M : M = {Event(minted'[c].namespace_id, c) : c \in DOMAIN minted' \ DOMAIN minted}
  OBVIOUS
<1> PICK R : R = {Event(p[1], p[2]) : p \in revokedLog' \ revokedLog}
  OBVIOUS
<1>1. ledger' = [minted |-> ledger.minted \o SetToSeq(M), revoked |-> ledger.revoked \o SetToSeq(R)]
  BY DEF Logged
<1>2. /\ ledger.minted \in Seq(EventType) /\ ledger.revoked \in Seq(EventType)
      /\ IsInjective(ledger.minted) /\ IsInjective(ledger.revoked)
  BY DEF LedgerOK
<1>3. M \subseteq EventType /\ IsFiniteSet(M) /\ Range(ledger.minted) \cap M = {}
  <2>1. M \subseteq EventType
    BY DEF NsTypeOK, MintedEvent, Event, EventType
  <2>2. IsFiniteSet(M)
    <3>1. CASE DOMAIN minted' = DOMAIN minted
      BY <3>1, FewAreFinite
    <3>2. ASSUME NEW c \in CapId \ DOMAIN minted, DOMAIN minted' = DOMAIN minted \cup {c}
          PROVE  IsFiniteSet(M)
      <4>1. DOMAIN minted' \ DOMAIN minted = {c}
        BY <3>2
      <4>2. PICK e : e = Event(minted'[c].namespace_id, c)
        OBVIOUS
      <4>3. M = {e}
        BY <4>1, <4>2
      <4>4. QED  BY <4>3, FewAreFinite
    <3>3. QED  BY <3>1, <3>2 DEF ChainGrows
  <2>3. \A e \in M : e.cap_id \notin DOMAIN minted
    BY DEF Event
  <2>4. \A e \in Range(ledger.minted) : e.cap_id \in DOMAIN minted
    BY DEF LedgerOK, Event
  <2>5. QED  BY <2>1, <2>2, <2>3, <2>4
<1>4. R \subseteq EventType /\ IsFiniteSet(R) /\ Range(ledger.revoked) \cap R = {}
  <2>1. R \subseteq EventType
    BY DEF NsTypeOK, Event, EventType
  <2>2. IsFiniteSet(R)
    <3>1. CASE revokedLog' = revokedLog
      BY <3>1, FewAreFinite
    <3>2. ASSUME NEW n \in NamespaceId, NEW c \in CapId, revokedLog' = revokedLog \cup {<<n, c>>}
          PROVE  IsFiniteSet(R)
      <4>1. PICK D : D = revokedLog' \ revokedLog
        OBVIOUS
      <4>2. D = {} \/ D = {<<n, c>>}
        BY <3>2, <4>1
      <4>3. R = {} \/ R = {Event(n, c)}
        BY <4>1, <4>2
      <4>4. QED  BY <4>3, FewAreFinite
    <3>3. QED  BY <3>1, <3>2 DEF ChainGrows
  <2>3. \A p, q \in NamespaceId \X CapId : Event(p[1], p[2]) = Event(q[1], q[2]) => p = q
    BY DEF Event
  <2>4. \A e \in R : \E p \in NamespaceId \X CapId : p \notin revokedLog /\ e = Event(p[1], p[2])
    BY DEF NsTypeOK
  <2>5. \A e \in Range(ledger.revoked) :
          \E p \in NamespaceId \X CapId : p \in revokedLog /\ e = Event(p[1], p[2])
    BY DEF LedgerOK, NsTypeOK
  <2>6. QED  BY <2>1, <2>2, <2>3, <2>4, <2>5
<1> DEFINE m == SetToSeq(M)
           r == SetToSeq(R)
<1>5. /\ m \in Seq(EventType) /\ IsInjective(m) /\ Range(m) = M
      /\ r \in Seq(EventType) /\ IsInjective(r) /\ Range(r) = R
  <2>1. m \in Seq(M) /\ IsInjective(m) /\ Range(m) = M
    BY <1>3, SetToSeqLists
  <2>2. r \in Seq(R) /\ IsInjective(r) /\ Range(r) = R
    BY <1>4, SetToSeqLists
  <2> HIDE DEF m, r
  <2>3. m \in Seq(EventType) /\ r \in Seq(EventType)
    BY <1>3, <1>4, <2>1, <2>2
  <2>4. QED  BY <2>1, <2>2, <2>3
<1>6. ledger' = [minted |-> ledger.minted \o m, revoked |-> ledger.revoked \o r]
  BY <1>1
<1> HIDE DEF m, r
<1>7. /\ ledger'.minted \in Seq(EventType) /\ IsInjective(ledger'.minted)
      /\ Range(ledger'.minted) = Range(ledger.minted) \cup M
      /\ Len(ledger.minted) <= Len(ledger'.minted)
      /\ \A i \in 1..Len(ledger.minted) : ledger'.minted[i] = ledger.minted[i]
  <2>1. ledger'.minted = ledger.minted \o m
    BY <1>6
  <2>2. Range(ledger.minted) \cap Range(m) = {}
    BY <1>3, <1>5
  <2>3. QED  BY <1>2, <1>5, <2>1, <2>2, ConcatLists
<1>8. /\ ledger'.revoked \in Seq(EventType) /\ IsInjective(ledger'.revoked)
      /\ Range(ledger'.revoked) = Range(ledger.revoked) \cup R
      /\ Len(ledger.revoked) <= Len(ledger'.revoked)
      /\ \A i \in 1..Len(ledger.revoked) : ledger'.revoked[i] = ledger.revoked[i]
  <2>1. ledger'.revoked = ledger.revoked \o r
    BY <1>6
  <2>2. Range(ledger.revoked) \cap Range(r) = {}
    BY <1>4, <1>5
  <2>3. QED  BY <1>2, <1>5, <2>1, <2>2, ConcatLists
<1>9. Range(ledger'.minted) = {Event(minted'[c].namespace_id, c) : c \in DOMAIN minted'}
  <2>1. Range(ledger.minted) = {Event(minted'[c].namespace_id, c) : c \in DOMAIN minted}
    BY DEF LedgerOK, ChainGrows
  <2>2. DOMAIN minted \subseteq DOMAIN minted'
    BY DEF ChainGrows
  <2>3. QED  BY <1>7, <2>1, <2>2
<1>10. Range(ledger'.revoked) = {Event(p[1], p[2]) : p \in revokedLog'}
  <2>1. revokedLog \subseteq revokedLog'
    BY DEF ChainGrows
  <2>2. QED  BY <1>8, <2>1 DEF LedgerOK
<1>11. ledger' \in [minted : Seq(EventType), revoked : Seq(EventType)]
  BY <1>6, <1>7, <1>8
<1>12. LedgerOK'
  BY <1>7, <1>8, <1>9, <1>10, <1>11 DEF LedgerOK
<1>13. QED  BY <1>7, <1>8, <1>12 DEF LedgerGrows, Stream

\* The kind that a share mints is the one asked for.
LEMMA MintsWhatIsAsked ==
  ASSUME NEW r \in ShareToMake
  PROVE  MintedKinds(r) = {r.kind} /\ r.kind \in {"ReadOnly", "ReadWrite"}
<1>1. r.kind \in {"ReadOnly", "ReadWrite"} /\ r.via \in {"other", "page"}
  BY SharingConstants DEF ShareToMake
<1>2. CASE r.kind = "ReadOnly"
  BY <1>1, <1>2 DEF MintedKinds, ActionFor, MoveTarget, CapabilityMintFunction, CreatedTypes
<1>3. CASE r.kind = "ReadWrite"
  BY <1>1, <1>3 DEF MintedKinds, ActionFor, MoveTarget, CapabilityMintFunction, CreatedTypes
<1>4. QED  BY <1>1, <1>2, <1>3

\* A run that has been built, and what its transaction touches.
LEMMA BuiltRuns ==
  ASSUME NEW r \in OpState, r.stage = "built"
  PROVE  \/ r \in ShareToMake /\ r.cmd = "share" /\ Inputs(r) = {r.adminCapId}
         \/ r \in Revocation /\ r.cmd = "revoke" /\ Inputs(r) = {r.capId}
         \/ r \in AdminRevocation /\ r.cmd = "admin_revoke" /\ Inputs(r) = {r.adminCapId}
BY DEF OpState, Idle, Failed, ShareToMake, ShareMade, Revocation, AdminRevocation, Inputs

\* What Execute does to the chain.
LEMMA ShareEffect ==
  ASSUME NsInv, NEW r \in ShareToMake, r.cmd = "share", NEW c \in CapId, NEW recipient \in Address,
         Effect(r, c, recipient)
  PROVE  /\ NsNext /\ ChainGrows
         /\ UNCHANGED namespaces
         /\ \A d \in DOMAIN caps : d \in DOMAIN caps' /\ caps'[d] = caps[d]
         /\ c \in DOMAIN minted' /\ minted'[c] = [kind |-> r.kind, namespace_id |-> r.namespaceId]
<1>1. /\ Mint(r.namespaceId, r.adminCapId, r.kind, recipient, c)
      /\ r.kind \in {"ReadOnly", "ReadWrite"}
  <2>1. \E kind \in MintedKinds(r) : Mint(r.namespaceId, r.adminCapId, kind, recipient, c)
    BY DEF Effect
  <2>2. QED  BY <2>1, MintsWhatIsAsked
<1>2. r.namespaceId \in NamespaceId /\ r.adminCapId \in CapId /\ r.kind \in CapKind
  BY <1>1, SharingConstants DEF ShareToMake, CapKind
<1>3. NsNext
  BY <1>1, <1>2 DEF NsNext, MintCapabilityReadWrite, MintCapabilityReadOnly
<1>4. /\ c \notin DOMAIN minted
      /\ DOMAIN minted' = DOMAIN minted \cup {c}
      /\ minted'[c] = [kind |-> r.kind, namespace_id |-> r.namespaceId]
      /\ \A d \in DOMAIN minted : d # c => minted'[d] = minted[d]
      /\ DOMAIN caps' = DOMAIN caps \cup {c}
      /\ \A d \in DOMAIN caps : d # c => caps'[d] = caps[d]
      /\ UNCHANGED <<namespaces, revokedLog>>
  <2>1. /\ MintCapInternal(r.namespaceId, c, r.kind, recipient)
        /\ UNCHANGED <<namespaces, revokedLog>>
    BY <1>1 DEF Mint
  <2>2. NsTypeOK
    BY DEF NsInv
  <2>3. PICK n \in NamespaceId, kind \in CapKind : n = r.namespaceId /\ kind = r.kind
    BY <1>2
  <2>4. MintCapInternal(n, c, kind, recipient)
    BY <2>1, <2>3
  <2>5. /\ c \notin DOMAIN minted
        /\ DOMAIN caps' = DOMAIN caps \cup {c}
        /\ DOMAIN minted' = DOMAIN minted \cup {c}
        /\ minted'[c] = [kind |-> kind, namespace_id |-> n]
        /\ \A d \in DOMAIN caps : d # c => caps'[d] = caps[d]
        /\ \A d \in DOMAIN minted : d # c => minted'[d] = minted[d]
    BY <2>4 DEF MintCapInternal, Put
  <2>6. QED  BY <2>1, <2>3, <2>5
<1>5. DOMAIN caps \subseteq DOMAIN minted
  BY DEF NsInv, CapsComeFromMinting
<1>6. QED  BY <1>3, <1>4, <1>5 DEF ChainGrows

LEMMA RevokeEffect ==
  ASSUME NsInv, NEW r \in Revocation, r.cmd = "revoke", NEW c \in CapId, NEW recipient \in Address,
         Effect(r, c, recipient)
  PROVE  /\ NsNext /\ ChainGrows
         /\ UNCHANGED namespaces
         /\ \A d \in DOMAIN caps : d # r.capId => d \in DOMAIN caps' /\ caps'[d] = caps[d]
         /\ r.capId \in DOMAIN minted' /\ <<minted'[r.capId].namespace_id, r.capId>> \in revokedLog'
<1>1. RevokeCapability(r.capId) /\ r.capId \in CapId
  BY DEF Effect, Revocation
<1>2. NsNext
  BY <1>1 DEF NsNext
<1>3. /\ r.capId \in DOMAIN caps /\ caps' = Drop(caps, r.capId)
      /\ revokedLog' = revokedLog \cup {<<caps[r.capId].namespace_id, r.capId>>}
      /\ UNCHANGED <<namespaces, minted>>
  BY <1>1 DEF RevokeCapability
<1>4. /\ r.capId \in DOMAIN minted
      /\ minted[r.capId].namespace_id = caps[r.capId].namespace_id
      /\ caps[r.capId].namespace_id \in NamespaceId
  BY <1>3 DEF NsInv, CapsComeFromMinting, NsTypeOK, Capability
<1>5. ChainGrows
  BY <1>1, <1>3, <1>4 DEF ChainGrows
<1>6. \A d \in DOMAIN caps : d # r.capId => d \in DOMAIN caps' /\ caps'[d] = caps[d]
  BY <1>3 DEF Drop
<1>7. QED  BY <1>2, <1>3, <1>4, <1>5, <1>6

LEMMA AdminRevokeEffect ==
  ASSUME NsInv, NEW r \in AdminRevocation, r.cmd = "admin_revoke", NEW c \in CapId,
         NEW recipient \in Address, Effect(r, c, recipient)
  PROVE  /\ NsNext /\ ChainGrows
         /\ UNCHANGED caps
         /\ r.namespaceId \in DOMAIN namespaces /\ DOMAIN namespaces' = DOMAIN namespaces
         /\ \A n \in DOMAIN namespaces : n # r.namespaceId => namespaces'[n] = namespaces[n]
         /\ namespaces'[r.namespaceId].version = namespaces[r.namespaceId].version
         /\ Accepted(r.adminCapId, r.namespaceId, "Admin")
         /\ r.capId \in DOMAIN minted' /\ <<r.namespaceId, r.capId>> \in revokedLog'
<1>1. /\ AdminRevokeCapability(r.namespaceId, r.adminCapId, r.capId)
      /\ r.capId \in CapId /\ r.namespaceId \in NamespaceId /\ r.adminCapId \in CapId
  BY SharingConstants DEF Effect, AdminRevocation
<1>2. NsNext
  BY <1>1 DEF NsNext
<1>3. /\ Accepted(r.adminCapId, r.namespaceId, "Admin") /\ r.capId \in DOMAIN minted
      /\ namespaces' = [namespaces EXCEPT ![r.namespaceId].revoked = @ \cup {r.capId}]
      /\ revokedLog' = revokedLog \cup {<<r.namespaceId, r.capId>>}
      /\ UNCHANGED <<caps, minted>>
  BY <1>1 DEF AdminRevokeCapability
<1>4. r.namespaceId \in DOMAIN namespaces
  BY <1>3 DEF Accepted
<1>5. /\ DOMAIN namespaces' = DOMAIN namespaces
      /\ \A n \in DOMAIN namespaces : n # r.namespaceId => namespaces'[n] = namespaces[n]
      /\ namespaces'[r.namespaceId].version = namespaces[r.namespaceId].version
  BY <1>3, <1>4 DEF NsInv, NsTypeOK, Namespace
<1>6. ChainGrows
  BY <1>1, <1>3 DEF ChainGrows
<1>7. QED  BY <1>2, <1>3, <1>4, <1>5, <1>6

\* A run that uses another owned object would still succeed.
LEMMA OthersSucceed ==
  ASSUME NsInv, NEW u \in OpState, u.stage = "built", NEW c \in CapId, NEW recipient \in Address,
         Effect(u, c, recipient),
         NEW r \in OpState, r.stage = "built", WouldSucceed(r), Inputs(r) \cap Inputs(u) = {}
  PROVE  WouldSucceed(r)'
<1>1. \/ u \in ShareToMake /\ u.cmd = "share" /\ Inputs(u) = {u.adminCapId}
      \/ u \in Revocation /\ u.cmd = "revoke" /\ Inputs(u) = {u.capId}
      \/ u \in AdminRevocation /\ u.cmd = "admin_revoke" /\ Inputs(u) = {u.adminCapId}
  BY BuiltRuns
<1>2. PICK d : Inputs(r) = {d} /\ (r.cmd = "revoke" => d = r.capId)
                               /\ (r.cmd # "revoke" => d = r.adminCapId)
  BY BuiltRuns
<1>3. d \in DOMAIN caps
  BY <1>2 DEF WouldSucceed, Accepted
<1>4. d \in DOMAIN caps' /\ caps'[d] = caps[d]
  <2>1. CASE u \in ShareToMake /\ u.cmd = "share"
    BY <1>3, <2>1, ShareEffect
  <2>2. CASE u \in Revocation /\ u.cmd = "revoke" /\ Inputs(u) = {u.capId}
    <3>1. d # u.capId
      BY <1>2, <2>2
    <3>2. QED  BY <1>3, <2>2, <3>1, RevokeEffect
  <2>3. CASE u \in AdminRevocation /\ u.cmd = "admin_revoke"
    BY <1>3, <2>3, AdminRevokeEffect
  <2>4. QED  BY <1>1, <2>1, <2>2, <2>3
<1>5. CASE r.cmd = "revoke"
  BY <1>2, <1>4, <1>5 DEF WouldSucceed
<1>6. CASE r.cmd # "revoke"
  <2> DEFINE n == r.namespaceId
  <2>1. Accepted(d, n, "Admin")
    BY <1>2, <1>6 DEF WouldSucceed
  <2>2. n \in DOMAIN namespaces' /\ namespaces'[n] = namespaces[n]
    <3>1. n \in DOMAIN namespaces
      BY <2>1 DEF Accepted
    <3>2. CASE u \in ShareToMake /\ u.cmd = "share"
      BY <3>1, <3>2, ShareEffect
    <3>3. CASE u \in Revocation /\ u.cmd = "revoke"
      BY <3>1, <3>3, RevokeEffect
    <3>4. CASE u \in AdminRevocation /\ u.cmd = "admin_revoke" /\ Inputs(u) = {u.adminCapId}
      <4>1. /\ Accepted(u.adminCapId, u.namespaceId, "Admin")
            /\ DOMAIN namespaces' = DOMAIN namespaces
            /\ \A m \in DOMAIN namespaces : m # u.namespaceId => namespaces'[m] = namespaces[m]
        BY <3>4, AdminRevokeEffect
      <4>2. d # u.adminCapId
        BY <1>2, <3>4
      <4>3. n # u.namespaceId
        BY <2>1, <4>1, <4>2 DEF Accepted, AssertCapForNamespace, NsInv, OneAdminCap, CapsComeFromMinting
      <4>4. QED  BY <3>1, <4>1, <4>3
    <3>5. QED  BY <1>1, <3>2, <3>3, <3>4
  <2>3. Accepted(d, n, "Admin")'
    BY <1>4, <2>1, <2>2 DEF Accepted, AssertCapForNamespace, IsCapabilityRevoked
  <2>4. QED  BY <1>2, <1>6, <2>3 DEF WouldSucceed
<1>7. QED  BY <1>5, <1>6

-----------------------------------------------------------------------------
(***************************************************************************)
(* Requests while the ledger grows.                                        *)
(***************************************************************************)
LEMMA OfStays ==
  ASSUME LedgerGrows, LedgerOK, NEW s \in Stream, NEW n, NEW k \in Nat, k <= Len(ledger[s])
  PROVE  Of(s, n, k)' = Of(s, n, k)
<1>1. Len(ledger[s]) \in Nat
  BY DEF LedgerOK, Stream
<1>2. \A i \in 1..k : ledger'[s][i] = ledger[s][i]
  BY <1>1 DEF LedgerGrows
<1>3. QED  BY <1>2 DEF Of, Named

LEMMA ReadingIsTyped ==
  ASSUME NEW r \in Reading, NEW s \in Stream
  PROVE  /\ r[s] \in Scan /\ r.begun[s] \in Nat /\ r.namespaceId \in NamespaceId
         /\ r.stage \in {"reading", "done"}
BY DEF Reading, Stream

LEMMA RequestStays ==
  ASSUME LedgerGrows, LedgerOK, LedgerOK', NEW q \in Request, RequestOK(q), request'[q] = request[q]
  PROVE  RequestOK(q)'
<1>1. CASE request[q] = NoRequest \/ request[q] = Failed
  BY <1>1 DEF RequestOK
<1>2. CASE request[q] \in Reading /\ request[q] # NoRequest /\ request[q] # Failed
  <2> PICK r : r = request[q]
    OBVIOUS
  <2>1. ASSUME NEW s \in Stream PROVE ScanOK(q, s)'
    <3>1. ScanOK(q, s)
      BY <1>2 DEF RequestOK
    <3>2. r[s].cursor \in Nat /\ r[s].horizon \in Nat /\ r.begun[s] \in Nat
      BY <1>2, ReadingIsTyped DEF Scan
    <3>3. Len(ledger[s]) \in Nat /\ Len(ledger'[s]) \in Nat /\ Len(ledger[s]) <= Len(ledger'[s])
      BY DEF LedgerOK, LedgerGrows, Stream
    <3>4. r[s].cursor <= Len(ledger[s])
      BY <3>1, <3>2, <3>3 DEF ScanOK
    <3>5. Of(s, r.namespaceId, r[s].cursor)' = Of(s, r.namespaceId, r[s].cursor)
      BY <3>2, <3>4, OfStays
    <3>6. QED  BY <3>1, <3>2, <3>3, <3>5 DEF ScanOK
  <2>2. QED  BY <1>2, <2>1 DEF RequestOK
<1>3. QED  BY <1>1, <1>2 DEF RequestOK

\* What the page has reported stays listed.
LEMMA ListedStays ==
  ASSUME LedgerGrows, LedgerOK, NEW q \in Request, RequestOK(q), request[q].stage \in {"reading", "done"},
         request'[q].namespaceId = request[q].namespaceId, request'[q].begun = request[q].begun,
         Listed(q),
         \A o \in Op : op'[o].stage = "done" /\ op'[o].via = "page" => op'[o] = op[o]
  PROVE  Listed(q)'
<1> PICK r : r = request[q]
  OBVIOUS
<1>1. r \in Reading /\ \A s \in Stream : ScanOK(q, s)
  BY DEF RequestOK, NoRequest, Failed
<1>2. "minted" \in Stream
  BY DEF Stream
<1>3. r.begun["minted"] \in Nat /\ r.begun["minted"] <= Len(ledger["minted"])
  BY <1>1, <1>2, ReadingIsTyped DEF ScanOK
<1>4. Of("minted", r.namespaceId, r.begun["minted"])' = Of("minted", r.namespaceId, r.begun["minted"])
  BY <1>2, <1>3, OfStays
<1>5. QED  BY <1>4 DEF Listed

\* A step of the chain or of a run that is no report of the page.
LEMMA PanelStays ==
  ASSUME LedgerGrows, LedgerOK, RequestsOK, PanelOK, UNCHANGED <<request, field, panel>>,
         \A o \in Op : op'[o].stage = "done" /\ op'[o].via = "page" => op'[o] = op[o]
  PROVE  PanelOK'
<1>1. ASSUME NEW q \in Request, request[q].stage \in {"reading", "done"}, Listed(q) PROVE Listed(q)'
  <2>1. RequestOK(q)
    BY DEF RequestsOK
  <2>2. QED  BY <1>1, <2>1, ListedStays
<1>2. \A q \in Request : request[q].stage = "reading" => field' = {request'[q].namespaceId} /\ Listed(q)'
  BY <1>1 DEF PanelOK
<1>3. panel.status = "ready" =>
       \A q \in panel.shown : /\ request'[q].stage = "done"
                              /\ field' = {request'[q].namespaceId} /\ Listed(q)'
  BY <1>1 DEF PanelOK
<1>4. QED  BY <1>2, <1>3 DEF PanelOK

-----------------------------------------------------------------------------
(***************************************************************************)
(* Steps of the runs.                                                      *)
(***************************************************************************)
LEMMA MadeStays ==
  ASSUME NsTypeOK, ChainGrows, NEW r \in OpState, r.stage # "built", Made(r)
  PROVE  Made(r)'
BY DEF Made, ChainGrows

LEMMA NothingLogged ==
  ASSUME LedgerOK, UNCHANGED ledger
  PROVE  LedgerGrows
BY DEF LedgerOK, LedgerGrows, Stream

LEMMA StaleRun ==
  ASSUME NEW r \in OpState, r.stage = "built", NEW t, t = [r EXCEPT !.stage = "stale"]
  PROVE  t \in OpState /\ t.stage = "stale"
<1>1. r \in ShareToMake \/ r \in Revocation \/ r \in AdminRevocation
  BY BuiltRuns
<1>2. QED  BY <1>1 DEF OpState, ShareToMake, Revocation, AdminRevocation

\* A transaction has used the objects in Used; what was built on one of them is stale.
LEMMA OutdatedRun ==
  ASSUME NEW p \in Op, op \in [Op -> OpState], NEW Used
  PROVE  LET t == Outdated(Used)[p] IN
         /\ t \in OpState
         /\ \/ t = op[p] /\ (t.stage = "built" => Inputs(t) \cap Used = {})
            \/ t.stage = "stale"
<1> PICK r \in OpState : r = op[p]
  OBVIOUS
<1>1. Outdated(Used)[p] = IF r.stage = "built" /\ Inputs(r) \cap Used # {}
                          THEN [r EXCEPT !.stage = "stale"] ELSE r
  BY DEF Outdated
<1>2. CASE r.stage = "built" /\ Inputs(r) \cap Used # {}
  BY <1>1, <1>2, StaleRun
<1>3. CASE ~(r.stage = "built" /\ Inputs(r) \cap Used # {})
  BY <1>1, <1>3
<1>4. QED  BY <1>2, <1>3

LEMMA ExecuteStep ==
  ASSUME SharingInv, NEW o \in Op, NEW c \in CapId, Execute(o, c)
  PROVE  SharingInv'
<1> USE DEF SharingInv, OpsOK
<1> PICK u \in OpState : u = op[o]
  OBVIOUS
<1>1. PICK recipient \in Address : Effect(u, c, recipient)
  BY DEF Execute
<1>2. /\ u.stage = "built" /\ Logged /\ UNCHANGED <<request, field, panel>>
      /\ op' = [Outdated(Inputs(u)) EXCEPT ![o] = Outcome(u, c)]
  BY DEF Execute
<1>3. \/ u \in ShareToMake /\ u.cmd = "share"
      \/ u \in Revocation /\ u.cmd = "revoke"
      \/ u \in AdminRevocation /\ u.cmd = "admin_revoke"
  BY <1>2, BuiltRuns
<1> PICK t : t = Outcome(u, c)
  OBVIOUS
<1>4. /\ NsNext /\ ChainGrows
      /\ t \in OpState /\ t.stage = "executed" /\ Made(t)'
  <2>1. CASE u \in ShareToMake /\ u.cmd = "share"
    <3>1. /\ NsNext /\ ChainGrows
          /\ c \in DOMAIN minted' /\ minted'[c] = [kind |-> u.kind, namespace_id |-> u.namespaceId]
      BY <1>1, <2>1, ShareEffect
    <3>2. t = [stage |-> "executed", via |-> u.via, cmd |-> "share", namespaceId |-> u.namespaceId,
               kind |-> u.kind, capId |-> c]
      BY <2>1 DEF Outcome
    <3>3. t \in ShareMade /\ t.cmd = "share" /\ t.stage = "executed" /\ t.capId = c /\ t.kind = u.kind
          /\ t.namespaceId = u.namespaceId
      BY <2>1, <3>2 DEF ShareToMake, ShareMade
    <3>4. QED  BY <3>1, <3>3 DEF Made, OpState
  <2>2. CASE u \in Revocation /\ u.cmd = "revoke"
    <3>1. /\ NsNext /\ ChainGrows
          /\ u.capId \in DOMAIN minted' /\ <<minted'[u.capId].namespace_id, u.capId>> \in revokedLog'
      BY <1>1, <2>2, RevokeEffect
    <3>2. t = [u EXCEPT !.stage = "executed"]
      BY <2>2 DEF Outcome
    <3>3. t \in Revocation /\ t.cmd = "revoke" /\ t.stage = "executed" /\ t.capId = u.capId
      BY <2>2, <3>2 DEF Revocation
    <3>4. QED  BY <3>1, <3>3 DEF Made, OpState
  <2>3. CASE u \in AdminRevocation /\ u.cmd = "admin_revoke"
    <3>1. /\ NsNext /\ ChainGrows
          /\ u.capId \in DOMAIN minted' /\ <<u.namespaceId, u.capId>> \in revokedLog'
      BY <1>1, <2>3, AdminRevokeEffect
    <3>2. t = [u EXCEPT !.stage = "executed"]
      BY <2>3 DEF Outcome
    <3>3. /\ t \in AdminRevocation /\ t.cmd = "admin_revoke" /\ t.stage = "executed"
          /\ t.capId = u.capId /\ t.namespaceId = u.namespaceId
      BY <2>3, <3>2 DEF AdminRevocation
    <3>4. QED  BY <3>1, <3>3 DEF Made, OpState
  <2>4. QED  BY <1>3, <2>1, <2>2, <2>3
<1>5. NsInv'
  BY <1>4, NsInvStep
<1>6. LedgerOK' /\ LedgerGrows
  BY <1>2, <1>4, <1>5, EventsLogged DEF NsInv
<1>7. /\ DOMAIN op' = Op /\ op'[o] = t
      /\ \A p \in Op \ {o} : op'[p] = Outdated(Inputs(u))[p]
  BY <1>2 DEF Outdated
<1>8. ASSUME NEW p \in Op
      PROVE  /\ op'[p] \in OpState
             /\ op'[p] = op[p] \/ op'[p].stage \in {"stale", "executed"}
             /\ Made(op[p])'
  <2>1. CASE p = o
    BY <1>4, <1>7, <2>1
  <2>2. CASE p # o
    <3> PICK r : r = Outdated(Inputs(u))[p]
      OBVIOUS
    <3>1. /\ r \in OpState /\ op'[p] = r
          /\ \/ r = op[p] /\ (r.stage = "built" => Inputs(r) \cap Inputs(u) = {})
             \/ r.stage = "stale"
      BY <1>7, <2>2, OutdatedRun
    <3>2. CASE r.stage = "stale"
      BY <3>1, <3>2 DEF Made
    <3>3. CASE r = op[p] /\ r.stage = "built" /\ Inputs(r) \cap Inputs(u) = {}
      <4>1. WouldSucceed(r)
        BY <3>3 DEF Made
      <4>2. WouldSucceed(r)'
        BY <1>1, <1>2, <3>1, <3>3, <4>1, OthersSucceed
      <4>3. QED  BY <3>1, <3>3, <4>2 DEF Made
    <3>4. CASE r = op[p] /\ r.stage # "built"
      <4>1. Made(r)
        BY <3>4
      <4>2. Made(r)'
        BY <1>4, <3>1, <3>4, <4>1, MadeStays DEF NsInv
      <4>3. QED  BY <3>1, <3>4, <4>2
    <3>5. QED  BY <3>1, <3>2, <3>3, <3>4
  <2>3. QED  BY <2>1, <2>2
<1>9. OpsOK'
  <2>1. op' \in [Op -> OpState]
    <3>1. op' = [p \in Op |-> op'[p]]
      BY <1>2, <1>7 DEF Outdated
    <3>2. QED  BY <1>8, <3>1
  <2>2. QED  BY <1>8, <2>1
<1>10. RequestsOK'
  BY <1>2, <1>6, RequestStays DEF RequestsOK
<1>11. PanelOK'
  BY <1>2, <1>6, <1>8, PanelStays
<1>12. QED  BY <1>5, <1>6, <1>9, <1>10, <1>11

\* A holder moves a capability, so what was built on it is stale.
LEMMA TransferredStep ==
  ASSUME SharingInv, NEW c \in CapId, NEW recipient \in Address, Transferred(c, recipient)
  PROVE  SharingInv'
<1> USE DEF SharingInv, OpsOK
<1>1. /\ c \in DOMAIN caps /\ caps' = [caps EXCEPT ![c].owner = recipient]
      /\ UNCHANGED <<namespaces, minted, revokedLog, ledger, request, field, panel>>
      /\ op' = Outdated({c}) /\ NsNext
  BY DEF Transferred, TransferCapability, historyVars, NsNext
<1>2. NsInv'
  BY <1>1, NsInvStep
<1>3. LedgerOK' /\ LedgerGrows
  BY <1>1, NothingLogged DEF LedgerOK
<1>4. ChainGrows
  BY <1>1 DEF ChainGrows
<1>5. /\ DOMAIN caps' = DOMAIN caps
      /\ \A d \in DOMAIN caps : /\ caps'[d].kind = caps[d].kind
                                /\ caps'[d].namespace_id = caps[d].namespace_id
  BY <1>1 DEF NsInv, NsTypeOK, Capability
<1>6. ASSUME NEW p \in Op
      PROVE  /\ op'[p] \in OpState
             /\ op'[p] = op[p] \/ op'[p].stage = "stale"
             /\ Made(op[p])'
  <2> PICK r : r = Outdated({c})[p]
    OBVIOUS
  <2>1. r \in OpState /\ op'[p] = r /\ (r = op[p] \/ r.stage = "stale")
    BY <1>1, OutdatedRun
  <2>2. CASE r.stage = "stale"
    BY <2>1, <2>2 DEF Made
  <2>3. CASE r = op[p] /\ r.stage = "built"
    <3>1. WouldSucceed(r)
      BY <2>3 DEF Made
    <3>2. WouldSucceed(r)'
      BY <1>1, <1>5, <3>1 DEF WouldSucceed, Accepted, AssertCapForNamespace, IsCapabilityRevoked
    <3>3. QED  BY <2>1, <2>3, <3>2 DEF Made
  <2>4. CASE r = op[p] /\ r.stage # "built"
    <3>1. Made(r)
      BY <2>4
    <3>2. Made(r)'
      BY <1>4, <2>1, <2>4, <3>1, MadeStays DEF NsInv
    <3>3. QED  BY <2>1, <2>4, <3>2
  <2>5. QED  BY <2>1, <2>2, <2>3, <2>4
<1>7. OpsOK'
  <2>1. op' \in [Op -> OpState]
    <3>1. op' = [p \in Op |-> op'[p]]
      BY <1>1 DEF Outdated
    <3>2. QED  BY <1>6, <3>1
  <2>2. QED  BY <1>6, <2>1
<1>8. RequestsOK'
  BY <1>1, <1>3, RequestStays DEF RequestsOK
<1>9. PanelOK'
  BY <1>1, <1>3, <1>6, PanelStays
<1>10. QED  BY <1>2, <1>3, <1>7, <1>8, <1>9

\* The state of one run changes and the chain does not.
LEMMA OneRunChanges ==
  ASSUME NsInv, LedgerOK, OpsOK, UNCHANGED <<nsVars, ledger>>, NEW o \in Op, NEW t \in OpState, Made(t),
         op' = [op EXCEPT ![o] = t]
  PROVE  NsInv' /\ LedgerOK' /\ LedgerGrows /\ OpsOK'
<1>1. NsInv'
  BY NsInvStep
<1>2. LedgerOK' /\ LedgerGrows
  BY NothingLogged DEF LedgerOK, nsVars
<1>3. ASSUME NEW r, Made(r) PROVE Made(r)'
  BY <1>3 DEF Made, WouldSucceed, Accepted, AssertCapForNamespace, IsCapabilityRevoked, nsVars
<1>4. op' \in [Op -> OpState]
  BY DEF OpsOK
<1>5. ASSUME NEW p \in Op PROVE Made(op[p])'
  <2> PICK r : r = op'[p]
    OBVIOUS
  <2>1. Made(r)
    BY DEF OpsOK
  <2>2. QED  BY <1>3, <2>1
<1>6. QED  BY <1>1, <1>2, <1>4, <1>5 DEF OpsOK

LEMMA RunStep ==
  ASSUME SharingInv, UNCHANGED <<nsVars, ledger, request, field, panel>>,
         NEW o \in Op, NEW t \in OpState, Made(t), t.stage = "done" => t.via # "page",
         op' = [op EXCEPT ![o] = t]
  PROVE  SharingInv'
<1>1. NsInv' /\ LedgerOK' /\ LedgerGrows /\ OpsOK'
  BY OneRunChanges DEF SharingInv
<1>2. RequestsOK'
  BY <1>1, RequestStays DEF RequestsOK, SharingInv
<1>3. PanelOK'
  <2>1. \A p \in Op : op'[p].stage = "done" /\ op'[p].via = "page" => op'[p] = op[p]
    BY DEF SharingInv, OpsOK
  <2>2. QED  BY <1>1, <2>1, PanelStays DEF SharingInv
<1>4. QED  BY <1>1, <1>2, <1>3 DEF SharingInv

\* A run starts with what its dry run has found to succeed.
LEMMA StartStep ==
  ASSUME SharingInv, UNCHANGED <<nsVars, historyVars, field, panel>>, NEW o \in Op, NEW r \in OpState,
         r.stage = "built", Started(o, r)
  PROVE  SharingInv'
<1>1. Made(r)
  BY DEF Made, Started
<1>2. QED  BY <1>1, RunStep DEF Started, historyVars

LEMMA ShareStarts ==
  ASSUME SharingInv, NEW o \in Op, NEW admin \in AdminArg, NEW kind \in ShareKind,
         \/ PageShare(o, admin, kind)
         \/ \E n \in NamespaceId : NamespaceShare(o, n, admin, kind)
  PROVE  SharingInv'
<1>1. PICK n \in NamespaceId, via \in {"other", "page"} :
        /\ Started(o, [stage |-> "built", via |-> via, cmd |-> "share", namespaceId |-> n,
                       adminCapId |-> admin, kind |-> kind])
        /\ UNCHANGED <<nsVars, historyVars, field, panel>>
  <2>1. CASE PageShare(o, admin, kind)
    <3>1. field \subseteq NamespaceId
      BY DEF SharingInv, PanelOK
    <3>2. QED  BY <2>1, <3>1 DEF PageShare
  <2>2. CASE \E n \in NamespaceId : NamespaceShare(o, n, admin, kind)
    BY <2>2 DEF NamespaceShare
  <2>3. QED  BY <2>1, <2>2
<1>2. PICK r : r = [stage |-> "built", via |-> via, cmd |-> "share", namespaceId |-> n,
                    adminCapId |-> admin, kind |-> kind]
  OBVIOUS
<1>3. r \in OpState /\ r.stage = "built"
  BY <1>2 DEF OpState, ShareToMake
<1>4. QED  BY <1>1, <1>2, <1>3, StartStep

LEMMA RevokeStarts ==
  ASSUME SharingInv, NEW o \in Op, NEW c \in DOMAIN minted, NEW allowAdmin \in BOOLEAN,
         \/ NamespaceRevoke(o, c, allowAdmin) \/ SelfRevoke(o, c, allowAdmin)
         \/ \E n \in NamespaceId, admin \in AdminArg :
              NamespaceAdminRevoke(o, n, admin, c, allowAdmin)
  PROVE  SharingInv'
<1>1. c \in CapId
  BY DEF SharingInv, NsInv, NsTypeOK
<1>2. CASE NamespaceRevoke(o, c, allowAdmin) \/ SelfRevoke(o, c, allowAdmin)
  <2>1. PICK via \in {"other", "landing"} : Revoke(o, c, allowAdmin, via)
    BY <1>2 DEF NamespaceRevoke, SelfRevoke
  <2>2. PICK r : r = [stage |-> "built", via |-> via, cmd |-> "revoke", capId |-> c]
    OBVIOUS
  <2>3. r \in OpState /\ r.stage = "built"
    BY <1>1, <2>2 DEF OpState, Revocation
  <2>4. QED  BY <2>1, <2>2, <2>3, StartStep DEF Revoke
<1>3. ASSUME NEW n \in NamespaceId, NEW admin \in AdminArg,
             NamespaceAdminRevoke(o, n, admin, c, allowAdmin)
      PROVE  SharingInv'
  <2>1. PICK r : r = [stage |-> "built", via |-> "other", cmd |-> "admin_revoke", namespaceId |-> n,
                      adminCapId |-> admin, capId |-> c]
    OBVIOUS
  <2>2. r \in OpState /\ r.stage = "built"
    BY <1>1, <2>1 DEF OpState, AdminRevocation
  <2>3. QED  BY <1>3, <2>1, <2>2, StartStep DEF NamespaceAdminRevoke
<1>4. QED  BY <1>2, <1>3

\* A run that fails, whatever has become of its transaction.
LEMMA FailStep ==
  ASSUME SharingInv, NEW o \in Op, Rejected(o) \/ AnswerLost(o)
  PROVE  SharingInv'
<1>1. /\ op' = [op EXCEPT ![o] = Failed]
      /\ UNCHANGED <<nsVars, ledger, request, field, panel>>
  BY DEF Rejected, AnswerLost, historyVars
<1>2. Failed \in OpState /\ Made(Failed) /\ Failed.stage # "done"
  BY DEF OpState, Made, Failed
<1>3. QED  BY <1>1, <1>2, RunStep

\* What a report says of a run that has been executed.
LEMMA DoneRun ==
  ASSUME NEW r \in OpState, r.stage = "executed", Made(r), NEW t, t = Done(r)
  PROVE  /\ t \in OpState /\ Made(t) /\ t.stage = "done" /\ t.via = r.via
         /\ r.via = "page" =>
              /\ r \in ShareMade /\ t \in ShareMade
              /\ t.namespaceId = r.namespaceId /\ t.capId = r.capId
              /\ r.capId \in DOMAIN minted
              /\ minted[r.capId] = [kind |-> r.kind, namespace_id |-> r.namespaceId]
<1>1. t = [r EXCEPT !.stage = "done"]
  BY DEF Done
<1>2. r \in ShareMade \/ r \in Revocation \/ r \in AdminRevocation
  BY DEF OpState, Idle, Failed, ShareToMake
<1>3. CASE r \in ShareMade
  BY <1>1, <1>3 DEF OpState, ShareMade, Made
<1>4. CASE r \in Revocation
  BY <1>1, <1>4 DEF OpState, Revocation, Made
<1>5. CASE r \in AdminRevocation
  BY <1>1, <1>5 DEF OpState, AdminRevocation, Made
<1>6. QED  BY <1>2, <1>3, <1>4, <1>5

LEMMA ReportsStep ==
  ASSUME SharingInv, NEW o \in Op, Reports(o)
  PROVE  SharingInv'
<1> PICK r \in OpState : r = op[o]
  BY DEF SharingInv, OpsOK
<1>1. r.stage = "executed" /\ r.via # "page" /\ Made(r)
  BY DEF Reports, SharingInv, OpsOK
<1> PICK t : t = Done(r)
  OBVIOUS
<1>2. t \in OpState /\ Made(t) /\ t.via # "page"
  BY <1>1, DoneRun
<1>3. QED  BY <1>2, RunStep DEF Reports, historyVars

-----------------------------------------------------------------------------
(***************************************************************************)
(* Steps of the page and of its requests.                                  *)
(***************************************************************************)
LEMMA PageOnly ==
  ASSUME NsInv, LedgerOK, OpsOK, UNCHANGED <<nsVars, ledger, op>>
  PROVE  NsInv' /\ LedgerOK' /\ LedgerGrows /\ OpsOK'
<1>1. NsInv'
  BY NsInvStep
<1>2. LedgerOK' /\ LedgerGrows
  BY NothingLogged DEF LedgerOK, nsVars
<1>3. OpsOK'
  BY DEF OpsOK, Made, WouldSucceed, Accepted, AssertCapForNamespace, IsCapabilityRevoked, nsVars
<1>4. QED  BY <1>1, <1>2, <1>3

\* A share that the page has reported is an event on the ledger.
LEMMA MadeIsListed ==
  ASSUME LedgerOK, NEW r \in OpState, Made(r), r.stage = "done", r.via = "page"
  PROVE  r.capId \in Of("minted", r.namespaceId, Len(ledger["minted"]))
<1>1. r \in ShareMade
  BY DEF OpState, Idle, Failed, ShareToMake, Revocation, AdminRevocation
<1>2. r.capId \in DOMAIN minted /\ minted[r.capId].namespace_id = r.namespaceId
  BY <1>1 DEF Made, ShareMade
<1>3. Event(r.namespaceId, r.capId) \in Range(ledger.minted)
  BY <1>2 DEF LedgerOK
<1>4. PICK i \in DOMAIN ledger.minted : ledger.minted[i] = Event(r.namespaceId, r.capId)
  BY <1>3 DEF Range
<1>5. i \in 1..Len(ledger["minted"])
  BY <1>4 DEF LedgerOK
<1>6. ledger["minted"][i].cap_id = r.capId /\ ledger["minted"][i].namespace_id = r.namespaceId
  BY <1>4 DEF Event
<1>7. QED  BY <1>5, <1>6 DEF Of, Named

\* The request that replaces the one under way.
LEMMA RefreshStep ==
  ASSUME LedgerOK, LedgerOK', RequestsOK, PanelOK, UNCHANGED ledger, NEW n \in NamespaceId,
         Refreshed(n), field' = {n},
         \A p \in Op : op'[p].stage = "done" /\ op'[p].via = "page" =>
           op'[p].capId \in Of("minted", op'[p].namespaceId, Len(ledger["minted"]))
  PROVE  RequestsOK' /\ PanelOK'
<1>1. PICK q \in Request : /\ request[q] = NoRequest
                           /\ request' = [Aborted EXCEPT ![q] = Asked(n)]
                           /\ panel' = [panel EXCEPT !.status = "loading"]
  BY DEF Refreshed
<1>2. DOMAIN request' = Request /\ request'[q] = Asked(n)
  BY <1>1 DEF Aborted
<1>3. \A p \in Request \ {q} :
        \/ request'[p] = Failed
        \/ request'[p] = request[p] /\ request[p].stage # "reading"
  BY <1>1 DEF Aborted
<1>4. Asked(n) \in Reading /\ Asked(n).stage = "reading"
  <2>1. \A s \in Stream : Len(ledger[s]) \in Nat
    BY DEF LedgerOK, Stream
  <2>2. QED  BY <2>1 DEF Asked, Reading, Scan, Unread
<1>5. LedgerGrows
  BY NothingLogged
<1>6. RequestOK(q)'
  <2> PICK a : a = Asked(n)
    OBVIOUS
  <2>1. ASSUME NEW s \in Stream
        PROVE  /\ a[s] = Unread /\ a.namespaceId = n
               /\ a.begun[s] = Len(ledger[s]) /\ Len(ledger[s]) \in Nat
    BY DEF Asked, Stream, LedgerOK
  <2>2. \A s \in Stream : /\ a[s].cursor = 0 /\ a[s].horizon = 0 /\ a[s].rows = {} /\ a[s].more
                          /\ Named(ledger[s], n, 0) = {}
    BY <2>1 DEF Unread, Named
  <2>3. ASSUME NEW s \in Stream PROVE ScanOK(q, s)'
    <3>1. ledger' = ledger /\ a[s].rows = Named(ledger[s], n, 0)
      BY <2>2
    <3>2. request'[q].namespaceId = n /\ request'[q].begun[s] = Len(ledger[s]) /\ request'[q][s] = a[s]
      BY <1>2, <2>1
    <3>3. QED  BY <2>1, <2>2, <3>1, <3>2 DEF ScanOK, Of
  <2>4. QED  BY <1>2, <1>4, <2>3 DEF RequestOK
<1>7. RequestsOK'
  <2>1. ASSUME NEW p \in Request \ {q} PROVE RequestOK(p)'
    <3>1. CASE request'[p] = Failed
      BY <3>1 DEF RequestOK
    <3>2. CASE request'[p] = request[p]
      BY <1>5, <3>2, RequestStays DEF RequestsOK
    <3>3. QED  BY <1>3, <3>1, <3>2
  <2>2. QED  BY <1>2, <1>6, <2>1 DEF RequestsOK
<1>8. \A p \in Request : request'[p].stage = "reading" => p = q
  BY <1>3 DEF Failed
<1>9. Listed(q)' /\ request'[q].namespaceId = n
  <2>1. Asked(n).namespaceId = n /\ Asked(n).begun["minted"] = Len(ledger["minted"])
    BY DEF Asked, Stream
  <2>2. \A m, k : Of("minted", m, k)' = Of("minted", m, k)
    BY DEF Of
  <2>3. QED  BY <1>2, <2>1, <2>2 DEF Listed
<1>10. panel' \in [status : {"idle", "loading", "ready", "error"}, shown : SUBSET Request]
       /\ panel'.status # "ready"
  BY <1>1 DEF PanelOK
<1>11. QED  BY <1>7, <1>8, <1>9, <1>10 DEF PanelOK

LEMMA PageReportsStep ==
  ASSUME SharingInv, NEW o \in Op, PageReports(o)
  PROVE  SharingInv'
<1> USE DEF SharingInv
<1> PICK r \in OpState : r = op[o]
  BY DEF OpsOK
<1> PICK t : t = Done(r)
  OBVIOUS
<1>1. /\ r.stage = "executed" /\ r.via = "page" /\ Made(r)
      /\ op' = [op EXCEPT ![o] = t]
      /\ UNCHANGED <<nsVars, ledger, field>>
  BY DEF PageReports, OpsOK
<1>2. t \in OpState /\ Made(t)
  BY <1>1, DoneRun
<1>3. NsInv' /\ LedgerOK' /\ LedgerGrows /\ OpsOK'
  BY <1>1, <1>2, OneRunChanges
<1>4. ASSUME NEW p \in Op, op'[p].stage = "done", op'[p].via = "page"
      PROVE  op'[p].capId \in Of("minted", op'[p].namespaceId, Len(ledger["minted"]))
  <2> PICK x : x = op'[p]
    OBVIOUS
  <2>1. x \in OpState /\ Made(x)
    BY <1>1, <1>2 DEF OpsOK
  <2>2. QED  BY <1>4, <2>1, MadeIsListed
<1>5. CASE field = {}
  <2>1. UNCHANGED <<request, panel>>
    BY <1>5 DEF PageReports
  <2>2. RequestsOK'
    BY <1>3, <2>1, RequestStays DEF RequestsOK
  <2>3. PanelOK'
    BY <1>1, <1>5, <2>1 DEF PanelOK
  <2>4. QED  BY <1>3, <2>2, <2>3
<1>6. CASE field # {}
  <2>1. PICK n \in NamespaceId : field = {n} /\ Refreshed(n)
    BY <1>6 DEF PageReports, PanelOK
  <2>2. QED  BY <1>1, <1>3, <1>4, <2>1, RefreshStep
<1>7. QED  BY <1>5, <1>6

LEMMA EnterStep ==
  ASSUME SharingInv, NEW n \in NamespaceId, EnterNamespace(n)
  PROVE  SharingInv'
<1> USE DEF SharingInv
<1>1. field' = {n} /\ Refreshed(n) /\ UNCHANGED <<nsVars, ledger, op>>
  BY DEF EnterNamespace
<1>2. NsInv' /\ LedgerOK' /\ OpsOK'
  BY <1>1, PageOnly
<1>3. \A p \in Op : op'[p].stage = "done" /\ op'[p].via = "page" =>
           op'[p].capId \in Of("minted", op'[p].namespaceId, Len(ledger["minted"]))
  BY <1>1, MadeIsListed DEF OpsOK
<1>4. QED  BY <1>1, <1>2, <1>3, RefreshStep

LEMMA ClearStep ==
  ASSUME SharingInv, ClearNamespace
  PROVE  SharingInv'
<1> USE DEF SharingInv
<1>1. /\ field' = {} /\ request' = Aborted /\ panel' = [status |-> "idle", shown |-> {}]
      /\ UNCHANGED <<nsVars, ledger, op>>
  BY DEF ClearNamespace
<1>2. NsInv' /\ LedgerOK' /\ LedgerGrows /\ OpsOK'
  BY <1>1, PageOnly
<1>3. \A p \in Request : \/ request'[p] = Failed
                         \/ request'[p] = request[p] /\ request[p].stage # "reading"
  BY <1>1 DEF Aborted
<1>4. RequestsOK'
  <2>1. ASSUME NEW p \in Request PROVE RequestOK(p)'
    <3>1. CASE request'[p] = Failed
      BY <3>1 DEF RequestOK
    <3>2. CASE request'[p] = request[p]
      BY <1>2, <3>2, RequestStays DEF RequestsOK
    <3>3. QED  BY <1>3, <3>1, <3>2
  <2>2. QED  BY <1>1, <2>1 DEF RequestsOK, Aborted
<1>5. PanelOK'
  BY <1>1, <1>3 DEF PanelOK, Failed
<1>6. QED  BY <1>2, <1>4, <1>5

\* The other requests while one is answered.
LEMMA OthersStay ==
  ASSUME SharingInv, UNCHANGED <<nsVars, ledger, op, field>>, NEW q \in Request,
         DOMAIN request' = Request, \A p \in Request \ {q} : request'[p] = request[p],
         RequestOK(q)'
  PROVE  /\ NsInv' /\ LedgerOK' /\ LedgerGrows /\ OpsOK' /\ RequestsOK'
         /\ \A p \in Request \ {q} : request'[p].stage = "reading" =>
              field' = {request'[p].namespaceId} /\ Listed(p)'
<1> USE DEF SharingInv
<1>1. NsInv' /\ LedgerOK' /\ LedgerGrows /\ OpsOK'
  BY PageOnly
<1>2. RequestsOK'
  BY <1>1, RequestStays DEF RequestsOK
<1>3. ASSUME NEW p \in Request \ {q}, request'[p].stage = "reading"
      PROVE  field' = {request'[p].namespaceId} /\ Listed(p)'
  <2>1. RequestOK(p) /\ request[p].stage = "reading" /\ Listed(p)
    BY <1>3 DEF RequestsOK, PanelOK
  <2>2. Listed(p)'
    BY <1>1, <2>1, ListedStays
  <2>3. QED  BY <1>3, <2>2 DEF PanelOK
<1>4. QED  BY <1>1, <1>2, <1>3

LEMMA AnsweredStep ==
  ASSUME SharingInv, NEW q \in Request, Answered(q)
  PROVE  SharingInv'
<1> USE DEF SharingInv
<1>1. /\ request[q].stage = "reading" /\ \A s \in Stream : ~request[q][s].more
      /\ request' = [request EXCEPT ![q].stage = "done"]
      /\ panel' = [status |-> "ready", shown |-> {q}]
      /\ UNCHANGED <<nsVars, ledger, op, field>>
  BY DEF Answered, Joined
<1> PICK r : r = request[q]
  OBVIOUS
<1>2. r \in Reading /\ \A s \in Stream : ScanOK(q, s)
  BY <1>1 DEF RequestsOK, RequestOK, NoRequest, Failed
<1> PICK t : t = [r EXCEPT !.stage = "done"]
  OBVIOUS
<1>3. t \in Reading /\ t.stage = "done" /\ t.namespaceId = r.namespaceId /\ t.begun = r.begun
      /\ \A s \in Stream : t[s] = r[s]
  BY <1>2 DEF Reading, Stream
<1>4. DOMAIN request' = Request /\ request'[q] = t /\ \A p \in Request \ {q} : request'[p] = request[p]
  BY <1>1 DEF RequestsOK
<1>5. ASSUME NEW s \in Stream PROVE ScanOK(q, s)'
  BY <1>1, <1>2, <1>3, <1>4 DEF ScanOK, Of
<1>6. RequestOK(q)'
  BY <1>1, <1>3, <1>4, <1>5 DEF RequestOK
<1>7. /\ NsInv' /\ LedgerOK' /\ LedgerGrows /\ OpsOK' /\ RequestsOK'
      /\ \A p \in Request \ {q} : request'[p].stage = "reading" =>
           field' = {request'[p].namespaceId} /\ Listed(p)'
  BY <1>1, <1>4, <1>6, OthersStay
<1>8. field' = {request'[q].namespaceId} /\ Listed(q)'
  <2>1. field = {r.namespaceId} /\ Listed(q) /\ RequestOK(q)
    BY <1>1 DEF PanelOK, RequestsOK
  <2>2. \A o \in Op : op'[o] = op[o]
    BY <1>1
  <2>3. Listed(q)'
    BY <1>1, <1>3, <1>4, <1>7, <2>1, <2>2, ListedStays
  <2>4. QED  BY <1>1, <1>3, <1>4, <2>1, <2>3
<1>9. PanelOK'
  <2>1. \A p \in Request : request'[p].stage = "reading" => field' = {request'[p].namespaceId} /\ Listed(p)'
    BY <1>3, <1>4, <1>7
  <2>2. panel'.status = "ready" /\ panel'.shown = {q} /\ request'[q].stage = "done"
    BY <1>1, <1>3, <1>4
  <2>3. /\ panel' \in [status : {"idle", "loading", "ready", "error"}, shown : SUBSET Request]
        /\ field' \in {{}} \cup {{n} : n \in NamespaceId}
    BY <1>1 DEF PanelOK
  <2>4. QED  BY <1>8, <2>1, <2>2, <2>3 DEF PanelOK
<1>10. QED  BY <1>7, <1>9

LEMMA ErroredStep ==
  ASSUME SharingInv, NEW q \in Request, Errored(q)
  PROVE  SharingInv'
<1> USE DEF SharingInv
<1>1. /\ request' = [request EXCEPT ![q] = Failed]
      /\ panel' = [status |-> "error", shown |-> {}]
      /\ UNCHANGED <<nsVars, ledger, op, field>>
  BY DEF Errored, Fails
<1>2. DOMAIN request' = Request /\ request'[q] = Failed /\ \A p \in Request \ {q} : request'[p] = request[p]
  BY <1>1 DEF RequestsOK
<1>3. RequestOK(q)'
  BY <1>2 DEF RequestOK
<1>4. /\ NsInv' /\ LedgerOK' /\ LedgerGrows /\ OpsOK' /\ RequestsOK'
      /\ \A p \in Request \ {q} : request'[p].stage = "reading" =>
           field' = {request'[p].namespaceId} /\ Listed(p)'
  BY <1>1, <1>2, <1>3, OthersStay
<1>5. PanelOK'
  BY <1>1, <1>2, <1>4 DEF PanelOK, Failed
<1>6. QED  BY <1>4, <1>5

LEMMA ScanStays ==
  ASSUME UNCHANGED ledger, NEW q, NEW s \in Stream, ScanOK(q, s), request'[q][s] = request[q][s],
         request'[q].namespaceId = request[q].namespaceId, request'[q].begun = request[q].begun
  PROVE  ScanOK(q, s)'
BY DEF ScanOK, Of

\* The events up to the new cursor have been read, and no others.
LEMMA PageStep ==
  ASSUME SharingInv, NEW q \in Request, NEW s \in Stream, NEW h \in 0..Len(ledger[s]),
         PageOfEvents(q, s, h)
  PROVE  SharingInv'
<1> USE DEF SharingInv
<1> PICK r : r = request[q]
  OBVIOUS
<1>1. /\ r.stage = "reading" /\ r[s].more /\ h >= r[s].cursor
      /\ UNCHANGED <<nsVars, ledger, op, field, panel>>
  BY DEF PageOfEvents, QueryEvents
<1>2. r \in Reading /\ \A x \in Stream : ScanOK(q, x)
  BY <1>1 DEF RequestsOK, RequestOK, NoRequest, Failed
<1>3. PICK L \in Seq(EventType) : L = ledger[s]
  BY DEF LedgerOK, Stream
<1>4. h \in Nat /\ h <= Len(L)
  BY <1>3
<1>5. r[s] \in Scan /\ r[s].rows = Named(L, r.namespaceId, r[s].cursor)
  BY <1>2, <1>3, ReadingIsTyped DEF ScanOK, Of
<1>6. PICK a \in Nat : a = r[s].cursor
  BY <1>5 DEF Scan
<1>7. PICK m \in Nat : m = IF h < a + PageSize THEN h ELSE a + PageSize
  BY HistoryConstants
<1>8. a <= m /\ m <= h /\ m <= Len(L)
  BY <1>1, <1>4, <1>6, <1>7, HistoryConstants
<1>9. PICK n : n = r.namespaceId
  OBVIOUS
<1>10. /\ a + Len(SubSeq(L, a + 1, m)) = m
       /\ Named(L, n, a) \cup Kept(SubSeq(L, a + 1, m), n) = Named(L, n, m)
       /\ Named(L, n, m) \subseteq CapId
  <2>1. /\ Len(SubSeq(L, a + 1, m)) = m - a
        /\ Named(L, n, a) \cup Kept(SubSeq(L, a + 1, m), n) = Named(L, n, m)
        /\ Named(L, n, m) \subseteq CapId
    BY <1>8, PageRead
  <2>2. QED  BY <2>1
<1>11. PICK rows \in SUBSET CapId : rows = Named(L, n, m)
  BY <1>10
<1>12. PICK more \in BOOLEAN : more = (h > m)
  <2>1. (h > m) \in BOOLEAN
    OBVIOUS
  <2>2. QED  BY <2>1, Zenon
<1>13. PICK scan : scan = [cursor |-> m, rows |-> rows, more |-> more, horizon |-> h]
  OBVIOUS
<1>14. request' = [request EXCEPT ![q][s] = scan]
  <2>1. request' = [request EXCEPT ![q][s] =
          [cursor |-> r[s].cursor + Len(Page(s, r[s].cursor, h)),
           rows |-> r[s].rows \cup Kept(Page(s, r[s].cursor, h), n),
           more |-> h > r[s].cursor + Len(Page(s, r[s].cursor, h)),
           horizon |-> h]]
    BY <1>9 DEF PageOfEvents, QueryEvents
  <2>2. Page(s, r[s].cursor, h) = SubSeq(L, a + 1, m)
    BY <1>3, <1>6, <1>7 DEF Page
  <2>3. r[s].cursor + Len(Page(s, r[s].cursor, h)) = m
    BY <1>6, <1>10, <2>2
  <2>4. r[s].rows \cup Kept(Page(s, r[s].cursor, h), n) = rows
    BY <1>5, <1>6, <1>9, <1>10, <1>11, <2>2
  <2>5. [cursor |-> r[s].cursor + Len(Page(s, r[s].cursor, h)),
         rows |-> r[s].rows \cup Kept(Page(s, r[s].cursor, h), n),
         more |-> h > r[s].cursor + Len(Page(s, r[s].cursor, h)),
         horizon |-> h] = scan
    BY <1>12, <1>13, <2>3, <2>4, Zenon
  <2>6. QED  BY <2>1, <2>5, Zenon
<1>15. /\ scan \in Scan /\ scan.cursor = m /\ scan.horizon = h
       /\ scan.rows = Named(L, n, m)
       /\ ~scan.more => m = h
  <2>1. (more <=> h > m) /\ m <= h /\ h \in Nat
    BY <1>4, <1>8, <1>12
  <2>2. scan \in Scan /\ scan.cursor = m /\ scan.horizon = h /\ scan.rows = rows /\ scan.more = more
    BY <1>13, <2>1 DEF Scan
  <2>3. ~more => m = h
    BY <2>1
  <2>4. QED  BY <1>11, <2>2, <2>3
<1>16. PICK t : t = [r EXCEPT ![s] = scan]
  OBVIOUS
<1>17. /\ t \in Reading /\ t.stage = "reading" /\ t.namespaceId = n /\ t.begun = r.begun
       /\ t[s] = scan /\ \A x \in Stream \ {s} : t[x] = r[x]
  BY <1>1, <1>2, <1>9, <1>15, <1>16 DEF Reading, Stream
<1>18. DOMAIN request' = Request /\ request'[q] = t /\ \A p \in Request \ {q} : request'[p] = request[p]
  BY <1>14, <1>16 DEF RequestsOK
<1>19. ASSUME NEW x \in Stream PROVE ScanOK(q, x)'
  <2>1. CASE x = s
    <3>1. r.begun[s] <= Len(L)
      BY <1>2, <1>3 DEF ScanOK
    <3>2. ledger'[s] = L
      BY <1>1, <1>3
    <3>3. /\ request'[q][s] = scan /\ request'[q].namespaceId = n
          /\ request'[q].begun = r.begun
      BY <1>17, <1>18
    <3>4. /\ scan.cursor <= scan.horizon /\ scan.horizon <= Len(L)
          /\ ~scan.more => scan.cursor = scan.horizon
      BY <1>4, <1>8, <1>15
    <3>5. scan.rows = Named(L, n, scan.cursor)
      BY <1>15
    <3>6. ScanOK(q, s)'
      BY <3>1, <3>2, <3>3, <3>4, <3>5 DEF ScanOK, Of
    <3>7. QED  BY <2>1, <3>6
  <2>2. CASE x # s
    <3>1. ScanOK(q, x) /\ t[x] = r[x]
      BY <1>2, <1>17, <2>2
    <3>2. QED  BY <1>1, <1>9, <1>17, <1>18, <3>1, ScanStays
  <2>3. QED  BY <2>1, <2>2
<1>20. RequestOK(q)'
  BY <1>17, <1>18, <1>19 DEF RequestOK
<1>21. /\ NsInv' /\ LedgerOK' /\ LedgerGrows /\ OpsOK' /\ RequestsOK'
       /\ \A p \in Request \ {q} : request'[p].stage = "reading" =>
            field' = {request'[p].namespaceId} /\ Listed(p)'
  BY <1>1, <1>18, <1>20, OthersStay
<1>22. field = {n} /\ Listed(q) /\ RequestOK(q)
  BY <1>1, <1>9 DEF PanelOK, RequestsOK
<1>23. \A o \in Op : op'[o] = op[o]
  BY <1>1
<1>24. Listed(q)'
  BY <1>1, <1>9, <1>17, <1>18, <1>21, <1>22, <1>23, ListedStays
<1>25. ASSUME panel.status = "ready", NEW p \in panel.shown
       PROVE  /\ request'[p].stage = "done"
              /\ field' = {request'[p].namespaceId} /\ Listed(p)'
  <2>1. p \in Request /\ request[p].stage = "done" /\ field = {request[p].namespaceId} /\ Listed(p)
    BY <1>25 DEF PanelOK
  <2>2. p # q /\ RequestOK(p)
    BY <1>1, <2>1 DEF RequestsOK
  <2>3. Listed(p)'
    BY <1>18, <1>21, <1>23, <2>1, <2>2, ListedStays
  <2>4. QED  BY <1>1, <1>18, <2>1, <2>2, <2>3
<1>26. PanelOK'
  <2>1. panel' = panel /\ field' = field
    BY <1>1
  <2>2. \A p \in Request : request'[p].stage = "reading" => field' = {request'[p].namespaceId} /\ Listed(p)'
    BY <1>17, <1>18, <1>21, <1>22, <1>24, <2>1
  <2>3. QED  BY <1>25, <2>1, <2>2 DEF PanelOK
<1>27. QED  BY <1>21, <1>26

-----------------------------------------------------------------------------
(***************************************************************************)
(* The theorems.                                                           *)
(***************************************************************************)
LEMMA SharingStepInv == SharingInv /\ [SharingNext]_sharingVars => SharingInv'
<1> SUFFICES ASSUME SharingInv, [SharingNext]_sharingVars PROVE SharingInv'
  OBVIOUS
<1>1. ASSUME NEW o \in Op, NEW admin \in AdminArg, NEW kind \in ShareKind,
             \/ PageShare(o, admin, kind)
             \/ \E n \in NamespaceId : NamespaceShare(o, n, admin, kind)
      PROVE  SharingInv'
  BY <1>1, ShareStarts
<1>2. ASSUME NEW o \in Op, NEW c \in DOMAIN minted, NEW allowAdmin \in BOOLEAN,
             \/ NamespaceRevoke(o, c, allowAdmin) \/ SelfRevoke(o, c, allowAdmin)
             \/ \E n \in NamespaceId, admin \in AdminArg :
                  NamespaceAdminRevoke(o, n, admin, c, allowAdmin)
      PROVE  SharingInv'
  BY <1>2, RevokeStarts
<1>3. ASSUME NEW o \in Op, Rejected(o) \/ AnswerLost(o) PROVE SharingInv'
  BY <1>3, FailStep
<1>4. ASSUME NEW o \in Op, Reports(o) PROVE SharingInv'
  BY <1>4, ReportsStep
<1>5. ASSUME NEW o \in Op, PageReports(o) PROVE SharingInv'
  BY <1>5, PageReportsStep
<1>6. ASSUME NEW o \in Op, NEW c \in CapId, Execute(o, c) PROVE SharingInv'
  BY <1>6, ExecuteStep
<1>7. ASSUME NEW c \in CapId, NEW recipient \in Address, Transferred(c, recipient) PROVE SharingInv'
  BY <1>7, TransferredStep
<1>8. ASSUME NEW n \in NamespaceId, EnterNamespace(n) PROVE SharingInv'
  BY <1>8, EnterStep
<1>9. CASE ClearNamespace
  BY <1>9, ClearStep
<1>10. ASSUME NEW q \in Request, Answered(q) PROVE SharingInv'
  BY <1>10, AnsweredStep
<1>11. ASSUME NEW q \in Request, Errored(q) PROVE SharingInv'
  BY <1>11, ErroredStep
<1>12. ASSUME NEW q \in Request, NEW s \in Stream, NEW h \in 0..Len(ledger[s]), PageOfEvents(q, s, h)
       PROVE  SharingInv'
  BY <1>12, PageStep
<1>13. CASE UNCHANGED sharingVars
  BY <1>13 DEF sharingVars, nsVars, SharingInv, NsInv, NsTypeOK, IndexPointsHome, CapsComeFromMinting,
    OneAdminCap, EventsTellAuthority, AssertCapForNamespace, IsCapabilityRevoked, LedgerOK, RequestsOK,
    RequestOK, ScanOK, Of, OpsOK, Made, WouldSucceed, Accepted, PanelOK, Listed
<1>14. QED
  BY <1>1, <1>2, <1>3, <1>4, <1>5, <1>6, <1>7, <1>8, <1>9, <1>10, <1>11, <1>12, <1>13 DEF SharingNext

\* It holds in every reachable state of the contract, the runs and the page.
THEOREM SharingInvariant == SharingSpec => []SharingInv
<1>1. SharingInit => SharingInv
  BY SharingInitInv
<1>2. SharingInv /\ [SharingNext]_sharingVars => SharingInv'
  BY SharingStepInv
<1>3. QED  BY <1>1, <1>2, PTL DEF SharingSpec

LEMMA NamedGrows ==
  ASSUME NEW L, NEW n, NEW k \in Nat, NEW m \in Nat, k <= m
  PROVE  Named(L, n, k) \subseteq Named(L, n, m)
BY DEF Named

LEMMA KeptFromStart ==
  ASSUME NEW L \in Seq(EventType), NEW m \in Nat, m <= Len(L), NEW n
  PROVE  Kept(SubSeq(L, 1, m), n) = Named(L, n, m)
<1>1. Named(L, n, 0) \cup Kept(SubSeq(L, 0 + 1, m), n) = Named(L, n, m)
  BY PageRead
<1>2. Named(L, n, 0) = {} /\ 0 + 1 = 1
  BY DEF Named
<1>3. QED  BY <1>1, <1>2

\* A capability that an event of n names.
LEMMA MintedEventNames ==
  ASSUME LedgerOK, NEW n, NEW k \in Nat, k <= Len(ledger["minted"]), NEW c \in Of("minted", n, k)
  PROVE  c \in DOMAIN minted /\ minted[c].namespace_id = n
<1>1. PICK i \in 1..k : ledger["minted"][i].namespace_id = n /\ ledger["minted"][i].cap_id = c
  BY DEF Of, Named
<1>2. ledger["minted"][i] \in Range(ledger.minted)
  BY DEF LedgerOK, Range
<1>3. QED  BY <1>1, <1>2 DEF LedgerOK, Event

LEMMA RevokedEventNames ==
  ASSUME LedgerOK, NsTypeOK, NEW n, NEW k \in Nat, k <= Len(ledger["revoked"]),
         NEW c \in Of("revoked", n, k)
  PROVE  <<n, c>> \in revokedLog
<1>1. PICK i \in 1..k : ledger["revoked"][i].namespace_id = n /\ ledger["revoked"][i].cap_id = c
  BY DEF Of, Named
<1>2. ledger["revoked"][i] \in Range(ledger.revoked)
  BY DEF LedgerOK, Range
<1>3. PICK p \in NamespaceId \X CapId : p \in revokedLog /\ ledger["revoked"][i] = Event(p[1], p[2])
  BY <1>2 DEF LedgerOK, NsTypeOK
<1>4. QED  BY <1>1, <1>3 DEF Event

LEMMA HistoryInv == SharingInv => HistoryIsRight
<1> SUFFICES ASSUME SharingInv, NEW q \in Request, request[q].stage = "done"
             PROVE  LET n == request[q].namespaceId
                        earlier(s) == Kept(SubSeq(ledger[s], 1, request[q].begun[s]), n)
                    IN
                    /\ \A row \in History(q) : /\ minted[row.capId].namespace_id = n
                                               /\ ~row.active => ~Works(row.capId)
                    /\ UpToDate(q) =>
                         /\ earlier("minted") \subseteq {row.capId : row \in History(q)}
                         /\ GetCapabilities(q) \cap earlier("revoked") = {}
  BY DEF HistoryIsRight, Kept
<1> PICK r : r = request[q]
  OBVIOUS
<1> PICK n : n = r.namespaceId
  OBVIOUS
<1>1. r \in Reading /\ \A s \in Stream : ScanOK(q, s) /\ ~r[s].more
  BY DEF SharingInv, RequestsOK, RequestOK, NoRequest, Failed
<1>2. ASSUME NEW s \in Stream
      PROVE  /\ r[s].cursor \in Nat /\ r[s].cursor = r[s].horizon
             /\ r[s].cursor <= Len(ledger[s]) /\ r[s].rows = Of(s, n, r[s].cursor)
             /\ r.begun[s] \in Nat /\ r.begun[s] <= Len(ledger[s]) /\ ledger[s] \in Seq(EventType)
  <2>1. r[s] \in Scan /\ r.begun[s] \in Nat
    BY <1>1, ReadingIsTyped
  <2>2. ledger[s] \in Seq(EventType)
    BY DEF SharingInv, LedgerOK, Stream
  <2>3. QED  BY <1>1, <2>1, <2>2 DEF ScanOK, Scan
<1>3. r["minted"] = r.minted /\ r["revoked"] = r.revoked /\ "minted" \in Stream /\ "revoked" \in Stream
  BY DEF Stream
<1>4. ASSUME NEW c \in r.minted.rows PROVE c \in DOMAIN minted /\ minted[c].namespace_id = n
  BY <1>2, <1>3, <1>4, MintedEventNames DEF SharingInv
<1>5. ASSUME NEW c \in r.minted.rows, c \in r.revoked.rows PROVE ~Works(c)
  <2>1. <<n, c>> \in revokedLog
    BY <1>2, <1>3, <1>5, RevokedEventNames DEF SharingInv, NsInv
  <2>2. QED  BY <1>4, <2>1 DEF Works, SharingInv, NsInv, EventsTellAuthority
<1>6. \A row \in History(q) : /\ minted[row.capId].namespace_id = n
                              /\ ~row.active => ~Works(row.capId)
  <2> TAKE row \in History(q)
  <2>1. PICK c \in r.minted.rows : row = [capId |-> c, active |-> c \notin r.revoked.rows]
    BY DEF History
  <2>2. row.capId = c /\ (row.active <=> c \notin r.revoked.rows)
    BY <2>1
  <2>3. QED  BY <1>4, <1>5, <2>2
<1>7. ASSUME NEW c PROVE c \in {row.capId : row \in History(q)} <=> c \in r.minted.rows
  <2>1. ASSUME NEW row \in History(q), row.capId = c PROVE c \in r.minted.rows
    <3>1. PICK d \in r.minted.rows : row = [capId |-> d, active |-> d \notin r.revoked.rows]
      BY DEF History
    <3>2. QED  BY <2>1, <3>1
  <2>2. ASSUME c \in r.minted.rows PROVE \E row \in History(q) : row.capId = c
    <3>1. PICK row : row = [capId |-> c, active |-> c \notin r.revoked.rows]
      OBVIOUS
    <3>2. row \in History(q)
      BY <2>2, <3>1, Zenon DEF History
    <3>3. QED  BY <3>1, <3>2
  <2>3. QED  BY <2>1, <2>2
<1>8. ASSUME UpToDate(q), NEW s \in Stream
      PROVE  Kept(SubSeq(ledger[s], 1, r.begun[s]), n) \subseteq r[s].rows
  <2>1. r.begun[s] <= r[s].cursor
    BY <1>2, <1>8 DEF UpToDate
  <2>2. Kept(SubSeq(ledger[s], 1, r.begun[s]), n) = Named(ledger[s], n, r.begun[s])
    BY <1>2, KeptFromStart
  <2>3. Named(ledger[s], n, r.begun[s]) \subseteq Named(ledger[s], n, r[s].cursor)
    BY <1>2, <2>1, NamedGrows
  <2>4. QED  BY <1>2, <2>2, <2>3 DEF Of
<1>9. GetCapabilities(q) \cap r.revoked.rows = {}
  <2> SUFFICES ASSUME NEW c \in GetCapabilities(q) PROVE c \notin r.revoked.rows
    OBVIOUS
  <2>1. PICK row \in History(q) : row.active /\ row.capId = c
    BY DEF GetCapabilities
  <2>2. PICK d \in r.minted.rows : row = [capId |-> d, active |-> d \notin r.revoked.rows]
    BY DEF History
  <2>3. QED  BY <2>1, <2>2
<1>10. UpToDate(q) =>
         /\ Kept(SubSeq(ledger["minted"], 1, r.begun["minted"]), n) \subseteq {row.capId : row \in History(q)}
         /\ GetCapabilities(q) \cap Kept(SubSeq(ledger["revoked"], 1, r.begun["revoked"]), n) = {}
  <2> SUFFICES ASSUME UpToDate(q)
               PROVE  /\ Kept(SubSeq(ledger["minted"], 1, r.begun["minted"]), n)
                           \subseteq {row.capId : row \in History(q)}
                      /\ GetCapabilities(q) \cap
                           Kept(SubSeq(ledger["revoked"], 1, r.begun["revoked"]), n) = {}
    OBVIOUS
  <2>1. /\ Kept(SubSeq(ledger["minted"], 1, r.begun["minted"]), n) \subseteq r.minted.rows
        /\ Kept(SubSeq(ledger["revoked"], 1, r.begun["revoked"]), n) \subseteq r.revoked.rows
    BY <1>3, <1>8
  <2> HIDE <1>3
  <2>2. QED  BY <1>7, <1>9, <2>1
<1>11. QED  BY <1>6, <1>10

\* What a history says is true and no older than the request: it lists capabilities of
\* its namespace only, what it marks as revoked never works again, and read from
\* indexes that had caught up it lists what had been minted and nothing revoked by then
\* as active, for every page size and lag, in whatever order the pages of the two
\* streams are answered (namespace-history.ts 54-134).
THEOREM HistoriesTellTheTruth == SharingSpec => []HistoryIsRight
BY SharingInvariant, HistoryInv, PTL

LEMMA ReportedInv == SharingInv => ReportedIsInForce
<1> SUFFICES ASSUME SharingInv PROVE ReportedIsInForce
  OBVIOUS
<1>0. \A o \in Op : op[o] \in OpState /\ Made(op[o])
  BY DEF SharingInv, OpsOK
<1> SUFFICES ASSUME NEW o \in Op, NEW r \in OpState, r = op[o], Made(r)
             PROVE  /\ r.stage = "built" => WouldSucceed(r)
                    /\ r.stage = "executed" /\ r.via = "page" =>
                         FindsCreated(ActionFor(r.kind), {minted[r.capId].kind})
                    /\ r.stage = "built" =>
                         \A input \in SponsoredInputs(r) : ValidRequest(input) /\ RequestFits(input)
                    /\ r.stage = "done" =>
                         LET c == r.capId IN
                         IF r.cmd = "share"
                         THEN minted[c] = [kind |-> r.kind, namespace_id |-> r.namespaceId]
                         ELSE \/ ~Works(c)
                              \/ r.cmd = "admin_revoke" /\ r.namespaceId # minted[c].namespace_id
  BY <1>0 DEF ReportedIsInForce
<1>1. r.stage = "built" => WouldSucceed(r)
  BY DEF Made
<1>2. ASSUME r.stage = "executed", r.via = "page"
      PROVE  FindsCreated(ActionFor(r.kind), {minted[r.capId].kind})
  <2>1. r \in ShareMade
    BY <1>2 DEF OpState, Idle, Failed, ShareToMake, Revocation, AdminRevocation
  <2>2. r.kind \in {"ReadOnly", "ReadWrite"} /\ minted[r.capId].kind = r.kind
    <3>1. r.kind \in {"ReadOnly", "ReadWrite"} /\ r.cmd = "share"
      BY <2>1, SharingConstants DEF ShareMade
    <3>2. minted[r.capId] = [kind |-> r.kind, namespace_id |-> r.namespaceId]
      BY <1>2, <3>1 DEF Made
    <3>3. QED  BY <3>1, <3>2
  <2>3. ExpectedTypes(ActionFor(r.kind)) = {r.kind}
    BY <2>2 DEF ExpectedTypes, ActionFor, ActionKind
  <2>4. QED  BY <2>2, <2>3 DEF FindsCreated
<1>3. ASSUME r.stage = "built", NEW input \in SponsoredInputs(r)
      PROVE  ValidRequest(input) /\ RequestFits(input)
  <2>1. CASE r \in ShareToMake /\ r.via = "page"
    <3>1. PICK a \in Address, capability \in Details(r.adminCapId) :
            input = [action |-> ActionFor(r.kind), sender |-> {capability.owner}, recipient |-> {a},
                     namespaceId |-> {r.namespaceId}, adminCapId |-> {r.adminCapId},
                     capId |-> {}, capKind |-> {}]
      BY <1>3, <2>1 DEF SponsoredInputs
    <3>2. ActionFor(r.kind) \in {"ro-cap-share", "rw-cap-share"}
      BY DEF ActionFor
    <3>3. /\ input.action \in {"ro-cap-share", "rw-cap-share"}
          /\ input.sender # {} /\ input.recipient # {} /\ input.namespaceId # {} /\ input.adminCapId # {}
      BY <3>1, <3>2
    <3>4. ValidRequest(input)
      BY <3>3 DEF ValidRequest, SponsoredAction, Minting
    <3>5. /\ MoveTarget(input.action) = CapabilityMintFunction(input.action)
          /\ RecipientOf(input) = input.recipient
          /\ Limits(input).targets = {CapabilityMintFunction(input.action)}
          /\ input.recipient \subseteq Limits(input).addresses
      BY <3>3 DEF MoveTarget, Limits, Minting, RecipientOf
    <3>6. MoveCall(input) = [function |-> CapabilityMintFunction(input.action),
                             object |-> input.adminCapId, to |-> input.recipient]
      BY <3>3, <3>5 DEF MoveCall
    <3>7. /\ CapabilityMintFunction(input.action) # "create"
          /\ ExpectedTypes(input.action) = CreatedTypes(CapabilityMintFunction(input.action))
      BY <3>3 DEF CapabilityMintFunction, ExpectedTypes, CreatedTypes, ActionKind
    <3>8. QED  BY <3>3, <3>4, <3>5, <3>6, <3>7 DEF RequestFits, FindsCreated
  <2>2. CASE r \in Revocation /\ r.via = "landing"
    <3>1. PICK capability \in Details(r.capId) :
            input = [action |-> "cap-self-revoke", sender |-> {capability.owner}, recipient |-> {},
                     namespaceId |-> {}, adminCapId |-> {}, capId |-> {r.capId},
                     capKind |-> {capability.kind}]
      BY <1>3, <2>2 DEF SponsoredInputs
    <3>2. /\ input.action = "cap-self-revoke" /\ input.sender # {} /\ input.capId # {}
          /\ input.capKind # {}
      BY <3>1
    <3>3. ValidRequest(input)
      BY <3>2 DEF ValidRequest, SponsoredAction, Minting
    <3>4. Limits(input).targets = {"revoke_capability"}
      BY <3>2 DEF MoveTarget, Limits
    <3>5. MoveCall(input) = [function |-> "revoke_capability", object |-> input.capId, to |-> {}]
      BY <3>2 DEF MoveCall
    <3>6. ExpectedTypes(input.action) = {}
      BY <3>2 DEF ExpectedTypes
    <3>7. QED  BY <3>2, <3>3, <3>4, <3>5, <3>6 DEF RequestFits, FindsCreated
  <2>3. CASE r.via = "other"
    BY <1>3, <2>3 DEF SponsoredInputs
  <2>4. QED
    BY <1>3, <2>1, <2>2, <2>3, BuiltRuns DEF ShareToMake, Revocation, AdminRevocation
<1>4. ASSUME r.stage = "done"
      PROVE  IF r.cmd = "share"
             THEN minted[r.capId] = [kind |-> r.kind, namespace_id |-> r.namespaceId]
             ELSE \/ ~Works(r.capId)
                  \/ r.cmd = "admin_revoke" /\ r.namespaceId # minted[r.capId].namespace_id
  <2>1. r.cmd \in {"share", "revoke", "admin_revoke"}
    BY <1>4 DEF OpState, Idle, Failed, ShareToMake, ShareMade, Revocation, AdminRevocation
  <2>2. r.capId \in DOMAIN minted
    BY <1>4 DEF Made
  <2>3. <<minted[r.capId].namespace_id, r.capId>> \in revokedLog => ~Works(r.capId)
    BY <2>2 DEF Works, SharingInv, NsInv, EventsTellAuthority
  <2>4. QED  BY <1>4, <2>1, <2>3 DEF Made
<1>5. QED  BY <1>1, <1>2, <1>3, <1>4

\* For any number of runs and wallets: what is reported as revoked never works again and
\* what is reported as shared is what was asked for, a run that is not outdated would
\* still succeed, and the server takes, lets the sponsor pay for and finds what the pages
\* post (namespaces.ts 237-276, namespace.ts 109-178, sponsored-provisioning.ts 84-180,
\* 245-276).
THEOREM ReportsAreTrue == SharingSpec => []ReportedIsInForce
BY SharingInvariant, ReportedInv, PTL

LEMMA PanelInv == SharingInv => PanelIsCurrent
<1> SUFFICES ASSUME SharingInv, panel.status = "ready"
             PROVE  /\ \A row \in Rows : {minted[row.capId].namespace_id} = field
                    /\ \A o \in Op, q \in panel.shown :
                         op[o].stage = "done" /\ op[o].via = "page" /\ {op[o].namespaceId} = field
                           /\ UpToDate(q)
                         => op[o].capId \in {row.capId : row \in Rows}
  BY DEF PanelIsCurrent
<1>1. ASSUME NEW q \in panel.shown
      PROVE  /\ q \in Request /\ request[q].stage = "done" /\ RequestOK(q)
             /\ field = {request[q].namespaceId} /\ Listed(q)
  BY DEF SharingInv, PanelOK, RequestsOK
<1>2. ASSUME NEW row \in Rows PROVE {minted[row.capId].namespace_id} = field
  <2>1. PICK q \in panel.shown : row \in History(q)
    BY DEF Rows
  <2>2. minted[row.capId].namespace_id = request[q].namespaceId
    BY <1>1, <2>1, HistoryInv DEF HistoryIsRight
  <2>3. QED  BY <1>1, <2>2
<1>3. ASSUME NEW o \in Op, NEW q \in panel.shown, op[o].stage = "done", op[o].via = "page",
             {op[o].namespaceId} = field, UpToDate(q)
      PROVE  op[o].capId \in {row.capId : row \in Rows}
  <2> PICK r : r = request[q]
    OBVIOUS
  <2> PICK c : c = op[o].capId
    OBVIOUS
  <2>1. c \in Of("minted", r.namespaceId, r.begun["minted"])
    BY <1>1, <1>3 DEF Listed
  <2>2. "minted" \in Stream /\ r["minted"] = r.minted
    BY DEF Stream
  <2>3. r \in Reading /\ ScanOK(q, "minted") /\ ~r["minted"].more
    BY <1>1, <2>2 DEF RequestOK, NoRequest, Failed
  <2>4. r["minted"] \in Scan /\ r.begun["minted"] \in Nat
    BY <2>2, <2>3, ReadingIsTyped
  <2>5. /\ r["minted"].cursor \in Nat /\ r.begun["minted"] <= r["minted"].cursor
        /\ r["minted"].rows = Of("minted", r.namespaceId, r["minted"].cursor)
    BY <1>3, <2>2, <2>3, <2>4 DEF ScanOK, UpToDate, Scan
  <2>6. c \in r.minted.rows
    BY <2>1, <2>2, <2>4, <2>5, NamedGrows DEF Of
  <2>7. PICK row : row = [capId |-> c, active |-> c \notin r.revoked.rows]
    OBVIOUS
  <2>8. row \in History(q)
    BY <2>6, <2>7, Zenon DEF History
  <2>9. row \in Rows
    BY <2>8 DEF Rows
  <2>10. QED  BY <2>7, <2>9
<1>4. QED  BY <1>2, <1>3

\* However often the field is edited while requests and shares are under way, a panel
\* that is not loading shows the namespace in the field and lists what the page has
\* shared in it, if the node's index was up to date (ShareHistoryPanel.tsx 63-94,
\* HostedShareView.tsx 143-149).
THEOREM PanelFollowsTheField == SharingSpec => []PanelIsCurrent
BY SharingInvariant, PanelInv, PTL

LEMMA SharingTypesInv == SharingInv => SharingTypeOK
<1> SUFFICES ASSUME SharingInv PROVE SharingTypeOK
  OBVIOUS
<1>1. NsTypeOK
  BY DEF SharingInv, NsInv
<1>2. \A s \in Stream : /\ Range(ledger[s]) \subseteq [namespace_id : NamespaceId, cap_id : CapId]
                        /\ IsInjective(ledger[s])
  <2>1. ASSUME NEW L \in Seq(EventType) PROVE Range(L) \subseteq EventType
    BY DEF Range
  <2>2. ASSUME NEW s \in Stream PROVE ledger[s] \in Seq(EventType) /\ IsInjective(ledger[s])
    BY DEF SharingInv, LedgerOK, Stream
  <2>3. QED  BY <2>1, <2>2 DEF EventType
<1>3. ASSUME NEW q \in Request, request[q].stage \notin {"none", "failed"}
      PROVE  /\ request[q].stage \in {"reading", "done"}
             /\ \A s \in Stream : /\ request[q][s].rows \subseteq CapId
                                  /\ request[q][s].cursor <= request[q][s].horizon
                                  /\ request[q][s].horizon <= Len(ledger[s])
  <2>1. request[q] \in Reading /\ \A s \in Stream : ScanOK(q, s)
    BY <1>3 DEF SharingInv, RequestsOK, RequestOK, NoRequest, Failed
  <2>2. \A s \in Stream : request[q][s] \in Scan
    BY <2>1, ReadingIsTyped
  <2>3. QED  BY <2>1, <2>2, ReadingIsTyped DEF ScanOK, Scan, Reading
<1>4. ASSUME NEW o \in Op PROVE op[o].stage \in Pending \cup {"none", "done", "failed"}
  <2>1. op[o] \in OpState
    BY DEF SharingInv, OpsOK
  <2>2. QED
    BY <2>1 DEF OpState, Idle, Failed, ShareToMake, ShareMade, Revocation, AdminRevocation, Pending
<1>5. field \in {{}} \cup {{n} : n \in NamespaceId}
      /\ panel \in [status : {"idle", "loading", "ready", "error"}, shown : SUBSET Request]
  BY DEF SharingInv, PanelOK
<1>6. QED  BY <1>1, <1>2, <1>3, <1>4, <1>5 DEF SharingTypeOK

\* The runs, the requests and the page are what their readers take them for, and no event
\* is logged twice (namespaces.ts, namespace-history.ts, HostedShareView.tsx).
THEOREM SharingTypes == SharingSpec => []SharingTypeOK
BY SharingInvariant, SharingTypesInv, PTL
=============================================================================
