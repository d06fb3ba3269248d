---------------------------- MODULE TraceProofs -----------------------------
(*****************************************************************************)
(* Proofs about Trace and its verifiers, for every value of their constants. *)
(*                                                                           *)
(* Of the contract, ChainIntact, SessionClosedIsFinal, CallClosedIsFinal     *)
(* and CallsMatchEvents are inductive over the types.  RootCommitsToHistory  *)
(* is not: it follows from RootIsHistory, which says what a root is.         *)
(*                                                                           *)
(* The verdicts of TraceVerifier rest on two facts.  The ledger numbers the  *)
(* events of a session as the session does (Numbered), so that rows read     *)
(* without a fault are a beginning of the session; and the root recomputed   *)
(* from rows is the list of their contents (RootIsContents), so that a root  *)
(* that matches leaves no choice of rows.                                    *)
(*****************************************************************************)
EXTENDS TraceVerifier, NamespaceProofs, SequenceTheorems, FiniteSetTheorems,
        WellFoundedInduction

\* The i-th root is the list of the first i content hashes.
Committed(E) ==
  \A i \in 1..Len(E) :
    /\ Len(E[i].new_session_merkle_root) = i
    /\ \A h \in 1..i : E[i].new_session_merkle_root[h] = E[h].content_hash

RootIsHistory == \A s \in DOMAIN sessions : Committed(emitted[s])

TraceInv == /\ TraceTypeOK
            /\ ChainIntact
            /\ RootIsHistory
            /\ CallsMatchEvents
            /\ SessionClosedIsFinal
            /\ CallClosedIsFinal

(***************************************************************************)
(* The authority objects behave as Namespace says: trace.move reads them.  *)
(***************************************************************************)
\* The package starts without objects.
LEMMA InitRefinesNs == Init => NsInit
BY DEF Init

\* An entry function of trace.move leaves registry, namespaces and capabilities alone.
LEMMA StepRefinesNs == [Next]_vars => [NsNext]_nsVars
<1>1. TraceNext => UNCHANGED nsVars
  <2>1. ASSUME NEW n \in NamespaceId, NEW c \in CapId, NEW s \in SessionId,
               OpenSession(n, c, s)
        PROVE  UNCHANGED nsVars
    BY <2>1 DEF OpenSession, nsVars
  <2>2. ASSUME NEW s \in SessionId, NEW n \in NamespaceId, NEW c \in CapId,
               NEW parent \in CallId \cup {NONE}, NEW payload \in Payload, NEW k \in CallId,
               EmitCall(s, n, c, parent, payload, k)
        PROVE  UNCHANGED nsVars
    BY <2>2 DEF EmitCall, nsVars
  <2>3. ASSUME NEW s \in SessionId, NEW n \in NamespaceId, NEW c \in CapId, NEW k \in CallId,
               NEW output \in Output, NEW status \in StatusArg,
               CloseCallWithNamespace(s, n, c, k, output, status)
        PROVE  UNCHANGED nsVars
    BY <2>3 DEF CloseCallWithNamespace, nsVars
  <2>4. ASSUME NEW s \in SessionId, NEW n \in NamespaceId, NEW c \in CapId,
               NEW status \in StatusArg, CloseSessionWithNamespace(s, n, c, status)
        PROVE  UNCHANGED nsVars
    BY <2>4 DEF CloseSessionWithNamespace, nsVars
  <2>5. QED  BY <2>1, <2>2, <2>3, <2>4 DEF TraceNext
<1>2. UNCHANGED vars => UNCHANGED nsVars
  BY DEF vars, nsVars
<1>3. QED  BY <1>1, <1>2 DEF Next

\* What is proved of Namespace holds of the whole package: trace.move takes its
\* namespace and capability arguments by immutable reference.
THEOREM RefinesNs == Spec => NsSpec
BY InitRefinesNs, StepRefinesNs, PTL DEF Spec, NsSpec

-----------------------------------------------------------------------------
\* The inductive invariant holds initially.
LEMMA TraceInitInv == Init => TraceInv
<1> SUFFICES ASSUME Init PROVE TraceInv
  OBVIOUS
<1> USE DEF Init, Empty
<1>1. TraceTypeOK
  BY DEF TraceTypeOK
<1>2. ChainIntact /\ RootIsHistory
  BY DEF ChainIntact, RootIsHistory
<1>3. CallsMatchEvents /\ SessionClosedIsFinal /\ CallClosedIsFinal
  BY DEF CallsMatchEvents, SessionClosedIsFinal, CallClosedIsFinal
<1>4. QED  BY <1>1, <1>2, <1>3 DEF TraceInv

(***************************************************************************)
(* What each entry function changes, as facts the invariants are about.    *)
(***************************************************************************)
\* open_session (trace.move 103-144).
LEMMA OpenEffect ==
  ASSUME TraceTypeOK, NEW n \in NamespaceId, NEW c \in CapId, NEW s \in SessionId,
         OpenSession(n, c, s)
  PROVE  /\ s \notin DOMAIN sessions
         /\ DOMAIN sessions' = DOMAIN sessions \cup {s}
         /\ sessions'[s] \in Session
         /\ sessions'[s].call_count = 0
         /\ sessions'[s].last_content_hash = ZERO_HASH
         /\ sessions'[s].merkle_root = ZERO_HASH
         /\ sessions'[s].root_call_id = NONE
         /\ sessions'[s].last_call_id = NONE
         /\ sessions'[s].status = SESSION_ACTIVE
         /\ \A t \in DOMAIN sessions : sessions'[t] = sessions[t]
         /\ sessions' \in [DOMAIN sessions' -> Session]
         /\ emitted' \in [DOMAIN sessions' -> Seq(EmittedEvent)]
         /\ emitted'[s] = <<>>
         /\ \A t \in DOMAIN sessions : emitted'[t] = emitted[t]
         /\ UNCHANGED <<calls, callClosed, sessionClosed>>
<1> DEFINE new == [namespace_id |-> n, root_call_id |-> NONE, last_call_id |-> NONE,
                   call_count |-> 0, last_content_hash |-> ZERO_HASH,
                   merkle_root |-> ZERO_HASH, status |-> SESSION_ACTIVE, version |-> VERSION]
<1>1. /\ s \notin DOMAIN sessions
      /\ sessions' = Put(sessions, s, new)
      /\ emitted' = Put(emitted, s, <<>>)
      /\ UNCHANGED <<calls, callClosed, sessionClosed>>
  BY DEF OpenSession
<1>2. new \in Session
  BY DEF Session, ZERO_HASH, SESSION_ACTIVE
<1>3. /\ DOMAIN sessions' = DOMAIN sessions \cup {s}
      /\ sessions'[s] = new
      /\ \A t \in DOMAIN sessions : sessions'[t] = sessions[t]
      /\ sessions' = [t \in DOMAIN sessions \cup {s} |-> sessions'[t]]
  BY <1>1 DEF Put
<1>4. \A t \in DOMAIN sessions : sessions[t] \in Session
  BY DEF TraceTypeOK
<1>5. sessions' \in [DOMAIN sessions' -> Session]
  BY <1>2, <1>3, <1>4
<1>6. DOMAIN emitted = DOMAIN sessions /\ \A t \in DOMAIN sessions : emitted[t] \in Seq(EmittedEvent)
  BY DEF TraceTypeOK
<1>7. /\ emitted'[s] = <<>>
      /\ \A t \in DOMAIN sessions : emitted'[t] = emitted[t]
      /\ emitted' = [t \in DOMAIN sessions \cup {s} |-> emitted'[t]]
  BY <1>1, <1>6 DEF Put
<1>8. emitted' \in [DOMAIN sessions' -> Seq(EmittedEvent)]
  <2>1. <<>> \in Seq(EmittedEvent)
    OBVIOUS
  <2>2. \A t \in DOMAIN sessions \cup {s} : emitted'[t] \in Seq(EmittedEvent)
    BY <1>6, <1>7, <2>1
  <2>3. QED  BY <1>3, <1>7, <2>2
<1>9. QED  BY <1>1, <1>2, <1>3, <1>5, <1>7, <1>8

\* emit_call (trace.move 151-214).
LEMMA EmitEffect ==
  ASSUME TraceTypeOK, NEW s \in SessionId, NEW n \in NamespaceId, NEW c \in CapId,
         NEW parent \in CallId \cup {NONE}, NEW payload \in Payload, NEW k \in CallId,
         EmitCall(s, n, c, parent, payload, k)
  PROVE  LET old == sessions[s]
             content == ComputeContentHash(payload, parent)
             e == [call_id |-> k, content_hash |-> content,
                   prev_hash |-> old.last_content_hash,
                   new_session_merkle_root |-> Append(old.merkle_root, content)]
         IN
         /\ s \in DOMAIN sessions /\ k \notin DOMAIN calls
         /\ old \in Session /\ old.status = SESSION_ACTIVE
         /\ content \in ContentHash /\ e \in EmittedEvent
         /\ sessions' \in [DOMAIN sessions -> Session]
         /\ \A t \in DOMAIN sessions : t # s => sessions'[t] = sessions[t]
         /\ sessions'[s].root_call_id = (IF old.root_call_id = NONE THEN k ELSE old.root_call_id)
         /\ sessions'[s].last_call_id = k
         /\ sessions'[s].last_content_hash = content
         /\ sessions'[s].merkle_root = Append(old.merkle_root, content)
         /\ sessions'[s].call_count = old.call_count + 1
         /\ sessions'[s].status = SESSION_ACTIVE
         /\ emitted[s] \in Seq(EmittedEvent)
         /\ emitted'[s] = Append(emitted[s], e)
         /\ emitted' \in [DOMAIN sessions -> Seq(EmittedEvent)]
         /\ \A t \in DOMAIN sessions : t # s => emitted'[t] = emitted[t]
         /\ DOMAIN calls' = DOMAIN calls \cup {k}
         /\ calls' \in [DOMAIN calls' -> Call]
         /\ calls'[k] = [session_id |-> s, content_hash |-> content,
                         prev_hash |-> old.last_content_hash,
                         output_hash |-> NONE, status |-> CALL_PENDING]
         /\ \A j \in DOMAIN calls : calls'[j] = calls[j]
         /\ UNCHANGED <<callClosed, sessionClosed>>
<1> DEFINE old == sessions[s]
           content == ComputeContentHash(payload, parent)
           root == Append(old.merkle_root, content)
           e == [call_id |-> k, content_hash |-> content,
                 prev_hash |-> old.last_content_hash, new_session_merkle_root |-> root]
           rec == [session_id |-> s, content_hash |-> content,
                   prev_hash |-> old.last_content_hash,
                   output_hash |-> NONE, status |-> CALL_PENDING]
           new == [old EXCEPT !.root_call_id = IF @ = NONE THEN k ELSE @,
                              !.last_call_id = k, !.last_content_hash = content,
                              !.merkle_root = root, !.call_count = @ + 1]
<1>1. /\ s \in DOMAIN sessions /\ k \notin DOMAIN calls
      /\ old.status = SESSION_ACTIVE
      /\ calls' = Put(calls, k, rec)
      /\ emitted' = [emitted EXCEPT ![s] = Append(@, e)]
      /\ UNCHANGED <<callClosed, sessionClosed>>
  BY DEF EmitCall, ChainHash, AssertSessionActive, PrevHash
<1>2. /\ old \in Session
      /\ \A t \in DOMAIN sessions : sessions[t] \in Session
      /\ sessions = [t \in DOMAIN sessions |-> sessions[t]]
  BY <1>1 DEF TraceTypeOK
<1>3. content \in ContentHash
  BY DEF ContentHash, ComputeContentHash
<1>4. root \in Seq(ContentHash)
  BY <1>2, <1>3 DEF Session
<1>5. e \in EmittedEvent
  BY <1>2, <1>3, <1>4 DEF EmittedEvent, Session
<1>6. sessions' = [sessions EXCEPT ![s] = new]
  BY <1>2 DEF EmitCall, ChainHash, PrevHash
<1>7. /\ new.root_call_id = (IF old.root_call_id = NONE THEN k ELSE old.root_call_id)
      /\ new.last_call_id = k
      /\ new.last_content_hash = content
      /\ new.merkle_root = root
      /\ new.call_count = old.call_count + 1
      /\ new.status = old.status
  BY <1>2 DEF Session
<1>8. new \in Session
  <2>1. \A r \in Session, first \in CallId \cup {NONE}, count \in Nat :
          [r EXCEPT !.root_call_id = first, !.last_call_id = k, !.last_content_hash = content,
                    !.merkle_root = root, !.call_count = count] \in Session
    BY <1>3, <1>4 DEF Session
  <2>2. /\ (IF old.root_call_id = NONE THEN k ELSE old.root_call_id) \in CallId \cup {NONE}
        /\ old.call_count + 1 \in Nat
    BY <1>2 DEF Session
  <2>3. QED  BY <1>2, <2>1, <2>2
<1>9. /\ sessions' \in [DOMAIN sessions -> Session]
      /\ sessions'[s] = new
      /\ \A t \in DOMAIN sessions : t # s => sessions'[t] = sessions[t]
  BY <1>1, <1>2, <1>6, <1>8
<1>10. /\ emitted \in [DOMAIN sessions -> Seq(EmittedEvent)]
       /\ emitted[s] \in Seq(EmittedEvent)
  BY <1>1 DEF TraceTypeOK
<1>11. Append(emitted[s], e) \in Seq(EmittedEvent)
  BY <1>5, <1>10
<1>12. /\ emitted'[s] = Append(emitted[s], e)
       /\ emitted' \in [DOMAIN sessions -> Seq(EmittedEvent)]
       /\ \A t \in DOMAIN sessions : t # s => emitted'[t] = emitted[t]
  BY <1>1, <1>10, <1>11
<1>13. rec \in Call
  BY <1>2, <1>3 DEF Call, Session, CALL_PENDING, CALL_STATUS_MAX
<1>14. /\ DOMAIN calls' = DOMAIN calls \cup {k}
       /\ calls'[k] = rec
       /\ \A j \in DOMAIN calls : calls'[j] = calls[j]
       /\ calls' = [j \in DOMAIN calls \cup {k} |-> calls'[j]]
  BY <1>1 DEF Put
<1>15. \A j \in DOMAIN calls : calls[j] \in Call
  BY DEF TraceTypeOK
<1>16. calls' \in [DOMAIN calls' -> Call]
  BY <1>13, <1>14, <1>15
<1>17. QED
  BY <1>1, <1>2, <1>3, <1>5, <1>7, <1>9, <1>10, <1>12, <1>14, <1>16

\* close_call_with_namespace (trace.move 231-260).
LEMMA CloseCallEffect ==
  ASSUME TraceTypeOK, NEW s \in SessionId, NEW n \in NamespaceId, NEW c \in CapId,
         NEW k \in CallId, NEW output \in Output, NEW status \in StatusArg,
         CloseCallWithNamespace(s, n, c, k, output, status)
  PROVE  /\ k \in DOMAIN calls
         /\ calls[k].output_hash = NONE
         /\ calls' \in [DOMAIN calls -> Call]
         /\ calls'[k].output_hash = output /\ calls'[k].output_hash # NONE
         /\ calls'[k].status = status /\ status \in 1..CALL_STATUS_MAX
         /\ \A j \in DOMAIN calls :
              /\ calls'[j].session_id = calls[j].session_id
              /\ calls'[j].content_hash = calls[j].content_hash
              /\ calls'[j].prev_hash = calls[j].prev_hash
              /\ j # k => calls'[j] = calls[j]
         /\ callClosed' = callClosed \cup
              {[call_id |-> k, output_hash |-> output, status |-> status]}
         /\ UNCHANGED <<sessions, emitted, sessionClosed>>
<1> DEFINE new == [calls[k] EXCEPT !.output_hash = output, !.status = status]
<1>1. /\ k \in DOMAIN calls
      /\ calls[k].output_hash = NONE
      /\ status <= CALL_STATUS_MAX /\ status # CALL_PENDING
      /\ calls' = [calls EXCEPT ![k] = new]
      /\ callClosed' = callClosed \cup
           {[call_id |-> k, output_hash |-> output, status |-> status]}
      /\ UNCHANGED <<sessions, emitted, sessionClosed>>
  BY DEF CloseCallWithNamespace, AssertCallPending, IsFinalCallStatus, Closed
<1>2. status \in 1..CALL_STATUS_MAX
  BY <1>1, StatusesAreNumbers DEF CALL_STATUS_MAX, CALL_PENDING
<1>3. calls[k] \in Call /\ calls \in [DOMAIN calls -> Call]
  BY <1>1 DEF TraceTypeOK
<1>4. /\ new \in Call
      /\ new.output_hash = output /\ new.status = status
      /\ new.session_id = calls[k].session_id
      /\ new.content_hash = calls[k].content_hash
      /\ new.prev_hash = calls[k].prev_hash
  <2>1. status \in CALL_PENDING..CALL_STATUS_MAX
    BY <1>2 DEF CALL_PENDING, CALL_STATUS_MAX
  <2>2. \A r \in Call : [r EXCEPT !.output_hash = output, !.status = status] \in Call
    BY <2>1 DEF Call
  <2>3. new \in Call
    BY <1>3, <2>2
  <2>4. QED  BY <1>3, <2>3 DEF Call
<1>6. /\ calls' \in [DOMAIN calls -> Call]
      /\ calls'[k] = new
      /\ \A j \in DOMAIN calls : j # k => calls'[j] = calls[j]
  BY <1>1, <1>3, <1>4
<1>7. output # NONE
  BY NoneIsNoObject
<1>8. QED  BY <1>1, <1>2, <1>4, <1>6, <1>7

\* close_session_with_namespace (trace.move 273-300).
LEMMA CloseSessionEffect ==
  ASSUME TraceTypeOK, NEW s \in SessionId, NEW n \in NamespaceId, NEW c \in CapId,
         NEW status \in StatusArg, CloseSessionWithNamespace(s, n, c, status)
  PROVE  /\ s \in DOMAIN sessions
         /\ sessions[s].status = SESSION_ACTIVE
         /\ status \in SESSION_FINAL
         /\ sessions' \in [DOMAIN sessions -> Session]
         /\ sessions'[s] = [sessions[s] EXCEPT !.status = status]
         /\ \A t \in DOMAIN sessions : t # s => sessions'[t] = sessions[t]
         /\ DOMAIN sessionClosed' = DOMAIN sessionClosed \cup {s}
         /\ sessionClosed' \in [DOMAIN sessionClosed' -> SessionClosedEvent]
         /\ sessionClosed'[s] = [final_merkle_root |-> sessions[s].merkle_root,
                                 call_count |-> sessions[s].call_count, status |-> status]
         /\ \A t \in DOMAIN sessionClosed : t # s => sessionClosed'[t] = sessionClosed[t]
         /\ UNCHANGED <<calls, emitted, callClosed>>
<1> DEFINE new == [sessions[s] EXCEPT !.status = status]
           e == [final_merkle_root |-> sessions[s].merkle_root,
                 call_count |-> sessions[s].call_count, status |-> status]
<1>1. /\ s \in DOMAIN sessions
      /\ sessions[s].status = SESSION_ACTIVE
      /\ status \in SESSION_FINAL
      /\ sessions' = [sessions EXCEPT ![s].status = status]
      /\ sessionClosed' = Put(sessionClosed, s, e)
      /\ UNCHANGED <<calls, emitted, callClosed>>
  BY DEF CloseSessionWithNamespace, AssertSessionActive
<1>2. sessions[s] \in Session /\ sessions \in [DOMAIN sessions -> Session]
  BY <1>1 DEF TraceTypeOK
<1>3. new \in Session
  BY <1>1, <1>2 DEF Session
<1>4. /\ sessions' \in [DOMAIN sessions -> Session]
      /\ sessions'[s] = new
      /\ \A t \in DOMAIN sessions : t # s => sessions'[t] = sessions[t]
  BY <1>1, <1>2, <1>3
<1>5. e \in SessionClosedEvent
  BY <1>1, <1>2 DEF Session, SessionClosedEvent
<1>6. /\ DOMAIN sessionClosed' = DOMAIN sessionClosed \cup {s}
      /\ sessionClosed'[s] = e
      /\ \A t \in DOMAIN sessionClosed : t # s => sessionClosed'[t] = sessionClosed[t]
      /\ sessionClosed' = [t \in DOMAIN sessionClosed \cup {s} |-> sessionClosed'[t]]
  BY <1>1 DEF Put
<1>7. \A t \in DOMAIN sessionClosed : sessionClosed[t] \in SessionClosedEvent
  BY DEF TraceTypeOK
<1>8. sessionClosed' \in [DOMAIN sessionClosed' -> SessionClosedEvent]
  BY <1>5, <1>6, <1>7
<1>9. QED  BY <1>1, <1>4, <1>6, <1>8

(***************************************************************************)
(* Chains, as sequences of events.                                         *)
(***************************************************************************)
\* A session starts with the empty chain.
LEMMA EmptyChain ==
  ASSUME NEW tail, tail.call_count = 0, tail.last_content_hash = ZERO_HASH,
         tail.merkle_root = ZERO_HASH, tail.root_call_id = NONE,
         tail.last_call_id = NONE
  PROVE  Linked(<<>>) /\ Committed(<<>>) /\ TailOf(tail, <<>>)
BY DEF Linked, Committed, TailOf, ContentBefore, RootBefore

\* What Append does, index by index.
LEMMA AppendFacts ==
  ASSUME NEW E \in Seq(EmittedEvent), NEW e \in EmittedEvent, NEW F, F = Append(E, e)
  PROVE  /\ Len(E) \in Nat /\ Len(F) = Len(E) + 1
         /\ \A i \in 1..Len(E) : F[i] = E[i]
         /\ F[Len(E) + 1] = e
         /\ \A i \in 1..(Len(E) + 1) : /\ ContentBefore(F, i) = ContentBefore(E, i)
                                      /\ RootBefore(F, i) = RootBefore(E, i)
<1>1. /\ Len(E) \in Nat /\ Len(F) = Len(E) + 1
      /\ \A i \in 1..Len(E) : F[i] = E[i]
      /\ F[Len(E) + 1] = e
  <2>1. Len(E) \in Nat /\ Len(F) = Len(E) + 1
    OBVIOUS
  <2>2. \A i \in 1..Len(E) : F[i] = E[i]
    OBVIOUS
  <2>3. F[Len(E) + 1] = e
    OBVIOUS
  <2>4. QED  BY <2>1, <2>2, <2>3
<1>2. ASSUME NEW i \in 1..(Len(E) + 1)
      PROVE  ContentBefore(F, i) = ContentBefore(E, i) /\ RootBefore(F, i) = RootBefore(E, i)
  <2>1. i # 1 => F[i - 1] = E[i - 1]
    BY <1>1
  <2>2. QED  BY <2>1 DEF ContentBefore, RootBefore
<1>3. QED  BY <1>1, <1>2

\* Appending the event that emit_call builds keeps a chain a chain.
LEMMA ChainAppend ==
  ASSUME NEW E \in Seq(EmittedEvent), NEW e \in EmittedEvent, NEW F, F = Append(E, e),
         Linked(E), e.prev_hash = ContentBefore(E, Len(E) + 1),
         e.new_session_merkle_root = ChainHash(RootBefore(E, Len(E) + 1), e.content_hash)
  PROVE  Linked(F)
<1>1. /\ Len(E) \in Nat /\ Len(F) = Len(E) + 1
      /\ \A i \in 1..Len(E) : F[i] = E[i]
      /\ F[Len(E) + 1] = e
      /\ \A i \in 1..(Len(E) + 1) : /\ ContentBefore(F, i) = ContentBefore(E, i)
                                   /\ RootBefore(F, i) = RootBefore(E, i)
  BY AppendFacts DEF ContentBefore, RootBefore
<1>2. ASSUME NEW i \in 1..Len(F)
      PROVE  /\ F[i].prev_hash = ContentBefore(F, i)
             /\ F[i].new_session_merkle_root = ChainHash(RootBefore(F, i), F[i].content_hash)
  <2>1. CASE i \in 1..Len(E)
    BY <1>1, <2>1 DEF Linked
  <2>2. CASE i = Len(E) + 1
    BY <1>1, <2>2
  <2>3. QED  BY <1>1, <2>1, <2>2
<1>3. QED  BY <1>2 DEF Linked

\* The new root lists the contents of the extended chain.
LEMMA CommittedAppend ==
  ASSUME NEW E \in Seq(EmittedEvent), NEW e \in EmittedEvent, NEW F, F = Append(E, e),
         Committed(E),
         e.new_session_merkle_root = ChainHash(RootBefore(E, Len(E) + 1), e.content_hash)
  PROVE  Committed(F)
<1> DEFINE m == Len(E)
           before == RootBefore(E, m + 1)
<1>1. /\ m \in Nat /\ Len(F) = m + 1
      /\ \A i \in 1..m : F[i] = E[i]
      /\ F[m + 1] = e
  BY AppendFacts
<1>2. \A i \in 1..m : E[i] \in EmittedEvent
  OBVIOUS
<1>3. /\ before \in Seq(ContentHash)
      /\ Len(before) = m
      /\ \A h \in 1..m : before[h] = E[h].content_hash
  <2>1. CASE m = 0
    <3>1. before = <<>>
      BY <2>1 DEF RootBefore, ZERO_HASH
    <3>2. <<>> \in Seq(ContentHash) /\ Len(<<>>) = 0
      OBVIOUS
    <3>3. 1..m = {}
      BY <2>1
    <3>4. QED  BY <2>1, <3>1, <3>2, <3>3
  <2>2. CASE m # 0
    <3>1. before = E[m].new_session_merkle_root /\ m \in 1..m
      BY <1>1, <2>2 DEF RootBefore
    <3>2. before \in Seq(ContentHash)
      BY <1>2, <3>1 DEF EmittedEvent
    <3>3. QED  BY <3>1, <3>2 DEF Committed
  <2>3. QED  BY <2>1, <2>2
<1>4. e.content_hash \in ContentHash
  BY DEF EmittedEvent
<1> HIDE DEF before
<1>5. /\ Len(e.new_session_merkle_root) = m + 1
      /\ \A h \in 1..m : e.new_session_merkle_root[h] = E[h].content_hash
      /\ e.new_session_merkle_root[m + 1] = e.content_hash
  BY <1>1, <1>3, <1>4 DEF ChainHash, before
<1>6. ASSUME NEW i \in 1..Len(F)
      PROVE  /\ Len(F[i].new_session_merkle_root) = i
             /\ \A h \in 1..i : F[i].new_session_merkle_root[h] = F[h].content_hash
  <2>1. CASE i \in 1..m
    BY <1>1, <2>1 DEF Committed
  <2>2. CASE i = m + 1
    BY <1>1, <1>5, <2>2
  <2>3. QED  BY <1>1, <2>1, <2>2
<1>7. QED  BY <1>6 DEF Committed

-----------------------------------------------------------------------------
\* Opening a session preserves the invariant.
LEMMA OpenStep ==
  ASSUME TraceInv, NEW n \in NamespaceId, NEW c \in CapId, NEW s \in SessionId,
         OpenSession(n, c, s)
  PROVE  TraceInv'
<1> USE DEF TraceInv
<1>1. /\ s \notin DOMAIN sessions
      /\ DOMAIN sessions' = DOMAIN sessions \cup {s}
      /\ sessions'[s].call_count = 0
      /\ sessions'[s].last_content_hash = ZERO_HASH
      /\ sessions'[s].merkle_root = ZERO_HASH
      /\ sessions'[s].root_call_id = NONE
      /\ sessions'[s].last_call_id = NONE
      /\ sessions'[s].status = SESSION_ACTIVE
      /\ \A t \in DOMAIN sessions : sessions'[t] = sessions[t]
      /\ sessions' \in [DOMAIN sessions' -> Session]
      /\ emitted' \in [DOMAIN sessions' -> Seq(EmittedEvent)]
      /\ emitted'[s] = <<>>
      /\ \A t \in DOMAIN sessions : emitted'[t] = emitted[t]
      /\ UNCHANGED <<calls, callClosed, sessionClosed>>
  BY OpenEffect
<1>2. Len(emitted'[s]) = 0
  BY <1>1
<1>3. TraceTypeOK'
  BY <1>1 DEF TraceTypeOK
<1>4. Linked(emitted'[s]) /\ Committed(emitted'[s]) /\ TailOf(sessions'[s], emitted'[s])
  BY <1>1, EmptyChain
<1>5. ChainIntact' /\ RootIsHistory'
  BY <1>1, <1>4 DEF ChainIntact, RootIsHistory
<1>6. CallsMatchEvents'
  <2>1. \A k \in DOMAIN calls : calls[k].session_id \in DOMAIN sessions
    BY DEF TraceTypeOK
  <2>2. /\ DOMAIN sessions' = DOMAIN sessions \cup {s}
        /\ \A t \in DOMAIN sessions : emitted'[t] = emitted[t]
        /\ Len(emitted'[s]) = 0
        /\ calls' = calls
    BY <1>1, <1>2
  <2>3. QED  BY <2>1, <2>2 DEF CallsMatchEvents
<1>7. SessionClosedIsFinal'
  BY <1>1 DEF SessionClosedIsFinal, TraceTypeOK
<1>8. CallClosedIsFinal'
  BY <1>1 DEF CallClosedIsFinal
<1>9. QED  BY <1>3, <1>5, <1>6, <1>7, <1>8

\* Recording a call preserves the invariant.
LEMMA EmitStep ==
  ASSUME TraceInv, NEW s \in SessionId, NEW n \in NamespaceId, NEW c \in CapId,
         NEW parent \in CallId \cup {NONE}, NEW payload \in Payload, NEW k \in CallId,
         EmitCall(s, n, c, parent, payload, k)
  PROVE  TraceInv'
<1> USE DEF TraceInv
<1> DEFINE old == sessions[s]
           new == sessions'[s]
           content == ComputeContentHash(payload, parent)
           e == [call_id |-> k, content_hash |-> content,
                 prev_hash |-> old.last_content_hash,
                 new_session_merkle_root |-> Append(old.merkle_root, content)]
           E == emitted[s]
           F == emitted'[s]
           m == Len(E)
<1>0. /\ s \in DOMAIN sessions /\ k \notin DOMAIN calls
      /\ old \in Session /\ old.status = SESSION_ACTIVE
      /\ content \in ContentHash /\ e \in EmittedEvent
      /\ sessions' \in [DOMAIN sessions -> Session]
      /\ \A t \in DOMAIN sessions : t # s => sessions'[t] = sessions[t]
      /\ new.root_call_id = (IF old.root_call_id = NONE THEN k ELSE old.root_call_id)
      /\ new.last_call_id = k
      /\ new.last_content_hash = content
      /\ new.merkle_root = Append(old.merkle_root, content)
      /\ new.call_count = old.call_count + 1
      /\ new.status = SESSION_ACTIVE
      /\ E \in Seq(EmittedEvent)
      /\ F = Append(E, e)
      /\ emitted' \in [DOMAIN sessions -> Seq(EmittedEvent)]
      /\ \A t \in DOMAIN sessions : t # s => emitted'[t] = emitted[t]
      /\ DOMAIN calls' = DOMAIN calls \cup {k}
      /\ calls' \in [DOMAIN calls' -> Call]
      /\ calls'[k] = [session_id |-> s, content_hash |-> content,
                      prev_hash |-> old.last_content_hash,
                      output_hash |-> NONE, status |-> CALL_PENDING]
      /\ \A j \in DOMAIN calls : calls'[j] = calls[j]
      /\ UNCHANGED <<callClosed, sessionClosed>>
  BY EmitEffect
<1>1. /\ s \in DOMAIN sessions /\ k \notin DOMAIN calls
      /\ old \in Session /\ old.status = SESSION_ACTIVE
      /\ e \in EmittedEvent
      /\ UNCHANGED <<callClosed, sessionClosed>>
  BY <1>0
<1>2. /\ sessions' \in [DOMAIN sessions -> Session]
      /\ \A t \in DOMAIN sessions : t # s => sessions'[t] = sessions[t]
      /\ new.root_call_id = (IF old.root_call_id = NONE THEN k ELSE old.root_call_id)
      /\ new.last_call_id = k
      /\ new.last_content_hash = content
      /\ new.merkle_root = Append(old.merkle_root, content)
      /\ new.call_count = old.call_count + 1
      /\ new.status = SESSION_ACTIVE
  BY <1>0
<1>3. /\ emitted' \in [DOMAIN sessions -> Seq(EmittedEvent)]
      /\ E \in Seq(EmittedEvent)
      /\ F = Append(E, e)
      /\ \A t \in DOMAIN sessions : t # s => emitted'[t] = emitted[t]
  BY <1>0
<1>4. /\ DOMAIN calls' = DOMAIN calls \cup {k}
      /\ calls' \in [DOMAIN calls' -> Call]
      /\ calls'[k] = [session_id |-> s, content_hash |-> content,
                      prev_hash |-> old.last_content_hash,
                      output_hash |-> NONE, status |-> CALL_PENDING]
      /\ \A j \in DOMAIN calls : calls'[j] = calls[j]
  BY <1>0
<1>5. /\ e.call_id = k
      /\ e.content_hash = content
      /\ e.prev_hash = old.last_content_hash
      /\ e.new_session_merkle_root = ChainHash(old.merkle_root, e.content_hash)
  BY DEF ChainHash
<1>6. /\ calls'[k].session_id = s
      /\ calls'[k].content_hash = e.content_hash
      /\ calls'[k].prev_hash = e.prev_hash
      /\ calls'[k].output_hash = NONE
  BY <1>4
<1>7. new.merkle_root = e.new_session_merkle_root /\ new.last_content_hash = e.content_hash
  BY <1>2
<1> HIDE DEF e
<1>8. /\ m \in Nat /\ Len(F) = m + 1
      /\ \A i \in 1..m : F[i] = E[i]
      /\ F[m + 1] = e
  BY <1>1, <1>3, AppendFacts
<1>9. Linked(E) /\ Committed(E) /\ TailOf(old, E)
  BY <1>1 DEF ChainIntact, RootIsHistory
<1>10. TraceTypeOK'
  BY <1>1, <1>2, <1>3, <1>4 DEF TraceTypeOK
<1>11. ChainIntact' /\ RootIsHistory'
  <2>1. /\ e.prev_hash = ContentBefore(E, m + 1)
        /\ e.new_session_merkle_root = ChainHash(RootBefore(E, m + 1), e.content_hash)
    BY <1>5, <1>9 DEF TailOf
  <2>2. Linked(F)
    BY <1>1, <1>3, <1>9, <2>1, ChainAppend
  <2>3. Committed(F)
    BY <1>1, <1>3, <1>9, <2>1, CommittedAppend
  <2>4. TailOf(new, F)
    <3>1. /\ new.call_count = m + 1
          /\ new.last_content_hash = ContentBefore(F, m + 2)
          /\ new.merkle_root = RootBefore(F, m + 2)
          /\ new.last_call_id = F[m + 1].call_id
      BY <1>2, <1>5, <1>7, <1>8, <1>9 DEF TailOf, ContentBefore, RootBefore
    <3>2. new.root_call_id = F[1].call_id
      <4>1. CASE m = 0
        BY <1>2, <1>5, <1>8, <1>9, <4>1 DEF TailOf
      <4>2. CASE m # 0
        <5>1. 1 \in 1..m
          BY <1>8, <4>2
        <5>2. E[1] \in EmittedEvent
          BY <1>3, <5>1
        <5>3. E[1].call_id # NONE
          BY <5>2, NoneIsNoObject DEF EmittedEvent
        <5>4. old.root_call_id = E[1].call_id
          BY <1>9, <4>2 DEF TailOf
        <5>5. QED  BY <1>2, <1>8, <5>1, <5>3, <5>4
      <4>3. QED  BY <4>1, <4>2
    <3>3. QED  BY <1>8, <3>1, <3>2 DEF TailOf
  <2>5. \A t \in DOMAIN sessions' : t # s =>
          Linked(emitted'[t]) /\ Committed(emitted'[t]) /\ TailOf(sessions'[t], emitted'[t])
    BY <1>2, <1>3 DEF ChainIntact, RootIsHistory
  <2>6. QED  BY <2>2, <2>3, <2>4, <2>5 DEF ChainIntact, RootIsHistory
<1>12. CallsMatchEvents'
  <2>1. \A i \in 1..m : /\ E[i].call_id \in DOMAIN calls
                        /\ E[i].call_id # k
    BY <1>1 DEF CallsMatchEvents
  <2>2. ASSUME NEW t \in DOMAIN sessions', NEW i \in 1..Len(emitted'[t])
        PROVE  LET x == emitted'[t][i] IN
               /\ x.call_id \in DOMAIN calls'
               /\ calls'[x.call_id].session_id = t
               /\ calls'[x.call_id].content_hash = x.content_hash
               /\ calls'[x.call_id].prev_hash = x.prev_hash
               /\ \A j \in 1..Len(emitted'[t]) : emitted'[t][j].call_id = x.call_id => i = j
    <3>1. CASE t # s
      <4>1. t \in DOMAIN sessions /\ emitted'[t] = emitted[t]
        BY <1>2, <1>3, <3>1
      <4>2. QED  BY <1>4, <4>1 DEF CallsMatchEvents
    <3>2. CASE t = s /\ i \in 1..m
      <4>1. /\ E[i].call_id \in DOMAIN calls
            /\ calls[E[i].call_id].session_id = s
            /\ calls[E[i].call_id].content_hash = E[i].content_hash
            /\ calls[E[i].call_id].prev_hash = E[i].prev_hash
            /\ \A j \in 1..m : E[j].call_id = E[i].call_id => i = j
        BY <1>1, <3>2 DEF CallsMatchEvents
      <4>2. ASSUME NEW j \in 1..Len(F), F[j].call_id = E[i].call_id
            PROVE  i = j
        <5>1. CASE j \in 1..m
          BY <1>8, <4>1, <4>2, <5>1
        <5>2. CASE j = m + 1
          <6>1. F[j].call_id = k
            BY <1>5, <1>8, <5>2
          <6>2. QED  BY <2>1, <3>2, <4>2, <6>1
        <5>3. QED  BY <1>8, <5>1, <5>2
      <4>3. QED  BY <1>4, <1>8, <3>2, <4>1, <4>2
    <3>3. CASE t = s /\ i = m + 1
      <4>1. ASSUME NEW j \in 1..Len(F), F[j].call_id = k
            PROVE  i = j
        BY <1>8, <2>1, <3>3, <4>1
      <4>2. QED  BY <1>4, <1>5, <1>6, <1>8, <3>3, <4>1
    <3>4. QED  BY <1>8, <3>1, <3>2, <3>3
  <2>3. ASSUME NEW j \in DOMAIN calls'
        PROVE  \E i \in 1..Len(emitted'[calls'[j].session_id]) :
                 emitted'[calls'[j].session_id][i].call_id = j
    <3>1. CASE j = k
      <4>1. m + 1 \in 1..Len(F) /\ F[m + 1].call_id = k
        BY <1>5, <1>8
      <4>2. QED  BY <1>6, <3>1, <4>1
    <3>2. CASE j # k
      <4> DEFINE t == calls[j].session_id
      <4>1. j \in DOMAIN calls /\ calls'[j] = calls[j] /\ t \in DOMAIN sessions
        BY <1>4, <3>2 DEF TraceTypeOK
      <4>2. PICK i \in 1..Len(emitted[t]) : emitted[t][i].call_id = j
        BY <4>1 DEF CallsMatchEvents
      <4>3. i \in 1..Len(emitted'[t]) /\ emitted'[t][i] = emitted[t][i]
        <5>1. CASE t = s
          BY <1>8, <4>2, <5>1
        <5>2. CASE t # s
          BY <1>3, <4>1, <4>2, <5>2
        <5>3. QED  BY <5>1, <5>2
      <4>4. QED  BY <4>1, <4>2, <4>3
    <3>3. QED  BY <3>1, <3>2
  <2>4. QED  BY <2>2, <2>3 DEF CallsMatchEvents
<1>13. SessionClosedIsFinal'
  <2>1. s \notin DOMAIN sessionClosed
    BY <1>1 DEF SessionClosedIsFinal
  <2>2. DOMAIN sessionClosed \subseteq DOMAIN sessions
    BY DEF TraceTypeOK
  <2>3. QED  BY <1>1, <1>2, <2>1, <2>2 DEF SessionClosedIsFinal
<1>14. CallClosedIsFinal'
  <2>1. \A x \in callClosed : x.call_id \in DOMAIN calls /\ x.call_id # k
    BY <1>1 DEF CallClosedIsFinal
  <2>2. QED  BY <1>1, <1>4, <1>6, <2>1 DEF CallClosedIsFinal
<1>15. QED  BY <1>10, <1>11, <1>12, <1>13, <1>14

\* Recording a call's outcome preserves the invariant.
LEMMA CloseCallStep ==
  ASSUME TraceInv, NEW s \in SessionId, NEW n \in NamespaceId, NEW c \in CapId,
         NEW k \in CallId, NEW output \in Output, NEW status \in StatusArg,
         CloseCallWithNamespace(s, n, c, k, output, status)
  PROVE  TraceInv'
<1> USE DEF TraceInv
<1> DEFINE e == [call_id |-> k, output_hash |-> output, status |-> status]
<1>1. /\ k \in DOMAIN calls
      /\ calls[k].output_hash = NONE
      /\ calls' \in [DOMAIN calls -> Call]
      /\ calls'[k].output_hash = output /\ calls'[k].output_hash # NONE
      /\ calls'[k].status = status /\ status \in 1..CALL_STATUS_MAX
      /\ \A j \in DOMAIN calls :
           /\ calls'[j].session_id = calls[j].session_id
           /\ calls'[j].content_hash = calls[j].content_hash
           /\ calls'[j].prev_hash = calls[j].prev_hash
           /\ j # k => calls'[j] = calls[j]
      /\ callClosed' = callClosed \cup {e}
      /\ UNCHANGED <<sessions, emitted, sessionClosed>>
  BY CloseCallEffect
<1>2. TraceTypeOK'
  <2>1. e \in CallClosedEvent
    BY <1>1 DEF CallClosedEvent
  <2>2. QED  BY <1>1, <2>1 DEF TraceTypeOK
<1>3. ChainIntact'
  BY <1>1 DEF ChainIntact
<1>4. RootIsHistory'
  BY <1>1 DEF RootIsHistory
<1>5. CallsMatchEvents'
  BY <1>1 DEF CallsMatchEvents
<1>6. SessionClosedIsFinal'
  BY <1>1 DEF SessionClosedIsFinal
<1>7. CallClosedIsFinal'
  <2>1. \A x \in callClosed : x.call_id \in DOMAIN calls /\ x.call_id # k
    BY <1>1 DEF CallClosedIsFinal
  <2>2. DOMAIN calls' = DOMAIN calls /\ e.call_id = k /\ e \in callClosed'
    BY <1>1
  <2>3. e.output_hash = calls'[k].output_hash /\ e.status = calls'[k].status
    BY <1>1
  <2>4. \A x \in callClosed' : x = e \/ x \in callClosed
    BY <1>1
  <2>5. callClosed \subseteq callClosed'
    BY <1>1
  <2> HIDE DEF e
  <2>6. \A x \in callClosed' :
          /\ x.call_id \in DOMAIN calls'
          /\ calls'[x.call_id].output_hash = x.output_hash
          /\ calls'[x.call_id].status = x.status
    BY <1>1, <2>1, <2>2, <2>3, <2>4 DEF CallClosedIsFinal
  <2>7. \A j \in DOMAIN calls' :
          calls'[j].output_hash # NONE <=> \E x \in callClosed' : x.call_id = j
    BY <1>1, <2>1, <2>2, <2>4, <2>5 DEF CallClosedIsFinal
  <2>8. QED  BY <2>6, <2>7 DEF CallClosedIsFinal
<1>8. QED  BY <1>2, <1>3, <1>4, <1>5, <1>6, <1>7

\* Sealing a session preserves the invariant.
LEMMA CloseSessionStep ==
  ASSUME TraceInv, NEW s \in SessionId, NEW n \in NamespaceId, NEW c \in CapId,
         NEW status \in StatusArg, CloseSessionWithNamespace(s, n, c, status)
  PROVE  TraceInv'
<1> USE DEF TraceInv
<1>1. /\ s \in DOMAIN sessions
      /\ sessions[s].status = SESSION_ACTIVE
      /\ status \in SESSION_FINAL
      /\ sessions' \in [DOMAIN sessions -> Session]
      /\ sessions'[s] = [sessions[s] EXCEPT !.status = status]
      /\ \A t \in DOMAIN sessions : t # s => sessions'[t] = sessions[t]
      /\ DOMAIN sessionClosed' = DOMAIN sessionClosed \cup {s}
      /\ sessionClosed' \in [DOMAIN sessionClosed' -> SessionClosedEvent]
      /\ sessionClosed'[s] = [final_merkle_root |-> sessions[s].merkle_root,
                              call_count |-> sessions[s].call_count, status |-> status]
      /\ \A t \in DOMAIN sessionClosed : t # s => sessionClosed'[t] = sessionClosed[t]
      /\ UNCHANGED <<calls, emitted, callClosed>>
  BY CloseSessionEffect
<1>2. /\ sessions[s] \in Session
      /\ sessions'[s].status = status
      /\ sessions'[s].merkle_root = sessions[s].merkle_root
      /\ sessions'[s].call_count = sessions[s].call_count
      /\ sessions'[s].last_content_hash = sessions[s].last_content_hash
      /\ sessions'[s].root_call_id = sessions[s].root_call_id
      /\ sessions'[s].last_call_id = sessions[s].last_call_id
  BY <1>1 DEF TraceTypeOK, Session
<1>3. TraceTypeOK'
  BY <1>1 DEF TraceTypeOK
<1>4. ChainIntact'
  <2>1. ASSUME NEW t \in DOMAIN sessions'
        PROVE  TailOf(sessions'[t], emitted[t])
    <3>1. t \in DOMAIN sessions /\ TailOf(sessions[t], emitted[t])
      BY <1>1 DEF ChainIntact
    <3>2. CASE t # s
      BY <1>1, <3>1, <3>2
    <3>3. CASE t = s
      BY <1>2, <3>1, <3>3 DEF TailOf
    <3>4. QED  BY <3>2, <3>3
  <2>2. QED  BY <1>1, <2>1 DEF ChainIntact
<1>5. RootIsHistory'
  BY <1>1 DEF RootIsHistory
<1>6. CallsMatchEvents'
  BY <1>1 DEF CallsMatchEvents
<1>7. SessionClosedIsFinal'
  <2>1. status # SESSION_ACTIVE
    BY <1>1 DEF SESSION_FINAL, SESSION_ACTIVE
  <2>2. /\ sessionClosed'[s].final_merkle_root = sessions'[s].merkle_root
        /\ sessionClosed'[s].call_count = sessions'[s].call_count
        /\ sessionClosed'[s].status = sessions'[s].status
    BY <1>1, <1>2
  <2>3. \A t \in DOMAIN sessionClosed : t \in DOMAIN sessions
    BY DEF TraceTypeOK
  <2>4. DOMAIN sessions' = DOMAIN sessions
    BY <1>1
  <2>5. \A t \in DOMAIN sessionClosed' : t # s =>
          /\ t \in DOMAIN sessionClosed
          /\ sessionClosed'[t] = sessionClosed[t]
          /\ sessions'[t] = sessions[t]
    BY <1>1, <2>3
  <2>6. \A t \in DOMAIN sessions : t # s =>
          (t \in DOMAIN sessionClosed' <=> t \in DOMAIN sessionClosed)
    BY <1>1
  <2>7. \A t \in DOMAIN sessionClosed' :
          /\ sessionClosed'[t].status = sessions'[t].status
          /\ sessionClosed'[t].final_merkle_root = sessions'[t].merkle_root
          /\ sessionClosed'[t].call_count = sessions'[t].call_count
    BY <2>2, <2>5 DEF SessionClosedIsFinal
  <2>8. \A t \in DOMAIN sessions' :
          sessions'[t].status # SESSION_ACTIVE <=> t \in DOMAIN sessionClosed'
    <3>1. sessions'[s].status # SESSION_ACTIVE /\ s \in DOMAIN sessionClosed'
      BY <1>1, <1>2, <2>1
    <3>2. \A t \in DOMAIN sessions : t # s => sessions'[t] = sessions[t]
      BY <1>1
    <3>3. \A t \in DOMAIN sessions :
            sessions[t].status # SESSION_ACTIVE <=> t \in DOMAIN sessionClosed
      BY DEF SessionClosedIsFinal
    <3>4. QED  BY <2>4, <2>6, <3>1, <3>2, <3>3
  <2>9. QED  BY <2>7, <2>8 DEF SessionClosedIsFinal
<1>8. CallClosedIsFinal'
  BY <1>1 DEF CallClosedIsFinal
<1>9. QED  BY <1>3, <1>4, <1>5, <1>6, <1>7, <1>8

\* Steps of the authority objects leave the trace alone.
LEMMA StutterStep ==
  ASSUME TraceInv, UNCHANGED traceVars
  PROVE  TraceInv'
<1> USE DEF TraceInv
<1>1. UNCHANGED <<sessions, calls, emitted, callClosed, sessionClosed>>
  BY DEF traceVars
<1>2. TraceTypeOK' /\ ChainIntact'
  BY <1>1 DEF TraceTypeOK, ChainIntact
<1>3. RootIsHistory' /\ CallsMatchEvents'
  BY <1>1 DEF RootIsHistory, CallsMatchEvents
<1>4. SessionClosedIsFinal' /\ CallClosedIsFinal'
  BY <1>1 DEF SessionClosedIsFinal, CallClosedIsFinal
<1>5. QED  BY <1>2, <1>3, <1>4

\* Every step preserves the inductive invariant.
LEMMA TraceInvStep == TraceInv /\ [Next]_vars => TraceInv'
<1> SUFFICES ASSUME TraceInv, [Next]_vars PROVE TraceInv'
  OBVIOUS
<1>1. CASE TraceNext
  BY <1>1, OpenStep, EmitStep, CloseCallStep, CloseSessionStep DEF TraceNext
<1>2. CASE UNCHANGED traceVars
  BY <1>2, StutterStep
<1>3. UNCHANGED vars => UNCHANGED traceVars
  BY DEF vars, traceVars
<1>4. QED  BY <1>1, <1>2, <1>3 DEF Next

-----------------------------------------------------------------------------
\* The inductive invariant holds in every reachable state of the package.
THEOREM TraceInvariant == Spec => []TraceInv
BY TraceInitInv, TraceInvStep, PTL DEF Spec

\* Type correctness of the sessions, the calls and the trace events (trace.move).
THEOREM TraceTypeCorrect == Spec => []TraceTypeOK
<1>1. TraceInv => TraceTypeOK
  BY DEF TraceInv
<1>2. QED  BY <1>1, TraceInvariant, PTL

\* The events of every session link up and end at the session object, which is
\* what verifyTraceChain recomputes (trace.move 151-214).
THEOREM ChainStaysIntact == Spec => []ChainIntact
<1>1. TraceInv => ChainIntact
  BY DEF TraceInv
<1>2. QED  BY <1>1, TraceInvariant, PTL

\* Two equal roots, of any two sessions, commit to the same calls: trace.move's
\* "the chain itself proves ordering and integrity" (354-362).
THEOREM RootsCommit == Spec => []RootCommitsToHistory
<1>1. TraceInv => RootCommitsToHistory
  <2> SUFFICES ASSUME TraceInv, NEW s \in DOMAIN sessions, NEW t \in DOMAIN sessions,
                      NEW i \in 1..Len(emitted[s]), NEW j \in 1..Len(emitted[t]),
                      emitted[s][i].new_session_merkle_root = emitted[t][j].new_session_merkle_root
               PROVE  /\ i = j
                      /\ \A h \in 1..i : emitted[s][h].content_hash = emitted[t][h].content_hash
    BY DEF RootCommitsToHistory
  <2>1. Committed(emitted[s]) /\ Committed(emitted[t])
    BY DEF TraceInv, RootIsHistory
  <2>2. i = j
    BY <2>1 DEF Committed
  <2>3. QED  BY <2>1, <2>2 DEF Committed
<1>2. QED  BY <1>1, TraceInvariant, PTL

\* Call objects and Emitted events agree, whatever is closed in between.
THEOREM CallsAlwaysMatchEvents == Spec => []CallsMatchEvents
<1>1. TraceInv => CallsMatchEvents
  BY DEF TraceInv
<1>2. QED  BY <1>1, TraceInvariant, PTL

\* A TraceSessionClosedEvent says for ever what the session object says
\* (trace.move 273-300).
THEOREM SessionsCloseOnce == Spec => []SessionClosedIsFinal
<1>1. TraceInv => SessionClosedIsFinal
  BY DEF TraceInv
<1>2. QED  BY <1>1, TraceInvariant, PTL

\* An ActionCallClosedEvent says for ever what the call object says
\* (trace.move 231-260).
THEOREM CallsCloseOnce == Spec => []CallClosedIsFinal
<1>1. TraceInv => CallClosedIsFinal
  BY DEF TraceInv
<1>2. QED  BY <1>1, TraceInvariant, PTL

-----------------------------------------------------------------------------
(***************************************************************************)
(* The trace contract implements the append-only log of AuditLog.          *)
(***************************************************************************)
\* The first state is an empty log.
LEMMA InitIsLogInit == Init => Log!Init
<1> SUFFICES ASSUME Init PROVE Log!Init
  OBVIOUS
<1>1. calls = Empty /\ emitted = Empty /\ sessionClosed = Empty
  BY DEF Init
<1>2. DOMAIN calls = {} /\ DOMAIN sessionClosed = {} /\ Settled = {}
  BY <1>1 DEF Empty, Settled
<1>3. [s \in DOMAIN sessionClosed |-> sessionClosed[s].call_count] = Empty
  BY <1>2 DEF Empty
<1>4. [k \in Settled |-> [output_hash |-> calls[k].output_hash, status |-> calls[k].status]]
        = Empty
  BY <1>2 DEF Empty
<1>5. QED  BY <1>1, <1>3, <1>4 DEF Log!Init, Log!Empty, Empty

LogSealed == [s \in DOMAIN sessionClosed |-> sessionClosed[s].call_count]
LogOutcome == [k \in Settled |-> [output_hash |-> calls[k].output_hash,
                                  status |-> calls[k].status]]

\* Opening a session opens a log.
LEMMA OpenIsLogOpen ==
  ASSUME TraceInv, NEW n \in NamespaceId, NEW c \in CapId, NEW s \in SessionId,
         OpenSession(n, c, s)
  PROVE  Log!Open(s)
<1>1. s \notin DOMAIN emitted
  BY DEF OpenSession, TraceInv, TraceTypeOK
<1>2. emitted' = Put(emitted, s, <<>>) /\ UNCHANGED <<calls, sessionClosed>>
  BY DEF OpenSession
<1>3. LogSealed' = LogSealed /\ LogOutcome' = LogOutcome
  BY <1>2 DEF LogSealed, LogOutcome, Settled
<1>4. QED  BY <1>1, <1>2, <1>3 DEF Log!Open, Log!Put, Put, LogSealed, LogOutcome

\* Recording a call extends one unsealed log by one entry.
LEMMA EmitIsLogExtend ==
  ASSUME TraceInv, NEW s \in SessionId, NEW n \in NamespaceId, NEW c \in CapId,
         NEW parent \in CallId \cup {NONE}, NEW payload \in Payload, NEW k \in CallId,
         EmitCall(s, n, c, parent, payload, k)
  PROVE  Log!Extend(s)
<1> DEFINE content == ComputeContentHash(payload, parent)
           e == [call_id |-> k, content_hash |-> content,
                 prev_hash |-> sessions[s].last_content_hash,
                 new_session_merkle_root |-> Append(sessions[s].merkle_root, content)]
<1>1. /\ s \in DOMAIN sessions /\ k \notin DOMAIN calls
      /\ sessions[s].status = SESSION_ACTIVE
      /\ emitted[s] \in Seq(EmittedEvent)
      /\ e \in EmittedEvent
      /\ emitted' = [emitted EXCEPT ![s] = Append(@, e)]
      /\ DOMAIN emitted = DOMAIN sessions
      /\ calls' = Put(calls, k, [session_id |-> s, content_hash |-> content,
                   prev_hash |-> sessions[s].last_content_hash,
                   output_hash |-> NONE, status |-> CALL_PENDING])
      /\ sessionClosed' = sessionClosed
  <2>1. /\ s \in DOMAIN sessions /\ k \notin DOMAIN calls
        /\ sessions[s].status = SESSION_ACTIVE
        /\ emitted' = [emitted EXCEPT ![s] = Append(@, e)]
        /\ calls' = Put(calls, k, [session_id |-> s, content_hash |-> content,
                     prev_hash |-> sessions[s].last_content_hash,
                     output_hash |-> NONE, status |-> CALL_PENDING])
        /\ sessionClosed' = sessionClosed
    BY DEF EmitCall, ChainHash, AssertSessionActive, PrevHash
  <2>2. emitted \in [DOMAIN sessions -> Seq(EmittedEvent)] /\ TraceTypeOK
    BY DEF TraceInv, TraceTypeOK
  <2>3. e \in EmittedEvent
    BY <2>2, EmitEffect
  <2>4. QED  BY <2>1, <2>2, <2>3
<1> HIDE DEF e
<1>2. s \notin DOMAIN sessionClosed
  BY <1>1 DEF TraceInv, SessionClosedIsFinal
<1>3. /\ emitted'[s] = Append(emitted[s], e)
      /\ DOMAIN emitted' = DOMAIN emitted
  BY <1>1
<1>4. /\ Len(emitted'[s]) = Len(emitted[s]) + 1
      /\ emitted'[s][Len(emitted'[s])] = e
  BY <1>1, <1>3
<1>5. emitted' = [emitted EXCEPT ![s] = Append(emitted[s], emitted'[s][Len(emitted'[s])])]
  BY <1>1, <1>4
<1>6. LogSealed' = LogSealed
  BY <1>1 DEF LogSealed
<1>7. LogOutcome' = LogOutcome
  <2>1. Settled' = Settled
    BY <1>1 DEF Settled, Put
  <2>2. \A j \in Settled : calls'[j] = calls[j]
    BY <1>1 DEF Settled, Put
  <2>3. QED  BY <2>1, <2>2 DEF LogOutcome
<1>8. QED
  BY <1>1, <1>2, <1>3, <1>4, <1>5, <1>6, <1>7 DEF Log!Extend, LogSealed, LogOutcome

\* Closing a call settles an entry that had no outcome.
LEMMA CloseCallIsLogSettle ==
  ASSUME TraceInv, NEW s \in SessionId, NEW n \in NamespaceId, NEW c \in CapId,
         NEW k \in CallId, NEW output \in Output, NEW status \in StatusArg,
         CloseCallWithNamespace(s, n, c, k, output, status)
  PROVE  \E t \in DOMAIN emitted : \E i \in DOMAIN emitted[t] :
           \E o \in [output_hash : Output, status : 1..CALL_STATUS_MAX] : Log!Settle(t, i, o)
<1> DEFINE o == [output_hash |-> output, status |-> status]
<1>1. /\ k \in DOMAIN calls
      /\ calls[k].output_hash = NONE
      /\ calls' \in [DOMAIN calls -> Call]
      /\ calls'[k].output_hash = output /\ calls'[k].output_hash # NONE
      /\ calls'[k].status = status /\ status \in 1..CALL_STATUS_MAX
      /\ \A j \in DOMAIN calls :
           /\ calls'[j].session_id = calls[j].session_id
           /\ calls'[j].content_hash = calls[j].content_hash
           /\ calls'[j].prev_hash = calls[j].prev_hash
           /\ j # k => calls'[j] = calls[j]
      /\ callClosed' = callClosed \cup
           {[call_id |-> k, output_hash |-> output, status |-> status]}
      /\ UNCHANGED <<sessions, emitted, sessionClosed>>
  BY CloseCallEffect DEF TraceInv
<1>2. PICK t \in DOMAIN emitted : \E i \in DOMAIN emitted[t] : emitted[t][i].call_id = k
  <2>1. /\ calls[k].session_id \in DOMAIN sessions
        /\ emitted \in [DOMAIN sessions -> Seq(EmittedEvent)]
    BY <1>1 DEF TraceInv, TraceTypeOK
  <2>2. PICK i \in 1..Len(emitted[calls[k].session_id]) :
          emitted[calls[k].session_id][i].call_id = k
    BY <1>1 DEF TraceInv, CallsMatchEvents
  <2>3. i \in DOMAIN emitted[calls[k].session_id]
    BY <2>1, <2>2
  <2>4. QED  BY <2>1, <2>2, <2>3
<1>3. k \notin Settled /\ DOMAIN LogOutcome = Settled
  BY <1>1 DEF Settled, LogOutcome
<1>4. LogOutcome' = Put(LogOutcome, k, o)
  <2>1. Settled' = Settled \cup {k}
    BY <1>1 DEF Settled
  <2>2. \A j \in Settled : calls'[j] = calls[j] /\ j # k
    BY <1>1, <1>3 DEF Settled
  <2>3. QED  BY <1>1, <1>3, <2>1, <2>2 DEF LogOutcome, Put
<1>5. LogSealed' = LogSealed
  BY <1>1 DEF LogSealed
<1>6. PICK i \in DOMAIN emitted[t] : emitted[t][i].call_id = k
  BY <1>2
<1>7. Log!Settle(t, i, o)
  BY <1>1, <1>3, <1>4, <1>5, <1>6 DEF Log!Settle, Log!Put, Put, LogSealed, LogOutcome
<1>8. o \in [output_hash : Output, status : 1..CALL_STATUS_MAX]
  BY <1>1
<1>9. QED  BY <1>7, <1>8

\* Closing a session seals its log at its length.
LEMMA CloseSessionIsLogSeal ==
  ASSUME TraceInv, NEW s \in SessionId, NEW n \in NamespaceId, NEW c \in CapId,
         NEW status \in StatusArg, CloseSessionWithNamespace(s, n, c, status)
  PROVE  Log!Seal(s)
<1> DEFINE e == [final_merkle_root |-> sessions[s].merkle_root,
                 call_count |-> sessions[s].call_count, status |-> status]
<1>1. /\ s \in DOMAIN sessions
      /\ sessions[s].status = SESSION_ACTIVE
      /\ sessionClosed' = Put(sessionClosed, s, e)
      /\ UNCHANGED <<calls, emitted>>
  BY DEF CloseSessionWithNamespace, AssertSessionActive
<1>2. DOMAIN emitted = DOMAIN sessions
  BY DEF TraceInv, TraceTypeOK
<1>3. s \notin DOMAIN sessionClosed
  BY <1>1 DEF TraceInv, SessionClosedIsFinal
<1>4. e.call_count = Len(emitted[s])
  BY <1>1 DEF TraceInv, ChainIntact, TailOf
<1> HIDE DEF e
<1>5. LogSealed' = Put(LogSealed, s, Len(emitted[s]))
  BY <1>1, <1>4 DEF LogSealed, Put
<1>6. LogOutcome' = LogOutcome
  BY <1>1 DEF LogOutcome, Settled
<1>7. QED
  BY <1>1, <1>2, <1>3, <1>5, <1>6 DEF Log!Seal, Log!Put, Put, LogSealed, LogOutcome

\* Every step is a step of the log or leaves the log alone.
LEMMA StepIsLogStep == TraceInv /\ [Next]_vars => [Log!Next]_(Log!auditVars)
<1> SUFFICES ASSUME TraceInv, [Next]_vars PROVE [Log!Next]_(Log!auditVars)
  OBVIOUS
<1>1. CASE TraceNext
  BY <1>1, OpenIsLogOpen, EmitIsLogExtend, CloseCallIsLogSettle, CloseSessionIsLogSeal
  DEF TraceNext, Log!Next
<1>2. CASE UNCHANGED traceVars
  <2>1. UNCHANGED <<calls, emitted, sessionClosed>>
    BY <1>2 DEF traceVars
  <2>2. LogSealed' = LogSealed /\ LogOutcome' = LogOutcome
    BY <2>1 DEF LogSealed, LogOutcome, Settled
  <2>3. QED  BY <2>1, <2>2 DEF Log!auditVars, LogSealed, LogOutcome
<1>3. UNCHANGED vars => UNCHANGED traceVars
  BY DEF vars, traceVars
<1>4. QED  BY <1>1, <1>2, <1>3 DEF Next

\* The package is an append-only log with sealing and write-once outcomes, for
\* any number of sessions, calls, namespaces and capabilities.
THEOREM TraceImplementsAuditLog == Spec => ImplementsAuditLog
BY InitIsLogInit, StepIsLogStep, TraceInvariant, PTL DEF Spec, ImplementsAuditLog, Log!Spec

-----------------------------------------------------------------------------
(***************************************************************************)
(* Positions in order.                                                     *)
(***************************************************************************)
\* Every set of numbers has a least one: the induction of the lemmas below.
LEMMA LeastNumber ==
  ASSUME NEW T \in SUBSET Nat, T # {}
  PROVE  \E n \in T : \A m \in T : ~(m < n)
<1> DEFINE R == {ss \in Nat \X Nat : ss[1] < ss[2]}
<1>1. IsWellFoundedOn(R, Nat)
  BY NatLessThanWellFounded DEF OpToRel
<1> HIDE DEF R
<1>2. \E x \in T : \A y \in T : ~ (<<y, x>> \in R)
  BY <1>1, WFMin
<1>3. PICK n \in T : \A y \in T : ~ (<<y, n>> \in R)
  BY <1>2
<1>4. ASSUME NEW m \in T PROVE ~(m < n)
  BY <1>3, <1>4 DEF R
<1>5. QED  BY <1>3, <1>4

\* e lists the members of S from the least to the greatest.
Ascending(e, S) ==
  /\ e \in [1..Cardinality(S) -> S]
  /\ \A i, j \in 1..Cardinality(S) : i < j => e[i] < e[j]

LEMMA PositionsAreFinite ==
  ASSUME NEW n \in Nat, NEW S \in SUBSET (1..n)
  PROVE  IsFiniteSet(S) /\ Cardinality(S) \in Nat
<1>1. IsFiniteSet(1..n)
  BY FS_Interval
<1>2. IsFiniteSet(S)
  BY <1>1, FS_Subset
<1>3. QED  BY <1>2, FS_CardinalityType

\* Positions can be listed in ascending order.
LEMMA PositionsAscend ==
  ASSUME NEW n \in Nat, NEW S \in SUBSET (1..n)
  PROVE  \E e : Ascending(e, S)
<1> DEFINE bad == {m \in Nat : \E T \in SUBSET (1..m) : ~ \E e : Ascending(e, T)}
<1>1. SUFFICES ASSUME bad # {} PROVE FALSE
  <2>1. n \in bad \/ \E e : Ascending(e, S)
    OBVIOUS
  <2>2. QED  BY <1>1, <2>1
<1>2. PICK m \in bad : \A k \in bad : ~(k < m)
  <2>1. bad \in SUBSET Nat
    OBVIOUS
  <2> HIDE DEF bad
  <2>2. QED  BY <1>1, <2>1, LeastNumber
<1>3. m \in Nat
  OBVIOUS
<1>4. PICK T \in SUBSET (1..m) : ~ \E e : Ascending(e, T)
  OBVIOUS
<1>5. m # 0
  <2>1. SUFFICES ASSUME m = 0 PROVE FALSE
    OBVIOUS
  <2>2. T = {}
    BY <2>1
  <2>3. Cardinality(T) = 0
    BY <2>2, FS_EmptySet
  <2>4. Ascending([i \in 1..0 |-> i], T)
    BY <2>3 DEF Ascending
  <2>5. QED  BY <1>4, <2>4
<1>6. m - 1 \in Nat /\ m - 1 < m
  BY <1>3, <1>5
<1>7. m - 1 \notin bad
  BY <1>2, <1>6
<1>8. \A U \in SUBSET (1..(m - 1)) : \E e : Ascending(e, U)
  BY <1>6, <1>7
<1> DEFINE U == T \ {m}
<1>9. U \in SUBSET (1..(m - 1))
  BY <1>3, <1>5
<1>10. PICK e : Ascending(e, U)
  BY <1>8, <1>9
<1>11. m \in T
  <2>1. SUFFICES ASSUME m \notin T PROVE FALSE
    OBVIOUS
  <2>2. U = T
    BY <2>1
  <2>3. QED  BY <1>4, <1>10, <2>2
<1>12. IsFiniteSet(U) /\ Cardinality(U) \in Nat
  BY <1>6, <1>9, PositionsAreFinite
<1>13. Cardinality(T) = Cardinality(U) + 1
  <2>1. T = U \cup {m} /\ m \notin U
    BY <1>11
  <2> HIDE DEF U
  <2>2. QED  BY <1>12, <2>1, FS_AddElement
<1> DEFINE c == Cardinality(U)
           f == [i \in 1..(c + 1) |-> IF i <= c THEN e[i] ELSE m]
<1>14. /\ e \in [1..c -> U]
       /\ \A i, j \in 1..c : i < j => e[i] < e[j]
  BY <1>10 DEF Ascending
<1>15. \A i \in 1..c : e[i] \in T /\ e[i] < m
  <2>1. \A x \in U : x \in T /\ x < m
    BY <1>3, <1>9
  <2> HIDE DEF bad, U, c
  <2>2. QED  BY <1>14, <2>1
<1> HIDE DEF bad, U
<1>16. c \in Nat
  BY <1>12
<1>17. Cardinality(T) = c + 1
  BY <1>13
<1> HIDE DEF c
<1>18. f \in [1..(c + 1) -> T]
  BY <1>11, <1>15, <1>16
<1>19. \A i, j \in 1..(c + 1) : i < j => f[i] < f[j]
  BY <1>14, <1>15, <1>16
<1>20. Ascending(f, T)
  BY <1>17, <1>18, <1>19 DEF Ascending
<1>21. QED  BY <1>4, <1>20

NoGreater(S, n) == {x \in S : x <= n}

\* In a listing in ascending order every member is there, the i-th one above i - 1 others.
LEMMA AscendingCounts ==
  ASSUME NEW n \in Nat, NEW S \in SUBSET (1..n), NEW e, Ascending(e, S)
  PROVE  /\ \A x \in S : \E i \in 1..Cardinality(S) : e[i] = x
         /\ \A i \in 1..Cardinality(S) : Cardinality(NoGreater(S, e[i])) = i
<1> DEFINE c == Cardinality(S)
<1>1. IsFiniteSet(S) /\ c \in Nat
  BY PositionsAreFinite
<1>2. /\ e \in [1..c -> S]
      /\ \A i, j \in 1..c : i < j => e[i] < e[j]
  BY DEF Ascending
<1>3. \A i \in 1..c : e[i] \in Nat
  <2>1. S \subseteq Nat
    OBVIOUS
  <2> HIDE DEF c
  <2>2. QED  BY <1>2, <2>1
<1>4. e \in Injection(1..c, S)
  <2>1. \A i, j \in 1..c : e[i] = e[j] => i = j
    <3>1. SUFFICES ASSUME NEW i \in 1..c, NEW j \in 1..c, e[i] = e[j], i # j PROVE FALSE
      OBVIOUS
    <3>2. i < j \/ j < i
      BY <1>1, <3>1
    <3>3. e[i] < e[j] \/ e[j] < e[i]
      BY <1>2, <3>2
    <3>4. QED  BY <1>3, <3>1, <3>3
  <2>2. QED  BY <1>2, <2>1 DEF Injection, IsInjective
<1>5. Cardinality(1..c) = c
  BY <1>1, FS_Interval
<1> HIDE DEF c
<1>6. e \in Surjection(1..c, S)
  BY <1>1, <1>4, <1>5, FS_Injection DEF c
<1>7. \A x \in S : \E i \in 1..c : e[i] = x
  BY <1>6 DEF Surjection
<1>8. ASSUME NEW i \in 1..c
      PROVE  Cardinality(NoGreater(S, e[i])) = i
  <2> DEFINE B == NoGreater(S, e[i])
             f == [k \in 1..i |-> e[k]]
  <2>1. i \in Nat /\ 1..i \subseteq 1..c
    BY <1>1
  <2> USE DEF NoGreater
  <2>2. \A k \in 1..i : e[k] \in B
    <3>1. TAKE k \in 1..i
    <3>2. k = i \/ k < i
      BY <2>1
    <3>3. e[k] <= e[i]
      BY <1>2, <1>3, <2>1, <3>2
    <3>4. QED  BY <1>2, <2>1, <3>3
  <2>3. \A x \in B : \E k \in 1..i : e[k] = x
    <3>1. TAKE x \in B
    <3>2. PICK k \in 1..c : e[k] = x
      BY <1>7
    <3>3. ~(i < k)
      BY <1>2, <1>3, <3>2
    <3>4. QED  BY <1>1, <2>1, <3>2, <3>3
  <2>4. f \in Bijection(1..i, B)
    <3>1. f \in [1..i -> B] /\ \A k \in 1..i : f[k] = e[k]
      BY <2>2
    <3>2. \A j, k \in 1..i : f[j] = f[k] => j = k
      BY <1>4, <2>1, <3>1 DEF Injection, IsInjective
    <3> HIDE DEF B, f
    <3>3. f \in Injection(1..i, B)
      BY <3>1, <3>2 DEF Injection, IsInjective
    <3>4. f \in Surjection(1..i, B)
      BY <2>3, <3>1 DEF Surjection, B
    <3>5. QED  BY <3>3, <3>4 DEF Bijection
  <2>5. ExistsBijection(1..i, B)
    BY <2>4 DEF ExistsBijection
  <2>6. QED  BY <2>1, <2>5, FS_CountingElements
<1>9. QED  BY <1>7, <1>8 DEF c

\* What InOrder yields for the order of the ledger.
LEMMA InOrderAscends ==
  ASSUME NEW n \in Nat, NEW S \in SUBSET (1..n)
  PROVE  Ascending(InOrder(S, <), S)
<1>1. PICK e : Ascending(e, S)
  BY PositionsAscend
<1>2. QED  BY <1>1 DEF Ascending, InOrder

(***************************************************************************)
(* The two walks of a list.                                                *)
(***************************************************************************)
Before(walk, i, j) == IF walk = "ascending" THEN i < j ELSE i > j

\* e lists the members of S, each once, in the order of the walk.
Listing(e, S, walk) ==
  /\ e \in [1..Cardinality(S) -> S]
  /\ \A i, j \in 1..Cardinality(S) : i < j => Before(walk, e[i], e[j])

\* What InOrder yields for either walk.
LEMMA InOrderLists ==
  ASSUME NEW n \in Nat, NEW S \in SUBSET (1..n)
  PROVE  /\ Listing(InOrder(S, <), S, "ascending")
         /\ \A walk : walk # "ascending" => Listing(InOrder(S, >), S, walk)
<1> DEFINE c == Cardinality(S)
<1>1. c \in Nat /\ S \subseteq Nat
  <2>1. c \in Nat
    BY PositionsAreFinite
  <2>2. S \subseteq Nat
    OBVIOUS
  <2>3. QED  BY <2>1, <2>2
<1>2. PICK e : Ascending(e, S)
  BY PositionsAscend
<1> DEFINE f == [i \in 1..c |-> e[(c + 1) - i]]
<1>3. /\ e \in [1..c -> S]
      /\ \A i, j \in 1..c : i < j => e[i] < e[j]
  BY <1>2 DEF Ascending
<1>4. Listing(InOrder(S, <), S, "ascending")
  BY InOrderAscends DEF Ascending, Listing, Before
<1> HIDE DEF c
<1>5. \A i \in 1..c : (c + 1) - i \in 1..c
  BY <1>1
<1>6. f \in [1..c -> S]
  BY <1>3, <1>5
<1>7. ASSUME NEW i \in 1..c, NEW j \in 1..c, i < j PROVE f[i] > f[j]
  <2>1. (c + 1) - j < (c + 1) - i
    BY <1>1, <1>7
  <2>2. e[(c + 1) - j] < e[(c + 1) - i]
    BY <1>3, <1>5, <2>1
  <2>3. e[(c + 1) - j] \in Nat /\ e[(c + 1) - i] \in Nat
    BY <1>1, <1>3, <1>5
  <2>4. f[i] = e[(c + 1) - i] /\ f[j] = e[(c + 1) - j]
    OBVIOUS
  <2>5. QED  BY <2>2, <2>3, <2>4
<1> HIDE DEF f
<1>8. \E s \in [1..c -> S] : \A i, j \in 1..c : i < j => s[i] > s[j]
  BY <1>6, <1>7
<1>9. /\ InOrder(S, >) \in [1..c -> S]
      /\ \A i, j \in 1..c : i < j => InOrder(S, >)[i] > InOrder(S, >)[j]
  BY <1>8 DEF InOrder, c
<1>10. QED  BY <1>4, <1>9 DEF Listing, Before, c

\* A page put after the pages before it.
LEMMA PagesJoin ==
  ASSUME NEW n \in Nat, NEW A \in SUBSET (1..n), NEW B \in SUBSET (1..n), NEW walk,
         \A x \in A, y \in B : Before(walk, x, y),
         NEW d \in Seq(1..n), NEW p, Listing(p, B, walk)
  PROVE  /\ p \in Seq(1..n) /\ Len(p) = Cardinality(B)
         /\ Cardinality(A) \in Nat /\ Cardinality(B) \in Nat
         /\ Cardinality(A \cup B) = Cardinality(A) + Cardinality(B)
         /\ Listing(d, A, walk) => Listing(d \o p, A \cup B, walk)
<1> DEFINE a == Cardinality(A)
           b == Cardinality(B)
<1>1. IsFiniteSet(A) /\ a \in Nat /\ IsFiniteSet(B) /\ b \in Nat
  BY PositionsAreFinite
<1>2. \A x \in A : x \notin B
  <2>1. SUFFICES ASSUME NEW x \in A, x \in B PROVE FALSE
    OBVIOUS
  <2>2. Before(walk, x, x) /\ x \in Nat
    BY <2>1
  <2>3. QED  BY <2>2 DEF Before
<1>3. A \cap B = {}
  BY <1>2
<1>4. Cardinality(A \cap B) = 0
  BY <1>3, FS_EmptySet
<1>5. Cardinality(A \cup B) = a + b
  <2>1. Cardinality(A \cup B) = Cardinality(A) + Cardinality(B) - Cardinality(A \cap B)
    BY <1>1, FS_Union
  <2>2. QED  BY <1>1, <1>4, <2>1
<1>6. /\ p \in [1..b -> B]
      /\ \A i, j \in 1..b : i < j => Before(walk, p[i], p[j])
  BY DEF Listing
<1> HIDE DEF a, b
<1>7. p \in Seq(1..n) /\ Len(p) = b
  <2>1. \A i \in 1..b : p[i] \in 1..n
    BY <1>6
  <2> DEFINE T == 1..n
  <2>2. p \in [1..b -> T]
    BY <1>6, <2>1
  <2> HIDE DEF T
  <2>3. p \in Seq(T) /\ Len(p) = b
    BY <1>1, <2>2
  <2>4. QED  BY <2>3 DEF T
<1>8. ASSUME Listing(d, A, walk) PROVE Listing(d \o p, A \cup B, walk)
  <2>1. /\ d \in [1..a -> A] /\ Len(d) = a
        /\ \A i, j \in 1..a : i < j => Before(walk, d[i], d[j])
    <3>1. /\ d \in [1..a -> A]
          /\ \A i, j \in 1..a : i < j => Before(walk, d[i], d[j])
      BY <1>8 DEF Listing, a
    <3>2. DOMAIN d = 1..a /\ DOMAIN d = 1..Len(d) /\ Len(d) \in Nat
      BY <3>1
    <3>3. QED  BY <1>1, <3>1, <3>2
  <2> DEFINE e == d \o p
  <2>2. /\ e \in Seq(1..n) /\ Len(e) = a + b
        /\ \A i \in 1..a : e[i] = d[i]
        /\ \A i \in 1..(a + b) : i > a => e[i] = p[i - a]
    <3> DEFINE T == 1..n
    <3>1. d \in Seq(T) /\ p \in Seq(T)
      BY <1>7
    <3> HIDE DEF T
    <3>2. e \in Seq(T) /\ Len(e) = Len(d) + Len(p)
      BY <3>1
    <3>3. \A i \in 1..Len(d) : e[i] = d[i]
      BY <3>1
    <3>4. \A i \in 1..(Len(d) + Len(p)) : i > Len(d) => e[i] = p[i - Len(d)]
      BY <3>1
    <3>5. QED  BY <1>7, <2>1, <3>2, <3>3, <3>4 DEF T
  <2> HIDE DEF e
  <2>3. \A i \in 1..(a + b) : i > a => i - a \in 1..b
    BY <1>1
  <2>4. \A i \in 1..a : e[i] \in A
    BY <2>1, <2>2
  <2>5. \A i \in 1..(a + b) : i > a => e[i] \in B
    BY <1>6, <2>2, <2>3
  <2>6. \A i \in 1..(a + b) : i <= a => i \in 1..a
    BY <1>1
  <2>7. e \in [1..(a + b) -> A \cup B]
    <3>1. DOMAIN e = 1..(a + b)
      BY <1>1, <2>2
    <3>2. \A i \in 1..(a + b) : e[i] \in A \cup B
      BY <1>1, <2>4, <2>5, <2>6
    <3>3. e = [i \in 1..(a + b) |-> e[i]]
      BY <2>2, <3>1
    <3>4. QED  BY <3>2, <3>3
  <2>8. ASSUME NEW i \in 1..(a + b), NEW j \in 1..(a + b), i < j
        PROVE  Before(walk, e[i], e[j])
    <3>1. CASE j <= a
      <4>1. i \in 1..a /\ j \in 1..a
        BY <1>1, <2>8, <3>1
      <4>2. QED  BY <2>1, <2>2, <2>8, <4>1
    <3>2. CASE i > a
      <4>1. /\ j > a /\ i - a \in 1..b /\ j - a \in 1..b /\ i - a < j - a
        BY <1>1, <2>8, <3>2
      <4>2. e[i] = p[i - a] /\ e[j] = p[j - a]
        BY <2>2, <3>2, <4>1
      <4>3. QED  BY <1>6, <4>1, <4>2
    <3>3. CASE i <= a /\ j > a
      <4>1. e[i] \in A /\ e[j] \in B
        BY <2>4, <2>5, <2>6, <3>3
      <4>2. QED  BY <4>1
    <3>4. QED  BY <1>1, <3>1, <3>2, <3>3
  <2>9. QED  BY <1>5, <2>7, <2>8 DEF Listing, e
<1>9. QED  BY <1>1, <1>5, <1>7, <1>8 DEF a, b

(****************************************************************************)
(* The root a verifier recomputes is the list of the contents it was given. *)
(****************************************************************************)
LEMMA RootIsContents ==
  ASSUME NEW C, NEW s \in Seq(C)
  PROVE  RootOf(s) = s
<1> DEFINE root == CHOOSE g :
             g = [i \in 0..Len(s) |-> IF i = 0 THEN ZERO_HASH ELSE ChainHash(g[i - 1], s[i])]
           all == [i \in 0..Len(s) |-> SubSeq(s, 1, i)]
<1>1. RootOf(s) = root[Len(s)]
  BY DEF RootOf
<1>2. all = [i \in 0..Len(s) |-> IF i = 0 THEN ZERO_HASH ELSE ChainHash(all[i - 1], s[i])]
  BY DEF ZERO_HASH, ChainHash
<1> HIDE DEF all
<1>3. root = [i \in 0..Len(s) |-> IF i = 0 THEN ZERO_HASH ELSE ChainHash(root[i - 1], s[i])]
  BY <1>2
<1> HIDE DEF root
<1>4. Len(s) \in Nat
  OBVIOUS
<1>5. root[0] = ZERO_HASH /\ \A i \in 1..Len(s) : root[i] = ChainHash(root[i - 1], s[i])
  BY <1>3, <1>4
<1> DEFINE bad == {i \in Nat : i <= Len(s) /\ root[i] # SubSeq(s, 1, i)}
<1>6. bad = {}
  <2>1. SUFFICES ASSUME bad # {} PROVE FALSE
    OBVIOUS
  <2>2. bad \in SUBSET Nat
    OBVIOUS
  <2>3. PICK n \in bad : \A m \in bad : ~(m < n)
    <3> HIDE DEF bad
    <3>1. QED  BY <2>1, <2>2, LeastNumber
  <2>4. n \in Nat /\ n <= Len(s) /\ root[n] # SubSeq(s, 1, n)
    BY <2>3
  <2>5. n # 0
    <3>1. SubSeq(s, 1, 0) = <<>>
      OBVIOUS
    <3>2. QED  BY <1>5, <2>4, <3>1 DEF ZERO_HASH
  <2>6. n - 1 \in Nat /\ n - 1 <= Len(s) /\ n - 1 < n /\ n \in 1..Len(s)
    BY <1>4, <2>4, <2>5
  <2>7. root[n - 1] = SubSeq(s, 1, n - 1)
    BY <2>3, <2>6
  <2>8. root[n] = Append(SubSeq(s, 1, n - 1), s[n])
    BY <1>5, <2>6, <2>7 DEF ChainHash
  <2>9. Append(SubSeq(s, 1, n - 1), s[n]) = SubSeq(s, 1, n)
    BY <2>6
  <2>10. QED  BY <2>4, <2>8, <2>9
<1>7. root[Len(s)] = SubSeq(s, 1, Len(s))
  BY <1>4, <1>6
<1>8. SubSeq(s, 1, Len(s)) = s
  OBVIOUS
<1>9. QED  BY <1>1, <1>7, <1>8

(***************************************************************************)
(* The ledger numbers the calls of each session as the session does.       *)
(***************************************************************************)
RowType == [session_id : SessionId, content_hash : ContentHash,
            prev_hash : ContentHash \cup {ZERO_HASH}]

\* How many of the first k events of the ledger L are of session s.
UpTo(L, s, k) == {i \in 1..k : L[i].session_id = s}
CountOf(L, s, k) == Cardinality(UpTo(L, s, k))

\* A session's n-th row in the ledger is its n-th event, and no row is missing.
NumberedRow(L, E, k) ==
  LET s == L[k].session_id
      n == CountOf(L, s, k)
  IN /\ s \in DOMAIN E
     /\ n \in 1..Len(E[s])
     /\ L[k] = Row(s, E[s][n])
Numbered(L, E) ==
  /\ L \in Seq(RowType)
  /\ \A k \in 1..Len(L) : NumberedRow(L, E, k)
  /\ \A s \in DOMAIN E : CountOf(L, s, Len(L)) = Len(E[s])

\* Every session of E is in F, with the same events and perhaps more.
Extends(F, E) ==
  \A s \in DOMAIN E :
    /\ s \in DOMAIN F
    /\ Len(E[s]) <= Len(F[s])
    /\ \A i \in 1..Len(E[s]) : F[s][i] = E[s][i]

LEMMA CountIsNumber ==
  ASSUME NEW L, NEW s, NEW k \in Nat
  PROVE  IsFiniteSet(UpTo(L, s, k)) /\ CountOf(L, s, k) \in Nat
<1>1. UpTo(L, s, k) \in SUBSET (1..k)
  BY DEF UpTo
<1>2. QED  BY <1>1, PositionsAreFinite DEF CountOf

LEMMA CountGrows ==
  ASSUME NEW L, NEW s, NEW k \in Nat, NEW m \in Nat, k <= m
  PROVE  CountOf(L, s, k) <= CountOf(L, s, m)
<1>1. UpTo(L, s, k) \in SUBSET UpTo(L, s, m)
  BY DEF UpTo
<1>2. QED  BY <1>1, CountIsNumber, FS_Subset DEF CountOf

LEMMA CountOfNothing ==
  ASSUME NEW L, NEW s
  PROVE  CountOf(L, s, 0) = 0
<1>1. UpTo(L, s, 0) = {}
  BY DEF UpTo
<1>2. QED  BY <1>1, FS_EmptySet DEF CountOf

\* What is appended to a ledger does not change the counts before it.
LEMMA CountStays ==
  ASSUME NEW L, NEW M, NEW s, NEW k \in Nat, \A i \in 1..k : M[i] = L[i]
  PROVE  CountOf(M, s, k) = CountOf(L, s, k)
<1>1. UpTo(M, s, k) = UpTo(L, s, k)
  BY DEF UpTo
<1>2. QED  BY <1>1 DEF CountOf

LEMMA CountNext ==
  ASSUME NEW L, NEW s, NEW k \in Nat
  PROVE  CountOf(L, s, k + 1)
           = IF L[k + 1].session_id = s THEN CountOf(L, s, k) + 1 ELSE CountOf(L, s, k)
<1>1. CASE L[k + 1].session_id = s
  <2>1. UpTo(L, s, k + 1) = UpTo(L, s, k) \cup {k + 1} /\ k + 1 \notin UpTo(L, s, k)
    BY <1>1 DEF UpTo
  <2>2. QED  BY <1>1, <2>1, CountIsNumber, FS_AddElement DEF CountOf
<1>2. CASE L[k + 1].session_id # s
  <2>1. UpTo(L, s, k + 1) = UpTo(L, s, k)
    BY <1>2 DEF UpTo
  <2>2. QED  BY <1>2, <2>1 DEF CountOf
<1>3. QED  BY <1>1, <1>2

\* emit_call adds the next number of one session.
LEMMA NumberedAppend ==
  ASSUME NEW L, NEW E, Numbered(L, E), \A t \in DOMAIN E : E[t] \in Seq(EmittedEvent),
         NEW s \in DOMAIN E, NEW event \in EmittedEvent, Row(s, event) \in RowType,
         NEW F, DOMAIN F = DOMAIN E, F[s] = Append(E[s], event),
         \A t \in DOMAIN E : t # s => F[t] = E[t],
         NEW M, M = Append(L, Row(s, event))
  PROVE  Numbered(M, F) /\ Extends(F, E)
<1> DEFINE n == Len(L)
<1>1. /\ L \in Seq(RowType) /\ n \in Nat /\ Len(M) = n + 1
      /\ M \in Seq(RowType)
      /\ \A i \in 1..n : M[i] = L[i]
      /\ M[n + 1] = Row(s, event)
  BY DEF Numbered
<1>2. /\ E[s] \in Seq(EmittedEvent) /\ Len(E[s]) \in Nat
      /\ Len(F[s]) = Len(E[s]) + 1
      /\ \A i \in 1..Len(E[s]) : F[s][i] = E[s][i]
      /\ F[s][Len(E[s]) + 1] = event
  OBVIOUS
<1>3. \A t \in DOMAIN E : Len(E[t]) \in Nat
  OBVIOUS
<1>4. Extends(F, E)
  <2>1. ASSUME NEW t \in DOMAIN E
        PROVE  Len(E[t]) <= Len(F[t]) /\ \A i \in 1..Len(E[t]) : F[t][i] = E[t][i]
    <3>1. CASE t = s
      BY <1>2, <3>1
    <3>2. CASE t # s
      BY <1>3, <3>2
    <3>3. QED  BY <3>1, <3>2
  <2>2. QED  BY <2>1 DEF Extends
<1>5. \A t, k : k \in 0..n => CountOf(M, t, k) = CountOf(L, t, k)
  <2>1. TAKE t, k
  <2>2. HAVE k \in 0..n
  <2>3. k \in Nat
    BY <1>1, <2>2
  <2>4. \A i \in 1..k : M[i] = L[i]
    BY <1>1, <2>2
  <2>5. UpTo(M, t, k) = UpTo(L, t, k)
    BY <2>4 DEF UpTo
  <2>6. QED  BY <2>5 DEF CountOf
<1>6. M[n + 1].session_id = s
  BY <1>1 DEF Row
<1>7. \A t \in DOMAIN E : CountOf(M, t, n + 1) = Len(F[t])
  <2>1. TAKE t \in DOMAIN E
  <2>2. CountOf(L, t, n) = Len(E[t])
    BY DEF Numbered
  <2>3. CountOf(M, t, n) = Len(E[t])
    BY <1>1, <1>5, <2>2
  <2>4. CountOf(M, t, n + 1)
          = IF M[n + 1].session_id = t THEN CountOf(M, t, n) + 1 ELSE CountOf(M, t, n)
    <3>1. n \in Nat
      BY <1>1
    <3> HIDE DEF n
    <3>2. \A K, u : CountOf(K, u, n + 1)
                      = IF K[n + 1].session_id = u THEN CountOf(K, u, n) + 1 ELSE CountOf(K, u, n)
      BY <3>1, CountNext
    <3>3. QED  BY <3>2
  <2>5. CASE t = s
    BY <1>2, <1>6, <2>3, <2>4, <2>5
  <2>6. CASE t # s
    <3>1. F[t] = E[t] /\ M[n + 1].session_id # t
      BY <1>6, <2>6
    <3>2. QED  BY <2>3, <2>4, <3>1
  <2>7. QED  BY <2>5, <2>6
<1>8. ASSUME NEW k \in 1..Len(M) PROVE NumberedRow(M, F, k)
  <2>1. CASE k = n + 1
    <3>1. CountOf(M, s, k) = Len(E[s]) + 1
      BY <1>2, <1>7, <2>1
    <3>2. M[k] = Row(s, F[s][Len(E[s]) + 1])
      BY <1>1, <1>2, <2>1
    <3>3. Len(E[s]) + 1 \in 1..Len(F[s])
      BY <1>2
    <3>4. QED  BY <1>6, <2>1, <3>1, <3>2, <3>3 DEF NumberedRow
  <2>2. CASE k # n + 1
    <3> DEFINE t == L[k].session_id
               c == CountOf(L, t, k)
    <3>1. k \in 1..n
      BY <1>1, <2>2
    <3>2. t \in DOMAIN E /\ c \in 1..Len(E[t]) /\ L[k] = Row(t, E[t][c])
      BY <3>1 DEF Numbered, NumberedRow
    <3>3. M[k] = L[k] /\ CountOf(M, t, k) = c
      BY <1>1, <1>5, <3>1
    <3> HIDE DEF c
    <3>4. c \in 1..Len(F[t]) /\ F[t][c] = E[t][c]
      BY <1>2, <1>3, <1>4, <3>2 DEF Extends
    <3>5. QED  BY <3>2, <3>3, <3>4 DEF NumberedRow
  <2>3. QED  BY <2>1, <2>2
<1>9. QED  BY <1>1, <1>4, <1>7, <1>8 DEF Numbered

\* The positions of session s between two places of a ledger.
Between(L, s, c, k) == {i \in (c + 1)..k : L[i].session_id = s}

LEMMA CountSplit ==
  ASSUME NEW L, NEW s, NEW c \in Nat, NEW k \in Nat, c <= k
  PROVE  CountOf(L, s, k) = CountOf(L, s, c) + Cardinality(Between(L, s, c, k))
<1> DEFINE A == UpTo(L, s, c)
           B == Between(L, s, c, k)
<1>1. UpTo(L, s, k) = A \cup B /\ A \cap B = {}
  BY DEF UpTo, Between
<1>2. IsFiniteSet(A) /\ Cardinality(A) \in Nat
  BY CountIsNumber DEF CountOf
<1>3. B \in SUBSET (1..k)
  BY DEF Between
<1>4. IsFiniteSet(B) /\ Cardinality(B) \in Nat
  BY <1>3, PositionsAreFinite
<1> HIDE DEF A, B
<1>5. Cardinality(A \cup B) = Cardinality(A) + Cardinality(B) - Cardinality(A \cap B)
  BY <1>2, <1>4, FS_Union
<1>6. Cardinality(A \cap B) = 0
  BY <1>1, FS_EmptySet
<1>7. Cardinality(A \cup B) = Cardinality(A) + Cardinality(B)
  BY <1>2, <1>4, <1>5, <1>6
<1>8. QED  BY <1>1, <1>7 DEF CountOf, A, B

\* Of the positions in ascending order, the i-th is the i-th after those before.
LEMMA AscendingNumbers ==
  ASSUME NEW L, NEW s, NEW c \in Nat, NEW k \in Nat, c <= k,
         NEW e, Ascending(e, Between(L, s, c, k))
  PROVE  \A i \in 1..Cardinality(Between(L, s, c, k)) :
           /\ e[i] \in Between(L, s, c, k)
           /\ CountOf(L, s, e[i]) = CountOf(L, s, c) + i
<1> DEFINE B == Between(L, s, c, k)
<1>1. TAKE i \in 1..Cardinality(B)
<1>2. B \in SUBSET (1..k)
  BY DEF Between
<1>3. Cardinality(NoGreater(B, e[i])) = i
  <2> HIDE DEF B
  <2>1. Ascending(e, B)
    BY DEF B
  <2>2. QED  BY <1>2, <2>1, AscendingCounts
<1>4. e[i] \in B
  BY DEF Ascending
<1>5. e[i] \in Nat /\ c <= e[i] /\ e[i] <= k
  BY <1>4 DEF Between
<1>6. NoGreater(B, e[i]) = Between(L, s, c, e[i])
  BY <1>5 DEF Between, NoGreater
<1>7. CountOf(L, s, e[i]) = CountOf(L, s, c) + Cardinality(Between(L, s, c, e[i]))
  <2> HIDE DEF B
  <2>1. QED  BY <1>5, CountSplit
<1>8. CountOf(L, s, e[i]) = CountOf(L, s, c) + i
  BY <1>3, <1>6, <1>7
<1>9. QED  BY <1>4, <1>8

\* A page read without a fault continues the session where the rows before it end.
LEMMA PageContinues ==
  ASSUME NEW L, NEW E, Numbered(L, E), NEW s \in DOMAIN E,
         NEW c \in Nat, NEW k \in Nat, c <= k, k <= Len(L),
         NEW e, Ascending(e, Between(L, s, c, k)),
         NEW page, page = [i \in DOMAIN e |-> L[e[i]]]
  PROVE  /\ page \in Seq(RowType)
         /\ Len(page) = CountOf(L, s, k) - CountOf(L, s, c)
         /\ \A i \in 1..Len(page) : page[i] = Row(s, E[s][CountOf(L, s, c) + i])
<1> DEFINE B == Between(L, s, c, k)
           n == Cardinality(B)
<1>1. B \in SUBSET (1..k)
  BY DEF Between
<1>2. CountOf(L, s, k) = CountOf(L, s, c) + n
  BY CountSplit
<1>3. CountOf(L, s, c) \in Nat
  BY CountIsNumber
<1>4. \A i \in 1..n : e[i] \in B /\ CountOf(L, s, e[i]) = CountOf(L, s, c) + i
  BY AscendingNumbers
<1>5. \A x \in B : x \in 1..Len(L) /\ L[x].session_id = s
  <2>1. Len(L) \in Nat
    BY DEF Numbered
  <2>2. QED  BY <2>1 DEF Between
<1>6. Ascending(e, B)
  OBVIOUS
<1> HIDE DEF B
<1>7. n \in Nat
  BY <1>1, PositionsAreFinite
<1>8. DOMAIN e = 1..n
  BY <1>6 DEF Ascending
<1> HIDE DEF n
<1>10. ASSUME NEW i \in 1..n
       PROVE  /\ L[e[i]] \in RowType
              /\ L[e[i]] = Row(s, E[s][CountOf(L, s, c) + i])
  <2>1. e[i] \in 1..Len(L) /\ L[e[i]].session_id = s
    BY <1>4, <1>5
  <2>2. L[e[i]] = Row(s, E[s][CountOf(L, s, e[i])])
    BY <2>1 DEF Numbered, NumberedRow
  <2>3. L[e[i]] \in RowType
    BY <2>1 DEF Numbered
  <2>4. CountOf(L, s, e[i]) = CountOf(L, s, c) + i
    BY <1>4
  <2>5. QED  BY <2>2, <2>3, <2>4
<1>11. page = [i \in 1..n |-> L[e[i]]]
  BY <1>8
<1>12. page \in Seq(RowType) /\ Len(page) = n
  BY <1>7, <1>10, <1>11
<1>13. \A i \in 1..n : page[i] = Row(s, E[s][CountOf(L, s, c) + i])
  BY <1>10, <1>11
<1>14. QED  BY <1>2, <1>3, <1>7, <1>12, <1>13

\* What the node may answer instead is made of the same rows, one less or one more.
LEMMA FaultyIsRows ==
  ASSUME NEW T, NEW page \in Seq(T), NEW answer \in Faulty(page)
  PROVE  /\ answer \in Seq(T)
         /\ Len(answer) = Len(page) - 1 \/ Len(answer) = Len(page) + 1
<1>1. CASE \E i \in DOMAIN page : answer = RemoveAt(page, i)
  <2>1. PICK i \in 1..Len(page) : answer = RemoveAt(page, i)
    BY <1>1
  <2>2. /\ SubSeq(page, 1, i - 1) \in Seq(T) /\ Len(SubSeq(page, 1, i - 1)) = i - 1
        /\ SubSeq(page, i + 1, Len(page)) \in Seq(T)
        /\ Len(SubSeq(page, i + 1, Len(page))) = Len(page) - i
    BY <2>1
  <2>3. answer = SubSeq(page, 1, i - 1) \o SubSeq(page, i + 1, Len(page))
    BY <2>1 DEF RemoveAt
  <2>4. \A f, g \in Seq(T) : f \o g \in Seq(T) /\ Len(f \o g) = Len(f) + Len(g)
    OBVIOUS
  <2>5. answer \in Seq(T) /\ Len(answer) = (i - 1) + (Len(page) - i)
    BY <2>2, <2>3, <2>4
  <2>6. i \in Nat /\ Len(page) \in Nat
    OBVIOUS
  <2>7. QED  BY <2>5, <2>6
<1>2. CASE \E i \in DOMAIN page : answer = InsertAt(page, i, page[i])
  <2>1. PICK i \in 1..Len(page) : answer = InsertAt(page, i, page[i])
    BY <1>2
  <2>2. /\ SubSeq(page, 1, i - 1) \in Seq(T) /\ Len(SubSeq(page, 1, i - 1)) = i - 1
        /\ SubSeq(page, i, Len(page)) \in Seq(T)
        /\ Len(SubSeq(page, i, Len(page))) = Len(page) - i + 1
        /\ <<page[i]>> \in Seq(T) /\ Len(<<page[i]>>) = 1
    BY <2>1
  <2>3. answer = SubSeq(page, 1, i - 1) \o <<page[i]>> \o SubSeq(page, i, Len(page))
    BY <2>1 DEF InsertAt
  <2>4. \A f, g \in Seq(T) : f \o g \in Seq(T) /\ Len(f \o g) = Len(f) + Len(g)
    OBVIOUS
  <2>5. answer \in Seq(T) /\ Len(answer) = ((i - 1) + 1) + (Len(page) - i + 1)
    <3> DEFINE front == SubSeq(page, 1, i - 1) \o <<page[i]>>
    <3>1. front \in Seq(T) /\ Len(front) = (i - 1) + 1
      BY <2>2, <2>4
    <3>2. answer = front \o SubSeq(page, i, Len(page))
      BY <2>3
    <3> HIDE DEF front
    <3>3. QED  BY <2>2, <2>4, <3>1, <3>2
  <2>6. i \in Nat /\ Len(page) \in Nat
    OBVIOUS
  <2>7. QED  BY <2>5, <2>6
<1>3. QED  BY <1>1, <1>2 DEF Faulty

(***************************************************************************)
(* The inductive invariant of the verifier.                                *)
(***************************************************************************)
\* A session object that was read describes a beginning of the session, the one
\* the ledger held at length b.
ObjectIsPrefix(object, L, E, b) ==
  /\ object.id \in DOMAIN E
  /\ object.callCount <= Len(E[object.id])
  /\ Len(object.merkleRoot) = object.callCount
  /\ \A i \in 1..object.callCount : object.merkleRoot[i] = E[object.id][i].content_hash
  /\ CountOf(L, object.id, b) = object.callCount

\* The rows are the first c positions' events of the session, all of them.
RowsArePrefix(read, id, L, E, c) ==
  /\ Len(read) = CountOf(L, id, c)
  /\ \A j \in 1..Len(read) : read[j] = Row(id, E[id][j])

LedgerOK == Numbered(ledger, emitted)
ReadOK ==
  /\ rows \in Seq(RowType)
  /\ phase \in {"idle", "opened"} => rows = <<>> /\ cursor = 0
  /\ phase \in {"reading", "done"} =>
       /\ reader # NONE /\ session.id = reader.id
       /\ ObjectIsPrefix(session, ledger, emitted, begun)
       /\ faults = 0 => RowsArePrefix(rows, session.id, ledger, emitted, cursor)
  /\ phase = "done" => cursor = horizon
ListType == [state : {"none", "start", "walking", "done"}, newest : Nat, next : Nat,
             rows : Seq(Nat), faults : Nat]
\* The list holds the positions it has walked over, unless the node erred; after one
\* fault it has one too few or one too many.
ListedOK(listed, walked, walk) ==
  /\ listed.faults = 0 => Listing(listed.rows, walked, walk)
  /\ listed.faults = 1 => \/ Len(listed.rows) = Cardinality(walked) - 1
                          \/ Len(listed.rows) = Cardinality(walked) + 1
ListOK ==
  /\ list \in ListType
  /\ list.rows \in Seq(1..Len(ledger))
  /\ list.state # "walking" => list.next = 0
  /\ list.state \in {"none", "start"} => list.newest = 0
  /\ reader = NONE => list.rows = <<>> /\ list.faults = 0
  /\ reader # NONE => reader.id \in DOMAIN emitted /\ ListedOK(list, ListedPositions, reader.walk)
  /\ reader # NONE /\ reader.walk = "ascending" => list.next = 0

VerifierInv == TraceInv /\ LedgerOK /\ VerifierTypeOK /\ ReadOK /\ ListOK

\* What was read of a session stays true of it as it grows.
LEMMA PrefixStays ==
  ASSUME NEW L, NEW E, Numbered(L, E), \A t \in DOMAIN E : E[t] \in Seq(EmittedEvent),
         NEW M, NEW F, Extends(F, E), \A i \in 1..Len(L) : M[i] = L[i]
  PROVE  /\ \A object, b : b \in 0..Len(L) /\ object.callCount \in Nat
                           /\ ObjectIsPrefix(object, L, E, b)
              => ObjectIsPrefix(object, M, F, b)
         /\ \A read, id, c : c \in 0..Len(L) /\ id \in DOMAIN E /\ RowsArePrefix(read, id, L, E, c)
              => RowsArePrefix(read, id, M, F, c)
<1>1. Len(L) \in Nat /\ \A t \in DOMAIN E : Len(E[t]) \in Nat
  BY DEF Numbered
<1>2. ASSUME NEW t, NEW k \in 0..Len(L)
      PROVE  CountOf(M, t, k) = CountOf(L, t, k)
  <2>1. k \in Nat /\ \A i \in 1..k : M[i] = L[i]
    BY <1>1
  <2>2. QED  BY <2>1, CountStays
<1>3. ASSUME NEW object, NEW b \in 0..Len(L), object.callCount \in Nat,
             ObjectIsPrefix(object, L, E, b)
      PROVE  ObjectIsPrefix(object, M, F, b)
  <2>1. /\ object.id \in DOMAIN F
        /\ object.callCount <= Len(E[object.id]) /\ Len(E[object.id]) \in Nat
        /\ Len(E[object.id]) <= Len(F[object.id])
        /\ \A i \in 1..Len(E[object.id]) : F[object.id][i] = E[object.id][i]
    BY <1>1, <1>3 DEF ObjectIsPrefix, Extends
  <2>2. Len(object.merkleRoot) = object.callCount
    BY <1>3 DEF ObjectIsPrefix
  <2>3. CountOf(M, object.id, b) = object.callCount
    BY <1>2, <1>3 DEF ObjectIsPrefix
  <2>4. object.callCount <= Len(F[object.id])
    <3>1. ASSUME NEW m, Len(F[object.id]) = m PROVE object.callCount <= m
      BY <2>1, <1>3, <3>1
    <3>2. QED  BY <3>1
  <2>5. \A i \in 1..object.callCount : object.merkleRoot[i] = F[object.id][i].content_hash
    BY <1>3, <2>1 DEF ObjectIsPrefix
  <2>6. QED  BY <2>1, <2>2, <2>3, <2>4, <2>5 DEF ObjectIsPrefix
<1>4. ASSUME NEW read, NEW id \in DOMAIN E, NEW c \in 0..Len(L), RowsArePrefix(read, id, L, E, c)
      PROVE  RowsArePrefix(read, id, M, F, c)
  <2>1. Len(read) = CountOf(L, id, c)
    BY <1>4 DEF RowsArePrefix
  <2>2. CountOf(L, id, c) <= CountOf(L, id, Len(L))
    BY <1>1, CountGrows
  <2>3. CountOf(L, id, Len(L)) = Len(E[id]) /\ CountOf(L, id, c) \in Nat
    BY CountIsNumber DEF Numbered
  <2>4. \A j \in 1..Len(read) : j \in 1..Len(E[id])
    BY <1>1, <2>1, <2>2, <2>3
  <2>5. \A j \in 1..Len(read) : F[id][j] = E[id][j]
    BY <2>4 DEF Extends
  <2>6. \A j \in 1..Len(read) : read[j] = Row(id, F[id][j])
    BY <1>4, <2>5 DEF RowsArePrefix
  <2>7. QED  BY <1>2, <2>1, <2>6 DEF RowsArePrefix
<1>5. QED  BY <1>3, <1>4

\* A transaction extends the ledger by at most one row, the next of its session.
LEMMA ContractEffect ==
  ASSUME TraceInv, LedgerOK, ContractStep
  PROVE  /\ LedgerOK' /\ Extends(emitted', emitted)
         /\ Len(ledger) <= Len(ledger')
         /\ \A i \in 1..Len(ledger) : ledger'[i] = ledger[i]
<1> DEFINE grown == {s \in DOMAIN emitted : Len(emitted'[s]) > Len(emitted[s])}
<1>1. /\ Next
      /\ IF grown = {} THEN ledger' = ledger
         ELSE \E s \in grown : ledger' = Append(ledger, Row(s, Last(emitted'[s])))
  BY DEF ContractStep
<1>2. /\ TraceTypeOK
      /\ DOMAIN emitted = DOMAIN sessions
      /\ \A t \in DOMAIN emitted : emitted[t] \in Seq(EmittedEvent) /\ Len(emitted[t]) \in Nat
  BY DEF TraceInv, TraceTypeOK
<1>3. ledger \in Seq(RowType) /\ Len(ledger) \in Nat
  BY DEF LedgerOK, Numbered
<1>4. ASSUME emitted' = emitted
      PROVE  /\ LedgerOK' /\ Extends(emitted', emitted) /\ ledger' = ledger
  <2>1. grown = {}
    BY <1>2, <1>4
  <2>2. ledger' = ledger
    BY <1>1, <2>1
  <2>3. LedgerOK'
    BY <1>4, <2>2 DEF LedgerOK
  <2>4. Extends(emitted', emitted)
    BY <1>2, <1>4 DEF Extends
  <2>5. QED  BY <2>2, <2>3, <2>4
<1>5. ASSUME NEW n \in NamespaceId, NEW c \in CapId, NEW s \in SessionId, OpenSession(n, c, s)
      PROVE  LedgerOK' /\ Extends(emitted', emitted) /\ ledger' = ledger
  <2>1. /\ s \notin DOMAIN emitted /\ DOMAIN emitted' = DOMAIN emitted \cup {s}
        /\ emitted'[s] = <<>>
        /\ \A t \in DOMAIN emitted : emitted'[t] = emitted[t]
    <3>1. DOMAIN emitted' = DOMAIN sessions'
      BY <1>2, <1>5, OpenEffect
    <3>2. QED  BY <1>2, <1>5, <3>1, OpenEffect
  <2>2. grown = {}
    BY <1>2, <2>1
  <2>3. ledger' = ledger
    BY <1>1, <2>2
  <2>4. Extends(emitted', emitted)
    BY <1>2, <2>1 DEF Extends
  <2>5. CountOf(ledger, s, Len(ledger)) = 0
    <3>1. \A k \in 1..Len(ledger) : ledger[k].session_id # s
      BY <2>1 DEF LedgerOK, Numbered, NumberedRow
    <3>2. UpTo(ledger, s, Len(ledger)) = {}
      BY <3>1 DEF UpTo
    <3>3. QED  BY <3>2, FS_EmptySet DEF CountOf
  <2>6. ASSUME NEW k \in 1..Len(ledger) PROVE NumberedRow(ledger, emitted', k)
    <3> DEFINE t == ledger[k].session_id
               m == CountOf(ledger, t, k)
    <3>1. t \in DOMAIN emitted /\ m \in 1..Len(emitted[t]) /\ ledger[k] = Row(t, emitted[t][m])
      BY DEF LedgerOK, Numbered, NumberedRow
    <3> HIDE DEF m
    <3>2. t \in DOMAIN emitted' /\ emitted'[t] = emitted[t]
      BY <2>1, <3>1
    <3>3. QED  BY <3>1, <3>2 DEF NumberedRow, m
  <2>7. \A t \in DOMAIN emitted' : CountOf(ledger, t, Len(ledger)) = Len(emitted'[t])
    <3>1. \A t \in DOMAIN emitted : CountOf(ledger, t, Len(ledger)) = Len(emitted'[t])
      BY <2>1 DEF LedgerOK, Numbered
    <3>2. CountOf(ledger, s, Len(ledger)) = Len(emitted'[s])
      BY <2>1, <2>5
    <3>3. QED  BY <2>1, <3>1, <3>2
  <2>8. Numbered(ledger, emitted')
    BY <1>3, <2>6, <2>7 DEF Numbered
  <2>9. QED  BY <2>3, <2>4, <2>8 DEF LedgerOK
<1>6. ASSUME NEW s \in SessionId, NEW n \in NamespaceId, NEW c \in CapId,
             NEW parent \in CallId \cup {NONE}, NEW payload \in Payload, NEW k \in CallId,
             EmitCall(s, n, c, parent, payload, k)
      PROVE  /\ LedgerOK' /\ Extends(emitted', emitted)
             /\ \E row \in RowType : ledger' = Append(ledger, row)
  <2> DEFINE event == [call_id |-> k, content_hash |-> ComputeContentHash(payload, parent),
                       prev_hash |-> sessions[s].last_content_hash,
                       new_session_merkle_root |->
                         Append(sessions[s].merkle_root, ComputeContentHash(payload, parent))]
  <2>1. /\ s \in DOMAIN emitted /\ event \in EmittedEvent
        /\ emitted'[s] = Append(emitted[s], event)
        /\ DOMAIN emitted' = DOMAIN emitted
        /\ \A t \in DOMAIN emitted : t # s => emitted'[t] = emitted[t]
    <3>1. emitted' \in [DOMAIN sessions -> Seq(EmittedEvent)]
      BY <1>2, <1>6, EmitEffect
    <3>2. s \in DOMAIN sessions /\ event \in EmittedEvent
      BY <1>2, <1>6, EmitEffect
    <3>3. emitted' = [emitted EXCEPT ![s] = Append(@, event)]
      BY <1>6 DEF EmitCall, ChainHash, PrevHash
    <3> HIDE DEF event
    <3>4. QED  BY <1>2, <3>1, <3>2, <3>3
  <2> HIDE DEF event
  <2>2. Len(emitted'[s]) = Len(emitted[s]) + 1 /\ Last(emitted'[s]) = event
    BY <1>2, <2>1 DEF Last
  <2>3. grown = {s}
    BY <1>2, <2>1, <2>2
  <2>4. ledger' = Append(ledger, Row(s, event))
    BY <1>1, <2>2, <2>3
  <2>5. Row(s, event) \in RowType
    BY <2>1 DEF Row, RowType, EmittedEvent
  <2>6. Numbered(ledger', emitted') /\ Extends(emitted', emitted)
    <3>1. Numbered(ledger, emitted) /\ \A t \in DOMAIN emitted : emitted[t] \in Seq(EmittedEvent)
      BY <1>2 DEF LedgerOK
    <3>2. ASSUME NEW F, DOMAIN F = DOMAIN emitted, F[s] = Append(emitted[s], event),
                 \A t \in DOMAIN emitted : t # s => F[t] = emitted[t],
                 NEW M, M = Append(ledger, Row(s, event))
          PROVE  Numbered(M, F) /\ Extends(F, emitted)
      BY <2>1, <2>5, <3>1, <3>2, NumberedAppend
    <3>3. QED  BY <2>1, <2>4, <3>2
  <2>7. QED  BY <2>4, <2>5, <2>6 DEF LedgerOK
<1>7. CASE emitted' = emitted
  BY <1>3, <1>4, <1>7
<1>8. CASE emitted' # emitted
  <2>1. UNCHANGED traceVars => emitted' = emitted
    BY DEF traceVars
  <2>2. TraceNext
    BY <1>1, <1>8, <2>1 DEF Next
  <2>3. \/ \E n \in NamespaceId, c \in CapId, s \in SessionId : OpenSession(n, c, s)
        \/ \E s \in SessionId, n \in NamespaceId, c \in CapId, parent \in CallId \cup {NONE},
              payload \in Payload, k \in CallId : EmitCall(s, n, c, parent, payload, k)
    BY <1>8, <2>2 DEF TraceNext, CloseCallWithNamespace, CloseSessionWithNamespace
  <2>4. \/ LedgerOK' /\ Extends(emitted', emitted) /\ ledger' = ledger
        \/ /\ LedgerOK' /\ Extends(emitted', emitted)
           /\ \E row \in RowType : ledger' = Append(ledger, row)
    BY <1>5, <1>6, <2>3
  <2>5. QED  BY <1>3, <2>4
<1>9. QED  BY <1>7, <1>8

\* The types of rows and ledger, as VerifierTypeOK says them.
LEMMA RowTypes ==
  ASSUME NEW L \in Seq(RowType), NEW read \in Seq(RowType)
  PROVE  Range(L) \cup Range(read) \subseteq
           [session_id : SessionId, content_hash : ContentHash,
            prev_hash : ContentHash \cup {ZERO_HASH}]
<1>1. \A i \in DOMAIN L : L[i] \in RowType
  OBVIOUS
<1>2. \A i \in DOMAIN read : read[i] \in RowType
  OBVIOUS
<1>3. Range(L) \cup Range(read) \subseteq RowType
  BY <1>1, <1>2 DEF Range
<1>4. QED  BY <1>3 DEF RowType

LEMMA VerifierInitInv == VerifierInit => VerifierInv
<1> SUFFICES ASSUME VerifierInit PROVE VerifierInv
  OBVIOUS
<1>1. /\ ledger = <<>> /\ reader = NONE /\ phase = "idle" /\ session = NONE
      /\ cursor = 0 /\ horizon = 0 /\ rows = <<>> /\ begun = 0 /\ faults = 0
      /\ list = [state |-> "none", newest |-> 0, next |-> 0, rows |-> <<>>, faults |-> 0]
      /\ emitted = Empty
  BY DEF VerifierInit, Init
<1>2. TraceInv
  BY TraceInitInv DEF VerifierInit
<1>3. LedgerOK
  BY <1>1 DEF LedgerOK, Numbered, Empty
<1>4. ReadOK /\ ListOK
  <2>1. list \in ListType
    BY <1>1 DEF ListType
  <2>2. ListOK
    BY <1>1, <2>1 DEF ListOK
  <2>3. ReadOK
    BY <1>1 DEF ReadOK
  <2>4. QED  BY <2>2, <2>3
<1>5. VerifierTypeOK
  <2>1. Len(ledger) = 0 /\ Range(ledger) = {} /\ Range(rows) = {} /\ Range(list.rows) = {}
    BY <1>1 DEF Range
  <2>2. {faults, list.faults} \subseteq Nat /\ faults + list.faults <= MaxFaults
    BY <1>1, PagesAreNumbers
  <2>3. QED  BY <1>1, <2>1, <2>2 DEF VerifierTypeOK
<1>6. QED  BY <1>2, <1>3, <1>4, <1>5 DEF VerifierInv

LEMMA ContractStepInv ==
  ASSUME VerifierInv, ContractStep
  PROVE  VerifierInv'
<1>1. TraceInv /\ LedgerOK /\ VerifierTypeOK /\ ReadOK /\ ListOK
  BY DEF VerifierInv
<1>2. UNCHANGED <<reader, phase, session, cursor, horizon, rows, begun, faults, list>>
  BY DEF ContractStep, readerVars, verdictVars
<1>3. TraceInv'
  BY <1>1, TraceInvStep DEF ContractStep
<1>4. /\ LedgerOK' /\ Extends(emitted', emitted)
      /\ Len(ledger) <= Len(ledger')
      /\ \A i \in 1..Len(ledger) : ledger'[i] = ledger[i]
  BY <1>1, ContractEffect
<1>5. /\ Numbered(ledger, emitted)
      /\ \A t \in DOMAIN emitted : emitted[t] \in Seq(EmittedEvent)
      /\ Len(ledger) \in Nat /\ Len(ledger') \in Nat /\ ledger' \in Seq(RowType)
  BY <1>1, <1>4 DEF LedgerOK, Numbered, TraceInv, TraceTypeOK
<1>6. /\ \A object, b : b \in 0..Len(ledger) /\ object.callCount \in Nat
                        /\ ObjectIsPrefix(object, ledger, emitted, b)
           => ObjectIsPrefix(object, ledger', emitted', b)
      /\ \A read, id, c : c \in 0..Len(ledger) /\ id \in DOMAIN emitted
                          /\ RowsArePrefix(read, id, ledger, emitted, c)
           => RowsArePrefix(read, id, ledger', emitted', c)
  BY <1>4, <1>5, PrefixStays
<1>7. /\ begun \in 0..Len(ledger) /\ cursor \in 0..Len(ledger)
      /\ phase \in {"idle", "opened", "reading", "done"}
      /\ phase \in {"reading", "done"} => session \in SessionObject /\ session.callCount \in Nat
  BY <1>1, <1>5 DEF VerifierTypeOK, SessionObject
<1>8. ReadOK'
  <2>1. ASSUME phase \in {"reading", "done"}
        PROVE  /\ reader # NONE /\ session.id = reader.id
               /\ ObjectIsPrefix(session, ledger', emitted', begun)
               /\ faults = 0 => RowsArePrefix(rows, session.id, ledger', emitted', cursor)
    <3>1. /\ reader # NONE /\ session.id = reader.id
          /\ ObjectIsPrefix(session, ledger, emitted, begun)
          /\ faults = 0 => RowsArePrefix(rows, session.id, ledger, emitted, cursor)
      BY <1>1, <2>1 DEF ReadOK
    <3>2. session.id \in DOMAIN emitted
      BY <3>1 DEF ObjectIsPrefix
    <3>3. ObjectIsPrefix(session, ledger', emitted', begun)
      BY <1>6, <1>7, <2>1, <3>1
    <3>4. faults = 0 => RowsArePrefix(rows, session.id, ledger', emitted', cursor)
      BY <1>6, <1>7, <3>1, <3>2
    <3>5. QED  BY <3>1, <3>3, <3>4
  <2>2. QED  BY <1>1, <1>2, <2>1 DEF ReadOK
<1>9. ListOK'
  <2>1. reader # NONE => reader.id \in DOMAIN emitted'
    BY <1>1, <1>4 DEF ListOK, Extends
  <2>2. list.rows \in Seq(1..Len(ledger'))
    <3> DEFINE T == 1..Len(ledger)
               U == 1..Len(ledger')
    <3>1. list.rows \in Seq(T)
      BY <1>1 DEF ListOK
    <3>2. T \subseteq U
      BY <1>4, <1>5
    <3> HIDE DEF T, U
    <3>3. list.rows \in Seq(U)
      BY <3>1, <3>2
    <3>4. QED  BY <3>3 DEF U
  <2>3. reader # NONE => ListedPositions' = ListedPositions
    <3>1. list.newest \in 0..Len(ledger) /\ list.next \in Nat
      BY <1>1 DEF VerifierTypeOK, ListOK, ListType
    <3>2. \A i \in (list.next + 1)..list.newest : ledger'[i] = ledger[i]
      BY <1>4, <1>5, <3>1
    <3>3. QED  BY <1>2, <3>2 DEF ListedPositions, OfSession
  <2>4. UNCHANGED <<list, reader>>
    BY <1>2
  <2>5. reader # NONE => ListedOK(list', ListedPositions', reader'.walk)
    BY <1>1, <2>3, <2>4 DEF ListOK
  <2>6. QED  BY <1>1, <2>1, <2>2, <2>4, <2>5 DEF ListOK
<1>10. VerifierTypeOK'
  <2>1. /\ begun \in 0..Len(ledger') /\ horizon \in 0..Len(ledger')
        /\ list.newest \in 0..Len(ledger')
        /\ Range(list.rows) \subseteq 1..Len(ledger')
    BY <1>1, <1>4, <1>5 DEF VerifierTypeOK
  <2>2. Range(ledger') \cup Range(rows) \subseteq
           [session_id : SessionId, content_hash : ContentHash,
            prev_hash : ContentHash \cup {ZERO_HASH}]
    BY <1>1, <1>5, RowTypes DEF ReadOK
  <2>3. QED  BY <1>1, <1>2, <2>1, <2>2 DEF VerifierTypeOK
<1>11. QED  BY <1>3, <1>4, <1>8, <1>9, <1>10 DEF VerifierInv

\* A step of a reader leaves the contract and the ledger alone.
LEMMA ContractStays ==
  ASSUME TraceInv, LedgerOK, UNCHANGED <<vars, ledger>>
  PROVE  TraceInv' /\ LedgerOK' /\ emitted' = emitted /\ sessions' = sessions
<1>1. UNCHANGED vars /\ ledger' = ledger
  OBVIOUS
<1>2. emitted' = emitted /\ sessions' = sessions
  BY <1>1 DEF vars
<1>3. TraceInv'
  BY <1>1, TraceInvStep
<1>4. QED  BY <1>1, <1>2, <1>3 DEF LedgerOK

\* So does it the list, unless it is a page of it.
LEMMA ListStays ==
  ASSUME ListOK, UNCHANGED <<ledger, reader, list>>, emitted' = emitted
  PROVE  ListOK'
<1>1. ledger' = ledger /\ reader' = reader /\ list' = list
  OBVIOUS
<1>2. ListedPositions' = ListedPositions
  BY <1>1 DEF ListedPositions, OfSession
<1>3. QED  BY <1>1, <1>2 DEF ListOK, ListedOK

LEMMA OpenInv ==
  ASSUME VerifierInv, NEW s \in SessionId, NEW walk \in {"none", "ascending", "descending"},
         NEW first \in {"idle", "opened"}, Open(s, walk, first)
  PROVE  VerifierInv'
<1>1. TraceInv /\ LedgerOK /\ VerifierTypeOK /\ ReadOK /\ ListOK
  BY DEF VerifierInv
<1>2. /\ reader = NONE /\ s \in DOMAIN sessions
      /\ reader' = [id |-> s, walk |-> walk]
      /\ phase' = first
      /\ list' = [list EXCEPT !.state = IF walk = "none" THEN "none" ELSE "start"]
      /\ UNCHANGED <<vars, ledger, session, cursor, horizon, rows, begun, faults>>
  BY DEF Open
<1>3. TraceInv' /\ LedgerOK' /\ emitted' = emitted
  BY <1>1, <1>2, ContractStays
<1>4. s \in DOMAIN emitted
  BY <1>1, <1>2 DEF TraceInv, TraceTypeOK
<1>5. reader' \in Request /\ reader' # NONE /\ reader'.id = s /\ reader'.walk = walk
  BY <1>2, NoneIsNoAnswer DEF Request
<1>6. /\ list.state = "none" /\ list.next = 0 /\ list.newest = 0
      /\ list.rows = <<>> /\ list.faults = 0
      /\ list \in ListType
      /\ phase = "idle"
  BY <1>1, <1>2 DEF VerifierTypeOK, ListOK
<1>7. /\ list'.state \in {"none", "start"} /\ list'.next = 0 /\ list'.newest = 0
      /\ list'.rows = <<>> /\ list'.faults = 0
      /\ list' \in ListType
  BY <1>2, <1>6 DEF ListType
<1>8. ListOK'
  <2>1. ListedPositions' = {}
    BY <1>7 DEF ListedPositions, OfSession
  <2>2. Listing(<<>>, {}, walk)
    BY FS_EmptySet DEF Listing
  <2>3. ListedOK(list', ListedPositions', reader'.walk)
    BY <1>5, <1>7, <2>1, <2>2 DEF ListedOK
  <2>4. list'.rows \in Seq(1..Len(ledger'))
    BY <1>7
  <2>5. QED  BY <1>3, <1>4, <1>5, <1>7, <2>3, <2>4 DEF ListOK
<1>9. ReadOK'
  BY <1>1, <1>2, <1>6 DEF ReadOK
<1>10. VerifierTypeOK'
  <2>1. session' = NONE /\ phase' \in {"idle", "opened"}
    BY <1>1, <1>2, <1>6 DEF VerifierTypeOK
  <2>2. /\ list'.newest = list.newest /\ list'.next = list.next
        /\ list'.rows = list.rows /\ list'.faults = list.faults
    BY <1>6, <1>7
  <2>3. QED  BY <1>1, <1>2, <1>5, <2>1, <2>2 DEF VerifierTypeOK
<1>11. QED  BY <1>3, <1>8, <1>9, <1>10 DEF VerifierInv

LEMMA FetchTraceSessionInv ==
  ASSUME VerifierInv, FetchTraceSession
  PROVE  VerifierInv'
<1>1. TraceInv /\ LedgerOK /\ VerifierTypeOK /\ ReadOK /\ ListOK
  BY DEF VerifierInv
<1> DEFINE id == reader.id
           object == [id |-> id, merkleRoot |-> sessions[id].merkle_root,
                      callCount |-> sessions[id].call_count]
<1>2. /\ phase = "opened"
      /\ session' = object
      /\ phase' = "reading"
      /\ begun' = Len(ledger)
      /\ UNCHANGED <<vars, ledger, reader, cursor, horizon, rows, faults, list>>
  BY DEF FetchTraceSession
<1>3. TraceInv' /\ LedgerOK' /\ emitted' = emitted
  BY <1>1, <1>2, ContractStays
<1>4. /\ reader # NONE /\ reader \in Request /\ id \in DOMAIN emitted /\ id \in SessionId
      /\ DOMAIN emitted = DOMAIN sessions
  BY <1>1, <1>2 DEF VerifierTypeOK, ListOK, Request, TraceInv, TraceTypeOK
<1>5. /\ sessions[id] \in Session
      /\ emitted[id] \in Seq(EmittedEvent)
      /\ TailOf(sessions[id], emitted[id])
      /\ Committed(emitted[id])
  BY <1>1, <1>4 DEF TraceInv, TraceTypeOK, ChainIntact, RootIsHistory
<1>6. object \in SessionObject
  BY <1>4, <1>5 DEF Session, SessionObject
<1>7. ObjectIsPrefix(object, ledger, emitted, Len(ledger))
  <2> DEFINE n == Len(emitted[id])
  <2>1. n \in Nat /\ sessions[id].call_count = n
    BY <1>5 DEF TailOf
  <2>2. CountOf(ledger, id, Len(ledger)) = n
    BY <1>1, <1>4 DEF LedgerOK, Numbered
  <2>3. /\ Len(sessions[id].merkle_root) = n
        /\ \A i \in 1..n : sessions[id].merkle_root[i] = emitted[id][i].content_hash
    <3>1. CASE n = 0
      <4>1. sessions[id].merkle_root = <<>>
        BY <1>5, <3>1 DEF TailOf, RootBefore, ZERO_HASH
      <4>2. QED  BY <3>1, <4>1
    <3>2. CASE n # 0
      <4>1. sessions[id].merkle_root = emitted[id][n].new_session_merkle_root
        BY <1>5, <2>1, <3>2 DEF TailOf, RootBefore
      <4>2. QED  BY <1>5, <2>1, <3>2, <4>1 DEF Committed
    <3>3. QED  BY <3>1, <3>2
  <2> HIDE DEF n
  <2>4. /\ object.id = id /\ object.callCount = n
        /\ object.merkleRoot = sessions[id].merkle_root
    BY <2>1
  <2> HIDE DEF object, id
  <2>5. n <= Len(emitted[id])
    BY <2>1 DEF n
  <2>6. QED  BY <1>4, <2>2, <2>3, <2>4, <2>5 DEF ObjectIsPrefix
<1> HIDE DEF object
<1>8. ReadOK'
  <2>1. rows = <<>> /\ cursor = 0 /\ rows \in Seq(RowType)
    BY <1>1, <1>2 DEF ReadOK
  <2>2. RowsArePrefix(<<>>, id, ledger, emitted, 0)
    BY CountOfNothing DEF RowsArePrefix
  <2>3. object.id = id
    BY DEF object
  <2>4. /\ reader' # NONE /\ session'.id = reader'.id
        /\ ObjectIsPrefix(session', ledger', emitted', begun')
    BY <1>2, <1>3, <1>4, <1>7, <2>3
  <2>5. RowsArePrefix(rows', session'.id, ledger', emitted', cursor')
    BY <1>2, <1>3, <2>1, <2>2, <2>3
  <2>6. rows' \in Seq(RowType)
    BY <1>2, <2>1
  <2>7. QED  BY <1>2, <2>4, <2>5, <2>6 DEF ReadOK
<1>9. ListOK'
  BY <1>1, <1>2, <1>3, ListStays
<1>10. VerifierTypeOK'
  <2>1. Len(ledger) \in Nat
    BY <1>1 DEF LedgerOK, Numbered
  <2>2. QED  BY <1>1, <1>2, <1>4, <1>6, <2>1 DEF VerifierTypeOK
<1>11. QED  BY <1>3, <1>8, <1>9, <1>10 DEF VerifierInv

\* A page of the walk over the events, with or without a fault.
LEMMA FetchPageInv ==
  ASSUME VerifierInv, NEW h \in cursor..Len(ledger), FetchPage(h)
  PROVE  VerifierInv'
<1>1. TraceInv /\ LedgerOK /\ VerifierTypeOK /\ ReadOK /\ ListOK
  BY DEF VerifierInv
<1> DEFINE end == PageEnd(h)
           page == Page(h)
           id == session.id
<1>2. /\ phase = "reading"
      /\ \/ rows' = rows \o page /\ faults' = faults
         \/ /\ MayErr
            /\ faults' = faults + 1
            /\ \E answer \in Faulty(page) : rows' = rows \o answer
      /\ cursor' = end
      /\ horizon' = h
      /\ phase' \in {"reading", "done"}
      /\ phase' = "done" => h <= end
      /\ UNCHANGED <<vars, ledger, reader, session, begun, list>>
  <2>1. h \in Nat /\ PageEnd(h) \in Nat
    BY <1>1, PagesAreNumbers DEF VerifierTypeOK, PageEnd
  <2>2. phase' = IF HasNextPage(h) THEN "reading" ELSE "done"
    BY DEF FetchPage
  <2>3. phase' = "done" => h <= PageEnd(h)
    BY <2>1, <2>2 DEF HasNextPage
  <2>4. phase' \in {"reading", "done"}
    BY <2>2
  <2>5. QED  BY <2>3, <2>4 DEF FetchPage
<1>3. TraceInv' /\ LedgerOK' /\ emitted' = emitted
  BY <1>1, <1>2, ContractStays
<1>4. /\ Len(ledger) \in Nat /\ cursor \in Nat /\ h \in Nat /\ end \in Nat
      /\ cursor <= end /\ end <= h /\ h <= Len(ledger)
  <2>1. Len(ledger) \in Nat /\ cursor \in Nat /\ PageSize \in Nat
    BY <1>1, PagesAreNumbers DEF LedgerOK, Numbered, VerifierTypeOK
  <2>2. QED  BY <2>1 DEF PageEnd
<1>5. /\ session \in SessionObject
      /\ ObjectIsPrefix(session, ledger, emitted, begun)
      /\ faults = 0 => RowsArePrefix(rows, id, ledger, emitted, cursor)
      /\ rows \in Seq(RowType)
      /\ reader # NONE /\ id = reader.id
      /\ faults \in Nat /\ list.faults \in Nat /\ faults + list.faults <= MaxFaults
  BY <1>1, <1>2 DEF ReadOK, VerifierTypeOK
<1>6. id \in DOMAIN emitted
  BY <1>5 DEF ObjectIsPrefix
<1>7. /\ page \in Seq(RowType)
      /\ Len(page) = CountOf(ledger, id, end) - CountOf(ledger, id, cursor)
      /\ \A i \in 1..Len(page) : page[i] = Row(id, emitted[id][CountOf(ledger, id, cursor) + i])
  <2>1. Numbered(ledger, emitted)
    BY <1>1 DEF LedgerOK
  <2> DEFINE P == OfSession(session.id, cursor + 1, PageEnd(h))
  <2>2. P = Between(ledger, id, cursor, end)
    BY DEF OfSession, Between
  <2>3. P \in SUBSET (1..end)
    BY <1>4, <2>2 DEF Between
  <2>4. page = At(InOrder(P, <))
    BY DEF Page
  <2> HIDE DEF P
  <2>5. Ascending(InOrder(P, <), P)
    <3> HIDE DEF page, end, id
    <3>1. QED  BY <1>4, <2>3, InOrderAscends
  <2>6. PICK e : Ascending(e, P) /\ page = At(e)
    BY <2>4, <2>5
  <2>7. page = [i \in DOMAIN e |-> ledger[e[i]]]
    BY <2>6 DEF At
  <2> HIDE DEF page, end, id
  <2>8. Ascending(e, Between(ledger, id, cursor, end))
    BY <2>2, <2>6
  <2>9. /\ cursor \in Nat /\ end \in Nat
        /\ cursor <= end /\ end <= Len(ledger)
    BY <1>4
  <2>10. \A c, k \in Nat : c <= k /\ k <= Len(ledger)
                           /\ Ascending(e, Between(ledger, id, c, k)) =>
           /\ page \in Seq(RowType)
           /\ Len(page) = CountOf(ledger, id, k) - CountOf(ledger, id, c)
           /\ \A i \in 1..Len(page) :
                page[i] = Row(id, emitted[id][CountOf(ledger, id, c) + i])
    BY <1>6, <2>1, <2>7, PageContinues
  <2>11. QED  BY <2>8, <2>9, <2>10
<1> HIDE DEF page, end, id
<1>8. ASSUME rows' = rows \o page, faults' = faults
      PROVE  /\ rows' \in Seq(RowType)
             /\ faults' = 0 => RowsArePrefix(rows', id, ledger, emitted, end)
  <2>1. rows' \in Seq(RowType)
    BY <1>5, <1>7, <1>8
  <2>2. ASSUME faults = 0 PROVE RowsArePrefix(rows', id, ledger, emitted, end)
    <3> DEFINE c == CountOf(ledger, id, cursor)
               d == CountOf(ledger, id, end)
    <3>1. c \in Nat /\ d \in Nat
      BY <1>4, CountIsNumber
    <3>2. Len(rows) = c /\ \A j \in 1..Len(rows) : rows[j] = Row(id, emitted[id][j])
      BY <1>5, <2>2 DEF RowsArePrefix
    <3>3. Len(page) = d - c /\ \A i \in 1..Len(page) : page[i] = Row(id, emitted[id][c + i])
      BY <1>7
    <3> HIDE DEF c, d
    <3>4. Len(rows') = d
      <4>1. rows \in Seq(RowType) /\ page \in Seq(RowType) /\ rows' = rows \o page
        BY <1>5, <1>7, <1>8
      <4>2. Len(rows') = Len(rows) + Len(page)
        BY <4>1
      <4>3. QED  BY <3>1, <3>2, <3>3, <4>2
    <3>5. ASSUME NEW j \in 1..d PROVE rows'[j] = Row(id, emitted[id][j])
      <4>1. CASE j <= c
        <5>1. rows'[j] = rows[j]
          BY <1>5, <1>7, <1>8, <3>1, <3>2, <4>1
        <5>2. QED  BY <3>1, <3>2, <4>1, <5>1
      <4>2. CASE j > c
        <5>1. j - c \in 1..Len(page) /\ c + (j - c) = j
          BY <3>1, <3>3, <4>2
        <5>2. rows'[j] = page[j - c]
          BY <1>5, <1>7, <1>8, <3>1, <3>2, <3>3, <4>2
        <5>3. QED  BY <3>3, <5>1, <5>2
      <4>3. QED  BY <3>1, <4>1, <4>2
    <3>6. QED  BY <3>4, <3>5 DEF RowsArePrefix, d
  <2>3. faults' = faults
    BY <1>8
  <2>4. QED  BY <2>1, <2>2, <2>3
<1>9. ASSUME faults' = faults + 1, \E answer \in Faulty(page) : rows' = rows \o answer
      PROVE  rows' \in Seq(RowType) /\ faults' # 0
  <2>1. PICK answer \in Faulty(page) : rows' = rows \o answer
    BY <1>9
  <2>2. answer \in Seq(RowType)
    BY <1>7, <2>1, FaultyIsRows
  <2>3. rows' \in Seq(RowType) /\ faults' # 0
    BY <1>5, <1>9, <2>1, <2>2
  <2>4. QED  BY <2>3
<1>10. ReadOK'
  <2>1. /\ rows' \in Seq(RowType)
        /\ faults' = 0 => RowsArePrefix(rows', id, ledger, emitted, end)
    BY <1>2, <1>8, <1>9
  <2>2. /\ reader' # NONE /\ session'.id = reader'.id /\ session'.id = id
        /\ ObjectIsPrefix(session', ledger', emitted', begun')
    BY <1>2, <1>3, <1>5 DEF id
  <2>3. faults' = 0 => RowsArePrefix(rows', session'.id, ledger', emitted', cursor')
    BY <1>2, <1>3, <2>1, <2>2
  <2>4. phase' = "done" => cursor' = horizon'
    BY <1>2, <1>4
  <2>5. phase' \notin {"idle", "opened"}
    BY <1>2
  <2>6. QED  BY <2>1, <2>2, <2>3, <2>4, <2>5 DEF ReadOK
<1>11. ListOK'
  BY <1>1, <1>2, <1>3, ListStays
<1>12. VerifierTypeOK'
  <2>1. {faults', list'.faults} \subseteq Nat /\ faults' + list'.faults <= MaxFaults
    <3>1. list' = list /\ (faults' = faults \/ (MayErr /\ faults' = faults + 1))
      BY <1>2
    <3>2. QED  BY <1>5, <3>1, PagesAreNumbers DEF MayErr
  <2>2. horizon' \in 0..Len(ledger') /\ cursor' \in 0..horizon'
    BY <1>2, <1>4
  <2>3. rows' \in Seq(RowType) /\ ledger' \in Seq(RowType)
    BY <1>3, <1>10 DEF ReadOK, LedgerOK, Numbered
  <2>4. Range(ledger') \cup Range(rows') \subseteq
           [session_id : SessionId, content_hash : ContentHash,
            prev_hash : ContentHash \cup {ZERO_HASH}]
    BY <2>3, RowTypes
  <2>5. phase' \in {"reading", "done"} /\ session' \in SessionObject
    BY <1>2, <1>5
  <2>6. QED  BY <1>1, <1>2, <2>1, <2>2, <2>4, <2>5 DEF VerifierTypeOK
<1>13. QED  BY <1>3, <1>10, <1>11, <1>12 DEF VerifierInv

\* A page of the list.
LEMMA ListPageInv ==
  ASSUME VerifierInv, ListPageAscending \/ ListPageDescending
  PROVE  VerifierInv'
<1>1. TraceInv /\ LedgerOK /\ VerifierTypeOK /\ ReadOK /\ ListOK
  BY DEF VerifierInv
<1>2. /\ list.state \in {"start", "walking"}
      /\ UNCHANGED <<vars, ledger, reader>>
      /\ UNCHANGED <<phase, session, cursor, horizon, rows, begun, faults>>
  BY DEF ListPageAscending, ListPageDescending, ListPage, verdictVars
<1>3. TraceInv' /\ LedgerOK' /\ emitted' = emitted
  BY <1>1, <1>2, ContractStays
<1>4. /\ list \in ListType /\ list.rows \in Seq(1..Len(ledger))
      /\ Len(ledger) \in Nat /\ list.newest \in 0..Len(ledger) /\ list.next \in 0..list.newest
      /\ {faults, list.faults} \subseteq Nat /\ faults + list.faults <= MaxFaults
  BY <1>1 DEF ListOK, LedgerOK, Numbered, VerifierTypeOK
<1>5. PageSize \in Nat /\ ListPageSize \in Nat
  BY PagesAreNumbers
<1>6. /\ reader # NONE /\ reader.id \in DOMAIN emitted
      /\ ListedOK(list, ListedPositions, reader.walk)
  <2>1. reader # NONE
    BY <1>1, <1>2 DEF VerifierTypeOK
  <2>2. QED  BY <1>1, <2>1 DEF ListOK
<1> DEFINE id == reader.id
           T == 1..Len(ledger)
           Read(first, last) == OfSession(id, first, last)
\* The page: which positions it covers, and how it joins those walked over.
<1>7. \E newest, next, state, page, B :
        /\ ListPage(newest, next, state, page)
        /\ newest \in 0..Len(ledger) /\ next \in 0..newest
        /\ state \in {"walking", "done"}
        /\ state # "walking" => next = 0
        /\ reader.walk = "ascending" => next = 0
        /\ B \in SUBSET T /\ Listing(page, B, reader.walk)
        /\ Read(next + 1, newest) = ListedPositions \cup B
        /\ \A x \in ListedPositions, y \in B : Before(reader.walk, x, y)
  <2>1. CASE ListPageAscending
    <3> DEFINE end == IF Len(ledger) < list.newest + PageSize
                      THEN Len(ledger) ELSE list.newest + PageSize
               state == IF Len(ledger) > end THEN "walking" ELSE "done"
               B == Read(list.newest + 1, end)
               page == InOrder(B, <)
    <3>1. reader.walk = "ascending" /\ ListPage(end, 0, state, page)
      BY <2>1 DEF ListPageAscending
    <3>2. end \in Nat /\ list.newest <= end /\ end <= Len(ledger)
      BY <1>4, <1>5
    <3>3. state \in {"walking", "done"}
      OBVIOUS
    <3> HIDE DEF end, state
    <3>4. list.next = 0
      BY <1>1, <1>6, <3>1 DEF ListOK
    <3>5. B \in SUBSET T
      BY <1>4, <3>2 DEF OfSession
    <3>6. Read(0 + 1, end) = ListedPositions \cup B
      BY <1>4, <3>2, <3>4 DEF ListedPositions, OfSession
    <3>7. \A x \in ListedPositions, y \in B : Before(reader.walk, x, y)
      <4>1. \A x \in ListedPositions, y \in B : x < y
        BY <1>4, <3>2 DEF ListedPositions, OfSession
      <4>2. QED  BY <3>1, <4>1 DEF Before
    <3> HIDE DEF B, T
    <3>8. Listing(page, B, reader.walk)
      BY <1>4, <3>1, <3>5, InOrderLists DEF T
    <3> HIDE DEF page, Read
    <3>9. end \in 0..Len(ledger) /\ 0 \in 0..end
      BY <3>2
    <3>10. QED  BY <3>1, <3>3, <3>5, <3>6, <3>7, <3>8, <3>9
  <2>2. CASE ListPageDescending
    <3> DEFINE newest == IF list.state = "start" THEN Len(ledger) ELSE list.newest
               from == IF list.state = "start" THEN newest ELSE list.next
               next == IF from < ListPageSize THEN 0 ELSE from - ListPageSize
               state == IF next = 0 THEN "done" ELSE "walking"
               B == Read(next + 1, from)
               page == InOrder(B, >)
    <3>1. reader.walk = "descending" /\ ListPage(newest, next, state, page)
      BY <2>2 DEF ListPageDescending
    <3>2. newest \in 0..Len(ledger) /\ from \in 0..newest
      BY <1>4
    <3>3. list.state = "start" => list.newest = 0
      BY <1>1 DEF ListOK
    <3>4. Read(from + 1, newest) = ListedPositions
      <4>1. CASE list.state = "start"
        BY <1>4, <3>3, <4>1 DEF ListedPositions, OfSession
      <4>2. CASE list.state # "start"
        BY <4>2 DEF ListedPositions
      <4>3. QED  BY <4>1, <4>2
    <3> HIDE DEF newest, from
    <3>5. next \in 0..from /\ next \in 0..newest
      BY <1>4, <1>5, <3>2
    <3>6. state \in {"walking", "done"} /\ (state # "walking" => next = 0)
      OBVIOUS
    <3> HIDE DEF next, state
    <3>7. B \in SUBSET T
      BY <1>4, <3>2, <3>5 DEF OfSession
    <3>8. Read(next + 1, newest) = ListedPositions \cup B
      BY <1>4, <3>2, <3>4, <3>5 DEF OfSession
    <3>9. \A x \in ListedPositions, y \in B : Before(reader.walk, x, y)
      <4>1. \A x \in Read(from + 1, newest), y \in B : x > y
        BY <1>4, <3>2, <3>5 DEF OfSession
      <4>2. QED  BY <3>1, <3>4, <4>1 DEF Before
    <3> HIDE DEF B, T
    <3>10. Listing(page, B, reader.walk)
      BY <1>4, <3>1, <3>7, InOrderLists DEF T
    <3> HIDE DEF page, Read
    <3>11. reader.walk # "ascending"
      BY <3>1
    <3>12. QED  BY <3>1, <3>2, <3>5, <3>6, <3>7, <3>8, <3>9, <3>10, <3>11
  <2>3. QED  BY <2>1, <2>2
<1>8. PICK newest, next, state, page, B :
        /\ ListPage(newest, next, state, page)
        /\ newest \in 0..Len(ledger) /\ next \in 0..newest
        /\ state \in {"walking", "done"}
        /\ state # "walking" => next = 0
        /\ reader.walk = "ascending" => next = 0
        /\ B \in SUBSET T /\ Listing(page, B, reader.walk)
        /\ Read(next + 1, newest) = ListedPositions \cup B
        /\ \A x \in ListedPositions, y \in B : Before(reader.walk, x, y)
  BY <1>7
<1> DEFINE A == ListedPositions
<1>9. A \in SUBSET T
  BY <1>4 DEF ListedPositions, OfSession
<1>10. /\ page \in Seq(T) /\ Len(page) = Cardinality(B)
       /\ Cardinality(A) \in Nat /\ Cardinality(B) \in Nat
       /\ Cardinality(A \cup B) = Cardinality(A) + Cardinality(B)
       /\ Listing(list.rows, A, reader.walk) => Listing(list.rows \o page, A \cup B, reader.walk)
  <2>1. Len(ledger) \in Nat /\ list.rows \in Seq(1..Len(ledger))
    BY <1>4
  <2> HIDE DEF A, Read
  <2>2. \A x \in A, y \in B : Before(reader.walk, x, y)
    BY <1>8 DEF A
  <2>3. A \in SUBSET (1..Len(ledger)) /\ B \in SUBSET (1..Len(ledger))
    BY <1>8, <1>9
  <2>4. Listing(page, B, reader.walk)
    BY <1>8
  <2>5. QED  BY <2>1, <2>2, <2>3, <2>4, PagesJoin
<1> HIDE DEF A, T
\* What the list is then, whatever the node answered.
<1>11. /\ list'.state = state /\ list'.newest = newest /\ list'.next = next
       /\ list'.rows \in Seq(T) /\ list' \in ListType
       /\ list'.faults \in Nat /\ faults + list'.faults <= MaxFaults
       /\ ListedOK(list', A \cup B, reader.walk)
  <2>1. list.rows \in Seq(T) /\ Len(list.rows) \in Nat /\ list.faults \in Nat
    <3>1. list.rows \in Seq(T)
      BY <1>4 DEF T
    <3>2. QED  BY <1>4, <3>1
  <2>2. ASSUME NEW more \in Seq(T), NEW n \in Nat,
               list' = [state |-> state, newest |-> newest, next |-> next,
                        rows |-> list.rows \o more, faults |-> n]
        PROVE  /\ list'.state = state /\ list'.newest = newest /\ list'.next = next
               /\ list'.rows = list.rows \o more /\ list'.faults = n
               /\ list'.rows \in Seq(T) /\ list' \in ListType
               /\ Len(list'.rows) = Len(list.rows) + Len(more)
    <3>1. list.rows \o more \in Seq(T) /\ Len(list.rows \o more) = Len(list.rows) + Len(more)
      BY <2>1
    <3>2. T \subseteq Nat
      BY <1>4 DEF T
    <3>3. list.rows \o more \in Seq(Nat)
      <4> DEFINE g == list.rows \o more
      <4>1. g \in Seq(T)
        BY <3>1
      <4> HIDE DEF T, g
      <4>2. Len(g) \in Nat /\ g \in [1..Len(g) -> T]
        BY <4>1
      <4>3. g \in [1..Len(g) -> Nat]
        BY <3>2, <4>2
      <4>4. g \in Seq(Nat)
        BY <4>2, <4>3
      <4>5. QED  BY <4>4 DEF g
    <3>4. newest \in Nat /\ next \in Nat /\ state \in {"none", "start", "walking", "done"}
      BY <1>8
    <3>5. QED  BY <2>2, <3>1, <3>3, <3>4 DEF ListType
  <2>3. /\ \/ list' = [state |-> state, newest |-> newest, next |-> next,
                       rows |-> list.rows \o page, faults |-> list.faults]
           \/ /\ MayErr
              /\ \E answer \in Faulty(page) :
                   list' = [state |-> state, newest |-> newest, next |-> next,
                            rows |-> list.rows \o answer, faults |-> list.faults + 1]
    BY <1>8 DEF ListPage
  <2>4. CASE list' = [state |-> state, newest |-> newest, next |-> next,
                      rows |-> list.rows \o page, faults |-> list.faults]
    <3>1. /\ list'.state = state /\ list'.newest = newest /\ list'.next = next
          /\ list'.rows = list.rows \o page /\ list'.faults = list.faults
          /\ list'.rows \in Seq(T) /\ list' \in ListType
          /\ Len(list'.rows) = Len(list.rows) + Len(page)
      BY <1>10, <2>1, <2>2, <2>4
    <3>2. ListedOK(list, A, reader.walk)
      BY <1>6 DEF A
    <3>3. ListedOK(list', A \cup B, reader.walk)
      BY <1>10, <2>1, <3>1, <3>2 DEF ListedOK
    <3>4. QED  BY <1>4, <2>1, <3>1, <3>3
  <2>5. CASE /\ MayErr
             /\ \E answer \in Faulty(page) :
                  list' = [state |-> state, newest |-> newest, next |-> next,
                           rows |-> list.rows \o answer, faults |-> list.faults + 1]
    <3>1. PICK answer \in Faulty(page) :
                 list' = [state |-> state, newest |-> newest, next |-> next,
                          rows |-> list.rows \o answer, faults |-> list.faults + 1]
      BY <2>5
    <3>2. /\ answer \in Seq(T)
          /\ Len(answer) = Len(page) - 1 \/ Len(answer) = Len(page) + 1
      BY <1>10, <3>1, FaultyIsRows
    <3>3. /\ list'.state = state /\ list'.newest = newest /\ list'.next = next
          /\ list'.rows = list.rows \o answer /\ list'.faults = list.faults + 1
          /\ list'.rows \in Seq(T) /\ list' \in ListType
          /\ Len(list'.rows) = Len(list.rows) + Len(answer)
      <4>1. list.faults + 1 \in Nat
        BY <2>1
      <4>2. QED  BY <2>1, <2>2, <3>1, <3>2, <4>1
    <3>4. faults + (list.faults + 1) <= MaxFaults
      BY <1>4, <2>1, <2>5, PagesAreNumbers DEF MayErr
    <3>5. list.faults = 0 => Len(list.rows) = Cardinality(A)
      <4>1. ListedOK(list, A, reader.walk)
        BY <1>6 DEF A
      <4>2. ASSUME list.faults = 0 PROVE Len(list.rows) = Cardinality(A)
        <5>1. list.rows \in [1..Cardinality(A) -> A]
          BY <4>1, <4>2 DEF ListedOK, Listing
        <5>2. DOMAIN list.rows = 1..Len(list.rows)
          BY <2>1
        <5>3. QED  BY <1>10, <2>1, <5>1, <5>2
      <4>3. QED  BY <4>2
    <3>6. ListedOK(list', A \cup B, reader.walk)
      <4>1. list'.faults # 0
        BY <2>1, <3>3
      <4>2. list'.faults = 1 => list.faults = 0
        BY <2>1, <3>3
      <4>3. list'.faults = 1 => \/ Len(list'.rows) = Cardinality(A \cup B) - 1
                                \/ Len(list'.rows) = Cardinality(A \cup B) + 1
        <5> DEFINE a == Cardinality(A)
                   b == Cardinality(B)
                   u == Cardinality(A \cup B)
                   m == Len(list'.rows)
                   x == Len(answer)
        <5>1. a \in Nat /\ b \in Nat /\ u = a + b
          BY <1>10
        <5>2. x = b - 1 \/ x = b + 1
          BY <1>10, <3>2
        <5>3. m = Len(list.rows) + x
          BY <3>3
        <5>4. list'.faults = 1 => Len(list.rows) = a
          BY <3>5, <4>2
        <5> HIDE DEF a, b, u, m, x
        <5>5. list'.faults = 1 => m = u - 1 \/ m = u + 1
          BY <5>1, <5>2, <5>3, <5>4
        <5>6. QED  BY <5>5 DEF m, u
      <4>4. QED  BY <4>1, <4>3 DEF ListedOK
    <3>7. QED  BY <2>1, <3>3, <3>4, <3>6
  <2>6. QED  BY <2>3, <2>4, <2>5
<1>12. ListedPositions' = A \cup B
  <2>1. ListedPositions' = OfSession(reader.id, list'.next + 1, list'.newest)
    BY <1>2 DEF ListedPositions, OfSession
  <2>2. QED  BY <1>8, <1>11, <2>1 DEF A
<1>13. ListOK'
  <2>1. list'.rows \in Seq(1..Len(ledger'))
    BY <1>2, <1>11 DEF T
  <2>2. reader' = reader /\ reader # NONE /\ reader.id \in DOMAIN emitted'
    BY <1>2, <1>3, <1>6
  <2>3. ListedOK(list', ListedPositions', reader'.walk)
    BY <1>11, <1>12, <2>2
  <2>4. /\ list'.state # "walking" => list'.next = 0
        /\ list'.state \notin {"none", "start"}
        /\ reader'.walk = "ascending" => list'.next = 0
    BY <1>8, <1>11, <2>2
  <2>5. QED  BY <1>11, <2>1, <2>2, <2>3, <2>4 DEF ListOK
<1>14. ReadOK'
  BY <1>1, <1>2, <1>3 DEF ReadOK
<1>15. VerifierTypeOK'
  <2>1. Range(list'.rows) \subseteq 1..Len(ledger')
    <3>1. \A i \in DOMAIN list'.rows : list'.rows[i] \in T
      BY <1>11
    <3>2. QED  BY <1>2, <3>1 DEF Range, T
  <2>2. /\ list'.newest \in 0..Len(ledger') /\ list'.next \in 0..list'.newest
        /\ {faults', list'.faults} \subseteq Nat /\ faults' + list'.faults <= MaxFaults
    BY <1>2, <1>4, <1>8, <1>11
  <2>3. reader' # NONE
    BY <1>2, <1>6
  <2>4. QED  BY <1>1, <1>2, <2>1, <2>2, <2>3 DEF VerifierTypeOK
<1>16. QED  BY <1>3, <1>13, <1>14, <1>15 DEF VerifierInv

LEMMA VerifierInvStep == VerifierInv /\ [VerifierNext]_verifierVars => VerifierInv'
<1> SUFFICES ASSUME VerifierInv, [VerifierNext]_verifierVars PROVE VerifierInv'
  OBVIOUS
<1>1. ASSUME NEW s \in SessionId,
             \/ LoadPublicVerifySession(s) \/ FetchSession(s) \/ VerifyCommand(s)
             \/ TraceEvents(s) \/ ReplaySession(s)
      PROVE  VerifierInv'
  BY <1>1, OpenInv
  DEF LoadPublicVerifySession, FetchSession, VerifyCommand, TraceEvents, ReplaySession
<1>2. CASE UNCHANGED verifierVars
  <2>1. TraceInv /\ LedgerOK /\ VerifierTypeOK /\ ReadOK /\ ListOK
    BY DEF VerifierInv
  <2>2. /\ UNCHANGED <<vars, ledger>>
        /\ UNCHANGED <<reader, phase, session, cursor, horizon, rows, begun, faults, list>>
    BY <1>2 DEF verifierVars, readerVars, verdictVars
  <2>3. TraceInv' /\ LedgerOK' /\ emitted' = emitted
    BY <2>1, <2>2, ContractStays
  <2>4. ListOK'
    BY <2>1, <2>2, <2>3, ListStays
  <2>5. VerifierTypeOK' /\ ReadOK'
    BY <2>1, <2>2, <2>3 DEF VerifierTypeOK, ReadOK
  <2>6. QED  BY <2>3, <2>4, <2>5 DEF VerifierInv
<1>3. QED
  BY <1>1, <1>2, ContractStepInv, FetchTraceSessionInv, FetchPageInv, ListPageInv
  DEF VerifierNext

\* The inductive invariant of the verifier holds in every state it reaches.
THEOREM VerifierInvariant == VerifierSpec => []VerifierInv
BY VerifierInitInv, VerifierInvStep, PTL DEF VerifierSpec

\* Type correctness of what the verifiers hold (VerifyResult, EmittedEventRow).
THEOREM VerifierTypes == VerifierSpec => []VerifierTypeOK
<1>1. VerifierInv => VerifierTypeOK
  BY DEF VerifierInv
<1>2. QED  BY <1>1, VerifierInvariant, PTL

(***************************************************************************)
(* The verdicts.                                                           *)
(***************************************************************************)
LEMMA ContentsAre ==
  ASSUME NEW events \in Seq(RowType)
  PROVE  /\ Contents(events) \in Seq(ContentHash)
         /\ Len(Contents(events)) = Len(events)
         /\ \A i \in 1..Len(events) : Contents(events)[i] = events[i].content_hash
         /\ RootOf(Contents(events)) = Contents(events)
<1>1. Contents(events) = [i \in 1..Len(events) |-> events[i].content_hash]
  BY DEF Contents
<1>2. \A i \in 1..Len(events) : events[i].content_hash \in ContentHash
  <2>1. \A i \in 1..Len(events) : events[i] \in RowType
    OBVIOUS
  <2>2. \A r \in RowType : r.content_hash \in ContentHash
    BY DEF RowType
  <2>3. QED  BY <2>1, <2>2
<1>3. /\ Contents(events) \in Seq(ContentHash)
      /\ Len(Contents(events)) = Len(events)
      /\ \A i \in 1..Len(events) : Contents(events)[i] = events[i].content_hash
  BY <1>1, <1>2
<1>4. QED  BY <1>3, RootIsContents

\* What a finished verifier holds.
LEMMA WhenDone ==
  ASSUME VerifierInv, Done
  PROVE  /\ session \in SessionObject /\ session.id = reader.id
         /\ session.callCount \in Nat /\ session.merkleRoot \in Seq(ContentHash)
         /\ ObjectIsPrefix(session, ledger, emitted, begun)
         /\ rows \in Seq(RowType)
         /\ emitted[session.id] \in Seq(EmittedEvent)
         /\ faults = 0 => RowsArePrefix(rows, session.id, ledger, emitted, horizon)
         /\ begun \in 0..Len(ledger) /\ horizon \in 0..Len(ledger) /\ Len(ledger) \in Nat
<1>1. TraceInv /\ LedgerOK /\ VerifierTypeOK /\ ReadOK /\ phase = "done"
  BY DEF VerifierInv, Done
<1>2. /\ session \in SessionObject /\ session.id = reader.id
      /\ ObjectIsPrefix(session, ledger, emitted, begun)
      /\ rows \in Seq(RowType)
      /\ faults = 0 => RowsArePrefix(rows, session.id, ledger, emitted, horizon)
  BY <1>1 DEF ReadOK, VerifierTypeOK
<1>3. session.callCount \in Nat /\ session.merkleRoot \in Seq(ContentHash)
  BY <1>2 DEF SessionObject
<1>4. emitted[session.id] \in Seq(EmittedEvent)
  BY <1>1, <1>2 DEF ObjectIsPrefix, TraceInv, TraceTypeOK
<1>5. begun \in 0..Len(ledger) /\ horizon \in 0..Len(ledger) /\ Len(ledger) \in Nat
  BY <1>1 DEF VerifierTypeOK, LedgerOK, Numbered
<1>6. QED  BY <1>2, <1>3, <1>4, <1>5

\* The recomputed root is that of the object exactly when the rows hold the calls
\* the object describes.
LEMMA RootMatchIsPrefix ==
  ASSUME VerifierInv, Done, RootMatches(rows)
  PROVE  /\ Len(rows) = session.callCount
         /\ \A i \in 1..Len(rows) : rows[i].content_hash = emitted[session.id][i].content_hash
<1>1. Contents(rows) = session.merkleRoot
  BY WhenDone, ContentsAre DEF RootMatches
<1>2. Len(rows) = session.callCount
  BY <1>1, WhenDone, ContentsAre DEF ObjectIsPrefix
<1>3. \A i \in 1..Len(rows) : rows[i].content_hash = session.merkleRoot[i]
  BY <1>1, WhenDone, ContentsAre
<1>4. QED  BY <1>2, <1>3, WhenDone DEF ObjectIsPrefix

\* Rows that are a beginning of the session link up.
LEMMA PrefixLinks ==
  ASSUME VerifierInv, Done, faults = 0
  PROVE  BrokenLinks(rows) = {}
<1> DEFINE E == emitted[session.id]
<1>1. /\ RowsArePrefix(rows, session.id, ledger, emitted, horizon)
      /\ rows \in Seq(RowType) /\ E \in Seq(EmittedEvent) /\ horizon \in Nat
      /\ session.id \in DOMAIN emitted /\ horizon <= Len(ledger) /\ Len(ledger) \in Nat
  BY WhenDone DEF ObjectIsPrefix
<1>2. Linked(E)
  BY <1>1 DEF VerifierInv, TraceInv, TraceTypeOK, ChainIntact
<1>3. Len(rows) <= Len(E)
  <2>1. CountOf(ledger, session.id, horizon) <= CountOf(ledger, session.id, Len(ledger))
    BY <1>1, CountGrows
  <2>2. CountOf(ledger, session.id, Len(ledger)) = Len(E)
    BY <1>1 DEF VerifierInv, LedgerOK, Numbered
  <2>3. Len(rows) = CountOf(ledger, session.id, horizon)
    BY <1>1 DEF RowsArePrefix
  <2>4. QED  BY <2>1, <2>2, <2>3
<1>4. \A i \in 1..Len(rows) :
        rows[i].prev_hash = E[i].prev_hash /\ rows[i].content_hash = E[i].content_hash
  BY <1>1 DEF RowsArePrefix, Row
<1> HIDE DEF E
<1>5. ASSUME NEW i \in 1..Len(rows)
      PROVE  rows[i].prev_hash = (IF i = 1 THEN ZERO_HASH ELSE rows[i - 1].content_hash)
  <2>1. Len(rows) \in Nat /\ Len(E) \in Nat
    BY <1>1
  <2>2. i \in 1..Len(E) /\ (i # 1 => i - 1 \in 1..Len(rows))
    BY <1>3, <2>1
  <2>3. E[i].prev_hash = (IF i = 1 THEN ZERO_HASH ELSE E[i - 1].content_hash)
    BY <1>2, <2>2 DEF Linked, ContentBefore
  <2>4. QED  BY <1>4, <2>2, <2>3
<1>6. DOMAIN rows = 1..Len(rows)
  BY <1>1
<1>7. QED  BY <1>5, <1>6 DEF BrokenLinks

\* The calls of a complete list, in the order of the ledger, are those of the session.
LEMMA ListIsPrefix ==
  ASSUME VerifierInv, ListDone, reader # NONE,
         NEW e, Ascending(e, ListedPositions)
  PROVE  /\ At(e) \in Seq(RowType) /\ Len(At(e)) = Cardinality(ListedPositions)
         /\ \A i \in 1..Len(At(e)) : At(e)[i] = Row(reader.id, emitted[reader.id][i])
<1> DEFINE m == list.newest
           id == reader.id
           B == Between(ledger, id, 0, m)
<1>1. /\ Numbered(ledger, emitted) /\ id \in DOMAIN emitted
      /\ list.next = 0 /\ m \in Nat /\ m <= Len(ledger) /\ Len(ledger) \in Nat
  BY DEF VerifierInv, ListDone, ListOK, ListType, LedgerOK, Numbered, VerifierTypeOK
<1>2. ListedPositions = B
  BY <1>1 DEF ListedPositions, OfSession, Between
<1>3. At(e) = [i \in DOMAIN e |-> ledger[e[i]]]
  BY DEF At
<1>4. Ascending(e, B)
  BY <1>2
<1>5. CountOf(ledger, id, 0) = 0 /\ CountOf(ledger, id, m) = Cardinality(B)
  <2>1. CountOf(ledger, id, 0) = 0
    BY CountOfNothing
  <2>2. CountOf(ledger, id, m) = CountOf(ledger, id, 0) + Cardinality(B)
    BY <1>1, CountSplit
  <2>3. CountOf(ledger, id, m) \in Nat /\ Cardinality(B) \in Nat
    <3>1. B \in SUBSET (1..m)
      BY <1>1 DEF Between
    <3>2. QED  BY <1>1, <3>1, CountIsNumber, PositionsAreFinite
  <2>4. QED  BY <2>1, <2>2, <2>3
<1> HIDE DEF id, m
<1>6. /\ At(e) \in Seq(RowType)
      /\ Len(At(e)) = CountOf(ledger, id, m) - CountOf(ledger, id, 0)
      /\ \A i \in 1..Len(At(e)) : At(e)[i] = Row(id, emitted[id][CountOf(ledger, id, 0) + i])
  BY <1>1, <1>3, <1>4, PageContinues
<1>7. CountOf(ledger, id, m) \in Nat
  BY <1>1, CountIsNumber
<1> HIDE DEF B
<1>8. \A i \in 1..Len(At(e)) : 0 + i = i
  OBVIOUS
<1>9. QED  BY <1>2, <1>5, <1>6, <1>7, <1>8 DEF id

\* The times of distinct events are as far apart as their positions when none
\* has the time of the one before it.
LEMMA TimesAscend ==
  ASSUME NEW i \in Nat, NEW j \in Nat, NEW ties
  PROVE  /\ Cardinality(1..i \ ties) \in Nat
         /\ i <= j => Cardinality(1..i \ ties) <= Cardinality(1..j \ ties)
         /\ ties = {} => Cardinality(1..i \ ties) = i
<1>1. (1..i \ ties) \in SUBSET (1..i) /\ (1..j \ ties) \in SUBSET (1..j)
  OBVIOUS
<1>2. /\ IsFiniteSet(1..i \ ties) /\ Cardinality(1..i \ ties) \in Nat
      /\ IsFiniteSet(1..j \ ties) /\ Cardinality(1..j \ ties) \in Nat
  BY <1>1, PositionsAreFinite
<1>3. ASSUME i <= j PROVE Cardinality(1..i \ ties) <= Cardinality(1..j \ ties)
  <2>1. (1..i \ ties) \in SUBSET (1..j \ ties)
    BY <1>3
  <2>2. QED  BY <1>2, <2>1, FS_Subset
<1>4. ASSUME ties = {} PROVE Cardinality(1..i \ ties) = i
  <2>1. 1..i \ ties = 1..i
    BY <1>4
  <2>2. Cardinality(1..i) = i
    BY FS_Interval
  <2>3. QED  BY <2>1, <2>2
<1>5. QED  BY <1>2, <1>3, <1>4

\* Calls without ties, and calls read oldest first, are shown in the order of the
\* ledger when no row was left out or repeated.
LEMMA ListedAscends ==
  ASSUME VerifierInv, reader # NONE, list.faults = 0,
         NEW ties, ties = {} \/ reader.walk = "ascending"
  PROVE  \E e : Ascending(e, ListedPositions) /\ Listed(ties) = At(e)
<1> DEFINE P == ListedPositions
           c == Cardinality(P)
           r == list.rows
<1>1. /\ r \in [1..c -> P]
      /\ \A i, j \in 1..c : i < j => Before(reader.walk, r[i], r[j])
  BY DEF VerifierInv, ListOK, ListedOK, Listing
<1>2. c \in Nat /\ P \subseteq Nat
  <2>1. list.newest \in Nat /\ list.next \in Nat
    BY DEF VerifierInv, ListOK, ListType
  <2>2. P \in SUBSET (1..list.newest)
    BY <2>1 DEF ListedPositions, OfSession
  <2> HIDE DEF P
  <2>3. c \in Nat
    BY <2>1, <2>2, PositionsAreFinite
  <2>4. QED  BY <2>2, <2>3
<1>3. CASE reader.walk = "ascending"
  <2>1. Listed(ties) = At(r)
    BY <1>3 DEF Listed
  <2>2. Ascending(r, P)
    BY <1>1, <1>3 DEF Ascending, Before
  <2>3. QED  BY <2>1, <2>2
<1>4. CASE reader.walk # "ascending"
  <2> DEFINE Time(i) == Cardinality(1..i \ ties)
             Earlier(i, j) == \/ Time(r[i]) < Time(r[j])
                              \/ Time(r[i]) = Time(r[j]) /\ i < j
             sorted == InOrder(DOMAIN r, Earlier)
             e == [i \in DOMAIN r |-> r[sorted[i]]]
  <2>1. Listed(ties) = At(e)
    BY <1>4 DEF Listed
  <2> HIDE DEF P, c, r
  <2>2. DOMAIN r = 1..c /\ Cardinality(DOMAIN r) = c
    BY <1>1, <1>2, FS_Interval
  <2>3. \A i \in 1..c : r[i] \in Nat /\ Time(r[i]) = r[i]
    <3>1. TAKE i \in 1..c
    <3>2. r[i] \in Nat
      BY <1>1, <1>2
    <3>3. ties = {}
      BY <1>4
    <3>4. QED  BY <3>2, <3>3, TimesAscend
  <2> HIDE DEF Time
  <2>4. \A i, j \in 1..c : i < j => r[i] > r[j]
    BY <1>1, <1>4 DEF Before
  <2>5. \A i, j \in 1..c : Earlier(i, j) => i = j \/ r[i] < r[j]
    <3>1. TAKE i, j \in 1..c
    <3>2. HAVE Earlier(i, j)
    <3>3. r[i] < r[j] \/ (r[i] = r[j] /\ i < j)
      BY <2>3, <3>2
    <3>4. QED  BY <2>3, <2>4, <3>3
  <2>6. \E s \in [1..c -> 1..c] : \A i, j \in 1..c : i < j => Earlier(s[i], s[j])
    <3> DEFINE s == [i \in 1..c |-> (c + 1) - i]
    <3>1. s \in [1..c -> 1..c]
      BY <1>2
    <3>2. ASSUME NEW i \in 1..c, NEW j \in 1..c, i < j PROVE Earlier(s[i], s[j])
      <4>1. s[j] < s[i] /\ s[i] \in 1..c /\ s[j] \in 1..c
        BY <1>2, <3>2
      <4> HIDE DEF s
      <4>2. r[s[j]] > r[s[i]] /\ r[s[i]] \in Nat /\ r[s[j]] \in Nat
        BY <2>3, <2>4, <4>1
      <4>3. Time(r[s[i]]) < Time(r[s[j]])
        BY <2>3, <4>1, <4>2
      <4>4. QED  BY <4>3
    <3> HIDE DEF s, Earlier
    <3>3. QED  BY <3>1, <3>2
  <2> HIDE DEF Earlier
  <2>7. /\ sorted \in [1..c -> 1..c]
        /\ \A i, j \in 1..c : i < j => Earlier(sorted[i], sorted[j])
    BY <2>2, <2>6 DEF InOrder
  <2> HIDE DEF sorted
  <2>8. \A i \in 1..c : e[i] = r[sorted[i]] /\ e[i] \in P
    BY <1>1, <2>2, <2>7
  <2>9. e \in [1..c -> P]
    BY <2>2, <2>8
  <2> HIDE DEF e
  <2>10. ASSUME NEW i \in 1..c, NEW j \in 1..c, i < j PROVE e[i] < e[j]
    <3>1. sorted[i] \in 1..c /\ sorted[j] \in 1..c /\ Earlier(sorted[i], sorted[j])
      BY <2>7, <2>10
    <3>2. sorted[i] # sorted[j]
      BY <2>3, <2>10, <3>1 DEF Earlier
    <3>3. r[sorted[i]] < r[sorted[j]]
      BY <2>5, <3>1, <3>2
    <3>4. QED  BY <2>8, <3>3
  <2>11. Ascending(e, P)
    BY <2>9, <2>10 DEF Ascending, c
  <2>12. QED  BY <2>1, <2>11 DEF P
<1>5. QED  BY <1>3, <1>4

\* A complete list after one fault has one row too few or too many.
LEMMA OneFaultMiscounts ==
  ASSUME VerifierInv, reader # NONE, list.faults = 1
  PROVE  Cardinality(ListedPositions) # Len(list.rows)
<1>1. /\ \/ Len(list.rows) = Cardinality(ListedPositions) - 1
         \/ Len(list.rows) = Cardinality(ListedPositions) + 1
  BY DEF VerifierInv, ListOK, ListedOK
<1>2. list.newest \in Nat /\ list.next \in Nat
  BY DEF VerifierInv, ListOK, ListType
<1>3. ListedPositions \in SUBSET (1..list.newest)
  BY <1>2 DEF ListedPositions, OfSession
<1>4. Cardinality(ListedPositions) \in Nat
  BY <1>2, <1>3, PositionsAreFinite
<1>5. QED  BY <1>1, <1>4

\* A positive verdict vouches for a beginning of the session whatever the node did
\* wrong, and for the calls listed beside it when it did nothing wrong there; one
\* fault there shows, unless the session grew (verifyTraceChain in traces.ts,
\* public-verify.ts 104-179, trace.ts of the dashboard 101-180).
THEOREM PositiveVerdictsHold == VerifierSpec => []PositiveVerdictIsRight
<1>1. VerifierInv => PositiveVerdictIsRight
  <2> SUFFICES ASSUME VerifierInv, Done, VerifyTraceChain
               PROVE  /\ session.callCount <= Len(emitted[session.id])
                      /\ Contents(rows)
                           = Contents(SubSeq(emitted[session.id], 1, session.callCount))
                      /\ ListDone /\ CallEvidenceMatchesVerifier =>
                           /\ list.faults = 0 =>
                                /\ Contents(Listed({})) = Contents(rows)
                                /\ reader.walk = "ascending" =>
                                     \A ties \in SUBSET (2..Len(ledger)) :
                                       Contents(Listed(ties)) = Contents(rows)
                           /\ list.faults = 1 => Cardinality(ListedPositions) # session.callCount
    BY DEF PositiveVerdictIsRight
  <2> DEFINE E == emitted[session.id]
             n == session.callCount
  <2>1. /\ n \in Nat /\ E \in Seq(EmittedEvent) /\ rows \in Seq(RowType)
        /\ n <= Len(E) /\ Len(E) \in Nat
    BY WhenDone DEF ObjectIsPrefix
  <2>2. Len(rows) = n /\ \A i \in 1..n : rows[i].content_hash = E[i].content_hash
    <3>1. Len(rows) = n
      BY RootMatchIsPrefix DEF VerifyTraceChain
    <3>2. QED  BY <3>1, RootMatchIsPrefix DEF VerifyTraceChain
  <2>3. Contents(rows) = [i \in 1..n |-> E[i].content_hash]
    <3> HIDE DEF E, n
    <3>1. DOMAIN rows = 1..n
      BY <2>1, <2>2
    <3>2. QED  BY <2>2, <3>1 DEF Contents
  <2>4. Contents(SubSeq(E, 1, n)) = [i \in 1..n |-> E[i].content_hash]
    <3> HIDE DEF E, n
    <3>1. /\ SubSeq(E, 1, n) \in Seq(EmittedEvent)
          /\ Len(SubSeq(E, 1, n)) = n
          /\ \A i \in 1..n : SubSeq(E, 1, n)[i] = E[i]
      BY <2>1
    <3>2. DOMAIN SubSeq(E, 1, n) = 1..n
      BY <3>1
    <3>3. QED  BY <3>1, <3>2 DEF Contents
  <2>5. ASSUME ListDone, CallEvidenceMatchesVerifier, list.faults = 0,
               NEW ties, ties = {} \/ reader.walk = "ascending"
        PROVE  Contents(Listed(ties)) = Contents(rows)
    <3>1. reader # NONE /\ session.id = reader.id
      BY WhenDone DEF VerifierInv, ReadOK, Done
    <3>2. PICK e : Ascending(e, ListedPositions) /\ Listed(ties) = At(e)
      BY <2>5, <3>1, ListedAscends
    <3>3. /\ At(e) \in Seq(RowType) /\ Len(At(e)) = n
          /\ \A i \in 1..Len(At(e)) : At(e)[i] = Row(session.id, E[i])
      <4>1. Cardinality(ListedPositions) = n
        <5>1. Len(list.rows) = n
          BY <2>2, <2>5 DEF CallEvidenceMatchesVerifier
        <5>2. Listing(list.rows, ListedPositions, reader.walk)
          BY <2>5, <3>1 DEF VerifierInv, ListOK, ListedOK
        <5>3. /\ DOMAIN list.rows = 1..Cardinality(ListedPositions)
              /\ DOMAIN list.rows = 1..Len(list.rows)
          BY <5>2 DEF Listing, VerifierInv, ListOK
        <5>4. Cardinality(ListedPositions) \in Nat
          <6>1. list.newest \in Nat /\ list.next \in Nat
            BY DEF VerifierInv, ListOK, ListType
          <6>2. ListedPositions \in SUBSET (1..list.newest)
            BY <6>1 DEF ListedPositions, OfSession
          <6>3. QED  BY <6>1, <6>2, PositionsAreFinite
        <5> HIDE DEF n, E
        <5>5. QED  BY <2>1, <5>1, <5>3, <5>4
      <4>2. /\ At(e) \in Seq(RowType) /\ Len(At(e)) = Cardinality(ListedPositions)
            /\ \A i \in 1..Len(At(e)) : At(e)[i] = Row(reader.id, emitted[reader.id][i])
        BY <2>5, <3>1, <3>2, ListIsPrefix
      <4>3. QED  BY <3>1, <4>1, <4>2
    <3> HIDE DEF E, n
    <3>4. DOMAIN At(e) = 1..n
      BY <3>3
    <3>5. \A i \in 1..n : At(e)[i].content_hash = E[i].content_hash
      BY <3>3 DEF Row
    <3>6. Contents(At(e)) = [i \in 1..n |-> E[i].content_hash]
      BY <3>4, <3>5 DEF Contents
    <3>7. QED  BY <2>3, <3>2, <3>6
  <2>6. ASSUME CallEvidenceMatchesVerifier, list.faults = 1
        PROVE  Cardinality(ListedPositions) # session.callCount
    <3>1. reader # NONE
      BY WhenDone DEF VerifierInv, ReadOK, Done
    <3>2. Len(list.rows) = n
      BY <2>2, <2>6 DEF CallEvidenceMatchesVerifier
    <3>3. QED  BY <2>6, <3>1, <3>2, OneFaultMiscounts
  <2>7. QED  BY <2>1, <2>3, <2>4, <2>5, <2>6
<1>2. QED  BY <1>1, VerifierInvariant, PTL

\* When the node made no mistake, the verdict is about root and count alone.
LEMMA HonestVerdict ==
  ASSUME VerifierInv, Done, faults = 0
  PROVE  /\ VerifyTraceChain <=> RootMatches(rows)
         /\ begun <= horizon /\ Len(emitted[session.id]) <= session.callCount
              => VerifyTraceChain
<1>1. RootMatches(rows) => VerifyTraceChain
  BY PrefixLinks, RootMatchIsPrefix DEF VerifyTraceChain, CountMatches
<1>2. ASSUME begun <= horizon, Len(emitted[session.id]) <= session.callCount
      PROVE  RootMatches(rows)
  <2> DEFINE E == emitted[session.id]
             n == session.callCount
             root == session.merkleRoot
  <2>1. /\ n \in Nat /\ E \in Seq(EmittedEvent) /\ rows \in Seq(RowType)
        /\ root \in Seq(ContentHash) /\ Len(root) = n
        /\ \A i \in 1..n : root[i] = E[i].content_hash
        /\ session.id \in DOMAIN emitted /\ n <= Len(E)
        /\ CountOf(ledger, session.id, begun) = n
        /\ begun \in Nat /\ horizon \in Nat /\ horizon <= Len(ledger) /\ Len(ledger) \in Nat
    BY WhenDone DEF ObjectIsPrefix
  <2>2. RowsArePrefix(rows, session.id, ledger, emitted, horizon)
    BY WhenDone
  <2>3. CountOf(ledger, session.id, horizon) = n
    <3>1. n <= CountOf(ledger, session.id, horizon)
      BY <1>2, <2>1, CountGrows
    <3>2. CountOf(ledger, session.id, horizon) <= CountOf(ledger, session.id, Len(ledger))
      BY <2>1, CountGrows
    <3>3. CountOf(ledger, session.id, Len(ledger)) = Len(E)
      BY <2>1 DEF VerifierInv, LedgerOK, Numbered
    <3>4. Len(E) \in Nat /\ CountOf(ledger, session.id, horizon) \in Nat
      BY <2>1, CountIsNumber
    <3>5. QED  BY <1>2, <2>1, <3>1, <3>2, <3>3, <3>4
  <2>4. Len(rows) = n /\ \A i \in 1..n : rows[i].content_hash = E[i].content_hash
    <3>1. Len(rows) = n /\ \A i \in 1..n : rows[i] = Row(session.id, E[i])
      BY <2>2, <2>3 DEF RowsArePrefix
    <3> HIDE DEF E, n
    <3>2. QED  BY <3>1 DEF Row
  <2>5. /\ Contents(rows) \in Seq(ContentHash) /\ Len(Contents(rows)) = n
        /\ \A i \in 1..n : Contents(rows)[i] = rows[i].content_hash
        /\ RootOf(Contents(rows)) = Contents(rows)
    BY <2>1, <2>4, ContentsAre
  <2> HIDE DEF E, n, root
  <2>6. \A i \in 1..n : Contents(rows)[i] = root[i]
    BY <2>1, <2>4, <2>5
  <2>7. Contents(rows) = root
    BY <2>1, <2>5, <2>6
  <2>8. QED  BY <2>5, <2>7 DEF RootMatches, root
<1>3. QED  BY <1>1, <1>2 DEF VerifyTraceChain

\* A negative verdict has one of three causes, and unless the node erred the root
\* does differ when the page says so (traces.ts 312-363, page.tsx 114).
THEOREM NegativeVerdictsHaveACause == VerifierSpec => []NegativeVerdictHasCause
<1>1. VerifierInv => NegativeVerdictHasCause
  <2> SUFFICES ASSUME VerifierInv, Done, ~VerifyTraceChain
               PROVE  /\ \/ faults > 0
                         \/ horizon < begun
                         \/ Len(emitted[session.id]) > session.callCount
                      /\ faults = 0 => RootMatchShown = RootMatches(rows)
    BY DEF NegativeVerdictHasCause
  <2>1. /\ faults \in Nat /\ begun \in Nat /\ horizon \in Nat
        /\ session.callCount \in Nat /\ Len(emitted[session.id]) \in Nat
    <3>1. faults \in Nat
      BY PagesAreNumbers DEF VerifierInv, VerifierTypeOK
    <3>2. QED  BY <3>1, WhenDone
  <2>2. faults = 0 => horizon < begun \/ Len(emitted[session.id]) > session.callCount
    BY <2>1, HonestVerdict
  <2>3. faults = 0 => ~RootMatches(rows)
    BY HonestVerdict
  <2>4. faults = 0 => RootMatchShown = RootMatches(rows)
    <3>1. RootMatchShown = FALSE
      BY DEF RootMatchShown, VerifyTraceChain
    <3>2. faults = 0 => RootMatches(rows) = FALSE
      BY <2>3 DEF RootMatches
    <3>3. QED  BY <3>1, <3>2
  <2>5. QED  BY <2>1, <2>2, <2>4
<1>2. QED  BY <1>1, VerifierInvariant, PTL

\* The TypeScript and the Python verifier say the same while the configured package
\* defines the events, and Python accepts only empty sessions when it does not
\* (traces.py 85).
THEOREM VerifiersSayTheSame == VerifierSpec => []VerifiersAgree
<1>1. VerifierInv => VerifiersAgree
  <2> SUFFICES ASSUME VerifierInv, Done
               PROVE  /\ VerifyTraceChain <=> VerifySessionPython(TRUE)
                      /\ VerifySessionPython(FALSE) <=> session.callCount = 0
    BY DEF VerifiersAgree
  <2>1. VerifyTraceChain <=> VerifySessionPython(TRUE)
    BY RootMatchIsPrefix DEF VerifyTraceChain, VerifySessionPython, PythonRows, CountMatches
  <2>2. BrokenLinks(<<>>) = {} /\ RootOf(Contents(<<>>)) = <<>>
    <3>1. Contents(<<>>) = <<>> /\ BrokenLinks(<<>>) = {}
      BY DEF Contents, BrokenLinks
    <3>2. <<>> \in Seq(ContentHash)
      OBVIOUS
    <3>3. RootOf(<<>>) = <<>>
      BY <3>2, RootIsContents
    <3>4. QED  BY <3>1, <3>3
  <2>3. RootMatches(<<>>) <=> session.callCount = 0
    <3>1. /\ session.merkleRoot \in Seq(ContentHash)
          /\ Len(session.merkleRoot) = session.callCount
      BY WhenDone DEF ObjectIsPrefix
    <3>2. session.merkleRoot = <<>> <=> session.callCount = 0
      BY <3>1
    <3>3. QED  BY <2>2, <3>2 DEF RootMatches
  <2>4. VerifySessionPython(FALSE) <=> session.callCount = 0
    BY <2>2, <2>3 DEF VerifySessionPython, PythonRows
  <2>5. QED  BY <2>1, <2>4
<1>2. QED  BY <1>1, VerifierInvariant, PTL
=============================================================================
