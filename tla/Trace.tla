------------------------------- MODULE Trace --------------------------------
(****************************************************************************)
(* The audit half of the Move package: trace.move with the event            *)
(* constructors of events.move, on top of the authority objects of          *)
(* Namespace.                                                               *)
(*                                                                          *)
(* A TraceSession is a shared object that any holder of an accepted         *)
(* ReadWrite capability extends: emit_call chains a new ActionCall to the   *)
(* session's running Merkle root, close_call records its outcome once,      *)
(* close_session seals the chain.  What verifiers read later is the session *)
(* object and the events.                                                   *)
(*                                                                          *)
(* sha2_256 is ideal: a content hash is the pair of what was hashed, and a  *)
(* root is what was chained to ZERO_HASH, in order.  Payload stands for     *)
(* tool_name || tool_namespace || input_hash, which the code concatenates   *)
(* without delimiters: calls that agree on the concatenation have the same  *)
(* payload.  Deprecated close_call and close_session always abort, so they  *)
(* are no actions.                                                          *)
(****************************************************************************)
EXTENDS Namespace, Sequences

CONSTANTS
  SessionId,      \* ids of TraceSession objects
  CallId,         \* ids of ActionCall objects
  Payload,        \* what compute_content_hash hashes of a call, besides its parent
  Output,         \* output hashes (with their blob)
  StatusArg,      \* status values callers pass (a u8)
  NONE            \* option::none

ASSUME StatusesAreNumbers == StatusArg \subseteq 0..255
ASSUME NoneIsNoObject == NONE \notin CallId \cup Output

VARIABLES
  sessions,       \* the TraceSession objects, by id
  calls,          \* the ActionCall dynamic fields, by id
  emitted,        \* ActionCallEmittedEvents of each session, in order
  callClosed,     \* ActionCallClosedEvents
  sessionClosed   \* TraceSessionClosedEvents, by session

traceVars == <<sessions, calls, emitted, callClosed, sessionClosed>>
vars == <<registry, namespaces, caps, minted, revokedLog,
          sessions, calls, emitted, callClosed, sessionClosed>>

SESSION_ACTIVE == 0
SESSION_FINAL == 1..3           \* COMPLETED, FAILED, ABORTED
CALL_PENDING == 0
CALL_STATUS_MAX == 4            \* SUCCESS, FAILURE, TIMEOUT, CANCELLED = 1..4

ZERO_HASH == <<>>
ComputeContentHash(payload, parent) == <<payload, parent>>

ChainHash_ForgetsRunning(running, content) == <<content>>      \* mutant
ChainHash(running, content) == Append(running, content)

\* The assertions of trace.move that several entry functions make.
AssertSessionActive_Missing(s) == TRUE                         \* mutant
AssertSessionActive(s) == sessions[s].status = SESSION_ACTIVE

AssertCallPending_Missing(k) == TRUE                           \* mutant
AssertCallPending(k) == calls[k].output_hash = NONE

IsFinalCallStatus_Pending(status) == status <= CALL_STATUS_MAX \* mutant
IsFinalCallStatus(status) == status <= CALL_STATUS_MAX /\ status # CALL_PENDING

\* What emit_call links a new call to: the previous call's content.
PrevHash_Root(s) == sessions[s].merkle_root                    \* mutant
PrevHash(s) == sessions[s].last_content_hash

\* A call with its outcome.
Closed_Rehashed(call, output, status) ==                       \* mutant
  [call EXCEPT !.content_hash = ComputeContentHash(output, NONE),
               !.output_hash = output, !.status = status]
Closed(call, output, status) == [call EXCEPT !.output_hash = output, !.status = status]

-----------------------------------------------------------------------------
Init ==
  /\ NsInit
  /\ sessions = Empty
  /\ calls = Empty
  /\ emitted = Empty
  /\ callClosed = {}
  /\ sessionClosed = Empty

OpenSession(n, c, s) ==
  /\ Accepted(c, n, "ReadWrite")
  /\ AssertActive(n)
  /\ s \in SessionId \ DOMAIN sessions
  /\ sessions' = Put(sessions, s,
       [namespace_id |-> n, root_call_id |-> NONE, last_call_id |-> NONE, call_count |-> 0,
        last_content_hash |-> ZERO_HASH, merkle_root |-> ZERO_HASH,
        status |-> SESSION_ACTIVE, version |-> VERSION])
  /\ emitted' = Put(emitted, s, <<>>)
  /\ UNCHANGED <<nsVars, calls, callClosed, sessionClosed>>

\* The parent id is not checked: it may name a call of another session.  (An id
\* that no call has is accepted too; to the chain it is one more foreign id.)
EmitCall(s, n, c, parent, payload, k) ==
  /\ s \in DOMAIN sessions
  /\ AssertVersionMatches(sessions[s])
  /\ AssertSessionActive(s)
  /\ sessions[s].namespace_id = n
  /\ Accepted(c, n, "ReadWrite")
  /\ AssertActive(n)
  /\ k \in CallId \ DOMAIN calls
  /\ parent \in DOMAIN calls \cup {NONE}
  /\ LET prev_hash == PrevHash(s)
         content_hash == ComputeContentHash(payload, parent)
         new_root == ChainHash(sessions[s].merkle_root, content_hash)
     IN
     /\ sessions' = [sessions EXCEPT
          ![s].root_call_id = IF @ = NONE THEN k ELSE @,
          ![s].last_call_id = k,
          ![s].last_content_hash = content_hash,
          ![s].merkle_root = new_root,
          ![s].call_count = @ + 1]
     /\ calls' = Put(calls, k,
          [session_id |-> s, content_hash |-> content_hash, prev_hash |-> prev_hash,
           output_hash |-> NONE, status |-> CALL_PENDING])
     /\ emitted' = [emitted EXCEPT ![s] = Append(@,
          [call_id |-> k, content_hash |-> content_hash, prev_hash |-> prev_hash,
           new_session_merkle_root |-> new_root])]
  /\ UNCHANGED <<nsVars, callClosed, sessionClosed>>

\* Neither the session's status nor the namespace's active flag is read: a
\* pending call can be closed after its session, and in a deactivated namespace.
CloseCallWithNamespace(s, n, c, k, output, status) ==
  /\ s \in DOMAIN sessions
  /\ AssertVersionMatches(sessions[s])
  /\ IsFinalCallStatus(status)
  /\ k \in DOMAIN calls /\ calls[k].session_id = s
  /\ sessions[s].namespace_id = n
  /\ Accepted(c, n, "ReadWrite")
  /\ AssertCallPending(k)
  /\ calls' = [calls EXCEPT ![k] = Closed(@, output, status)]
  /\ callClosed' = callClosed \cup {[call_id |-> k, output_hash |-> output, status |-> status]}
  /\ UNCHANGED <<nsVars, sessions, emitted, sessionClosed>>

\* Calls may still be pending, and the namespace may be inactive.
CloseSessionWithNamespace(s, n, c, status) ==
  /\ s \in DOMAIN sessions
  /\ AssertVersionMatches(sessions[s])
  /\ status \in SESSION_FINAL
  /\ AssertSessionActive(s)
  /\ sessions[s].namespace_id = n
  /\ Accepted(c, n, "ReadWrite")
  /\ sessions' = [sessions EXCEPT ![s].status = status]
  /\ sessionClosed' = Put(sessionClosed, s,
       [final_merkle_root |-> sessions[s].merkle_root,
        call_count |-> sessions[s].call_count, status |-> status])
  /\ UNCHANGED <<nsVars, calls, emitted, callClosed>>

TraceNext ==
  \/ \E n \in NamespaceId, c \in CapId, s \in SessionId : OpenSession(n, c, s)
  \/ \E s \in SessionId, n \in NamespaceId, c \in CapId, parent \in CallId \cup {NONE},
        payload \in Payload, k \in CallId : EmitCall(s, n, c, parent, payload, k)
  \/ \E s \in SessionId, n \in NamespaceId, c \in CapId, k \in CallId,
        output \in Output, status \in StatusArg :
        CloseCallWithNamespace(s, n, c, k, output, status)
  \/ \E s \in SessionId, n \in NamespaceId, c \in CapId, status \in StatusArg :
        CloseSessionWithNamespace(s, n, c, status)

Next == TraceNext \/ (NsNext /\ UNCHANGED traceVars)

Spec == Init /\ [][Next]_vars

-----------------------------------------------------------------------------
ContentHash == Payload \X (CallId \cup {NONE})
Session == [namespace_id : NamespaceId,
            root_call_id : CallId \cup {NONE}, last_call_id : CallId \cup {NONE},
            call_count : Nat, last_content_hash : ContentHash \cup {ZERO_HASH},
            merkle_root : Seq(ContentHash),
            status : {SESSION_ACTIVE} \cup SESSION_FINAL, version : {VERSION}]
Call == [session_id : SessionId, content_hash : ContentHash,
         prev_hash : ContentHash \cup {ZERO_HASH}, output_hash : Output \cup {NONE},
         status : CALL_PENDING..CALL_STATUS_MAX]
EmittedEvent == [call_id : CallId, content_hash : ContentHash,
                 prev_hash : ContentHash \cup {ZERO_HASH},
                 new_session_merkle_root : Seq(ContentHash)]
CallClosedEvent == [call_id : CallId, output_hash : Output, status : 1..CALL_STATUS_MAX]
SessionClosedEvent == [final_merkle_root : Seq(ContentHash), call_count : Nat,
                       status : SESSION_FINAL]

\* Types of the sessions, the calls and the trace events (the struct
\* declarations of trace.move and events.move); a call belongs to a session.
TraceTypeOK ==
  /\ DOMAIN sessions \subseteq SessionId
  /\ sessions \in [DOMAIN sessions -> Session]
  /\ DOMAIN calls \subseteq CallId
  /\ calls \in [DOMAIN calls -> Call]
  /\ \A k \in DOMAIN calls : calls[k].session_id \in DOMAIN sessions
  /\ emitted \in [DOMAIN sessions -> Seq(EmittedEvent)]
  /\ callClosed \subseteq CallClosedEvent
  /\ DOMAIN sessionClosed \subseteq DOMAIN sessions
  /\ sessionClosed \in [DOMAIN sessionClosed -> SessionClosedEvent]

\* The hashes of event i's predecessor; before the first event, ZERO_HASH.
ContentBefore(E, i) == IF i = 1 THEN ZERO_HASH ELSE E[i - 1].content_hash
RootBefore(E, i) == IF i = 1 THEN ZERO_HASH ELSE E[i - 1].new_session_merkle_root

\* Each event links to the one before it and chains its content to the root.
Linked(E) ==
  \A i \in 1..Len(E) :
    /\ E[i].prev_hash = ContentBefore(E, i)
    /\ E[i].new_session_merkle_root = ChainHash(RootBefore(E, i), E[i].content_hash)

\* The session object is the tail of the chain E.
TailOf(session, E) ==
  LET n == Len(E) IN
  /\ session.call_count = n
  /\ session.last_content_hash = ContentBefore(E, n + 1)
  /\ session.merkle_root = RootBefore(E, n + 1)
  /\ session.root_call_id = (IF n = 0 THEN NONE ELSE E[1].call_id)
  /\ session.last_call_id = (IF n = 0 THEN NONE ELSE E[n].call_id)

\* The events of a session form one chain, link by link, and the session object
\* is that chain's tail: a verifier that folds the events arrives at the stored
\* root and count (trace.move 151-214).
ChainIntact ==
  \A s \in DOMAIN sessions : Linked(emitted[s]) /\ TailOf(sessions[s], emitted[s])

\* A root commits to everything before it: wherever in any two sessions the same
\* root appears, it closes the same number of calls with the same contents in
\* the same order (trace.move 354-362).  A verified root therefore identifies
\* one history.
RootCommitsToHistory ==
  \A s, t \in DOMAIN sessions :
    \A i \in 1..Len(emitted[s]), j \in 1..Len(emitted[t]) :
      emitted[s][i].new_session_merkle_root = emitted[t][j].new_session_merkle_root
      => /\ i = j
         /\ \A h \in 1..i : emitted[s][h].content_hash = emitted[t][h].content_hash

\* Every call object is in exactly one place of exactly one session's events,
\* with the hashes the event announced, whatever was closed since.
CallsMatchEvents ==
  /\ \A s \in DOMAIN sessions : \A i \in 1..Len(emitted[s]) :
       LET e == emitted[s][i] IN
       /\ e.call_id \in DOMAIN calls
       /\ calls[e.call_id].session_id = s
       /\ calls[e.call_id].content_hash = e.content_hash
       /\ calls[e.call_id].prev_hash = e.prev_hash
       /\ \A j \in 1..Len(emitted[s]) : emitted[s][j].call_id = e.call_id => i = j
  /\ \A k \in DOMAIN calls :
       \E i \in 1..Len(emitted[calls[k].session_id]) :
         emitted[calls[k].session_id][i].call_id = k

\* A SessionClosed event is final: what it announced is the session's root, count
\* and status ever after, and a session without one is open (trace.move 151-166,
\* 273-300).
SessionClosedIsFinal ==
  /\ \A s \in DOMAIN sessionClosed :
       /\ sessionClosed[s].status = sessions[s].status
       /\ sessionClosed[s].final_merkle_root = sessions[s].merkle_root
       /\ sessionClosed[s].call_count = sessions[s].call_count
  /\ \A s \in DOMAIN sessions :
       sessions[s].status # SESSION_ACTIVE <=> s \in DOMAIN sessionClosed

\* A CallClosed event is final: a call has at most one, and it says what the
\* call object says, after any number of attempts to close it (trace.move
\* 231-260).
CallClosedIsFinal ==
  /\ \A e \in callClosed :
       /\ e.call_id \in DOMAIN calls
       /\ calls[e.call_id].output_hash = e.output_hash
       /\ calls[e.call_id].status = e.status
  /\ \A k \in DOMAIN calls :
       calls[k].output_hash # NONE <=> \E e \in callClosed : e.call_id = k

\* The trace contract implements the abstract audit log: events only accumulate
\* while a session is unsealed, sealing fixes the length its event announces, and
\* outcomes are written once.
Settled == {k \in DOMAIN calls : calls[k].output_hash # NONE}
Log == INSTANCE AuditLog WITH
  LogId <- SessionId,
  Outcome <- [output_hash : Output, status : 1..CALL_STATUS_MAX],
  log <- emitted,
  sealed <- [s \in DOMAIN sessionClosed |-> sessionClosed[s].call_count],
  outcome <- [k \in Settled |-> [output_hash |-> calls[k].output_hash,
                                status |-> calls[k].status]]

ImplementsAuditLog == Log!Spec

\* "Called by trace.move at the start of every state-mutating call so deactivated
\* namespaces stop accepting new writes" (namespace.move 324-326).  Refuted: calls
\* and sessions are still closed in them.
InactiveStopsWrites ==
  [][\A s \in DOMAIN sessions : ~AssertActive(sessions[s].namespace_id) =>
       /\ sessions'[s] = sessions[s]
       /\ \A k \in DOMAIN calls : calls[k].session_id = s => calls'[k] = calls[k]]_vars
=============================================================================
