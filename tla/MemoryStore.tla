------------------------------ MODULE MemoryStore -----------------------------
(******************************************************************************)
(* Memories (sdk-ts memory.ts): add stores a text with MemWal and, when it is *)
(* given a session, attests it by an ActionCall "memwal_write" that names the *)
(* blob.  The list of memories is read back from those calls.                 *)
(*                                                                            *)
(* MemWal and the chain are external: either may refuse, and either may have  *)
(* done its part although the answer is lost.                                 *)
(******************************************************************************)
EXTENDS Naturals, Sequences, SequencesExt

CONSTANTS
  Session,        \* trace sessions
  Task,           \* runs of add; bounds their number
  AttestIn,       \* bound: the sessions whose calls are listed
  MaxEvents       \* bound: the ActionCalls there may be when a call is added to them

ASSUME AttestInIsSession == AttestIn \subseteq Session /\ AttestIn # {}

VARIABLES
  adds,           \* the state of each run of add
  blobs,          \* the runs whose memory MemWal has stored
  events          \* the ActionCall events, oldest first

memoryVars == <<adds, blobs, events>>

MEMORY_TOOL == "memwal_write"
OTHER_TOOL == "tool"

NoAdd == [stage |-> "none", session |-> {}, lost |-> FALSE, retried |-> FALSE]

\* The calls that attest a memory.
CallsOf(t) == {i \in DOMAIN events : events[i].tool = MEMORY_TOOL /\ events[i].blob = {t}}

-----------------------------------------------------------------------------
MemoryInit ==
  /\ adds = [t \in Task |-> NoAdd]
  /\ blobs = {}
  /\ events = <<>>

\* The commands, the MCP tool and createMemoryRecorder pass no session; a caller of the
\* SDK may pass one, with the namespace and a capability.
Add(t, session) ==
  /\ adds[t] = NoAdd
  /\ adds' = [adds EXCEPT ![t].stage = "writing", ![t].session = session]
  /\ UNCHANGED <<blobs, events>>

Remembered(t) ==
  /\ adds[t].stage = "writing"
  /\ blobs' = blobs \cup {t}
  /\ adds' = [adds EXCEPT ![t].stage = IF adds[t].session = {} THEN "done" ELSE "attesting"]
  /\ UNCHANGED events

\* MemoryWriteError, also when MemWal has stored it and only the answer is missing.
RememberFails(t) ==
  /\ adds[t].stage = "writing"
  /\ blobs' \in {blobs, blobs \cup {t}}
  /\ adds' = [adds EXCEPT ![t].stage = "write_error"]
  /\ UNCHANGED events

\* appendCall, and MemoryAttestationError when its answer is lost.
Attested(t, answered) ==
  /\ adds[t].stage = "attesting"
  /\ \E s \in adds[t].session :
       events' = Append(events, [tool |-> MEMORY_TOOL, session |-> s, blob |-> {t}])
  /\ adds' = [adds EXCEPT ![t].stage = IF answered THEN "done" ELSE "attestation_error",
                          ![t].lost = @ \/ ~answered]
  /\ UNCHANGED blobs

\* The transaction is refused, or leaves no ActionCallEmittedEvent.
AttestationFails_Swallowed(t) ==                                    \* mutant
  /\ adds[t].stage = "attesting"
  /\ adds' = [adds EXCEPT ![t].stage = "done"]
  /\ UNCHANGED <<blobs, events>>

AttestationFails(t) ==
  /\ adds[t].stage = "attesting"
  /\ adds' = [adds EXCEPT ![t].stage = "attestation_error"]
  /\ UNCHANGED <<blobs, events>>

\* What MemoryAttestationError asks of the caller: attest the stored blob again.
RetryAttestation(t) ==
  /\ adds[t].stage = "attestation_error"
  /\ ~adds[t].retried
  /\ adds' = [adds EXCEPT ![t].stage = "attesting", ![t].retried = TRUE]
  /\ UNCHANGED <<blobs, events>>

\* Any other tool call that is recorded; nobody asks in which session.
OtherCall ==
  /\ Len(events) < MaxEvents
  /\ events' = Append(events, [tool |-> OTHER_TOOL, session |-> CHOOSE s \in AttestIn : TRUE,
                               blob |-> {}])
  /\ UNCHANGED <<adds, blobs>>

MemoryStep ==
  \/ \E t \in Task, s \in AttestIn : Add(t, {s})
  \/ \E t \in Task : Add(t, {})
  \/ \E t \in Task : Remembered(t) \/ RememberFails(t)
  \/ \E t \in Task, answered \in BOOLEAN : Attested(t, answered)
  \/ \E t \in Task : AttestationFails(t) \/ RetryAttestation(t)
  \/ OtherCall

-----------------------------------------------------------------------------
AddStage == {"none", "writing", "attesting", "done", "write_error", "attestation_error"}
Maybe(S) == {{}} \cup {{x} : x \in S}

MemoryTypeOK ==
  /\ adds \in [Task -> [stage : AddStage, session : Maybe(Session),
                        lost : BOOLEAN, retried : BOOLEAN]]
  /\ blobs \subseteq Task
  /\ events \in Seq([tool : {MEMORY_TOOL, OTHER_TOOL}, session : Session, blob : Maybe(Task)])

\* What the answer of add says is so (memory.ts 170-215): a stored memory was stored, an
\* attested one has its call, of the session asked for; after MemoryAttestationError it
\* has none, unless an answer was lost, and only then may a retry attest it twice.
AnswersAreTrue ==
  \A t \in Task :
    /\ CallsOf(t) # {} => t \in blobs
    /\ \A i \in CallsOf(t) : adds[t].session = {events[i].session}
    /\ adds[t].stage \in {"done", "attesting", "attestation_error"} => t \in blobs
    /\ adds[t].stage = "done" /\ adds[t].session # {} => CallsOf(t) # {}
    /\ ~adds[t].lost => \A i, j \in CallsOf(t) : i = j
    /\ ~adds[t].lost /\ adds[t].stage # "done" => CallsOf(t) = {}
=============================================================================
