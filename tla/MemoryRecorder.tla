---------------------------- MODULE MemoryRecorder -----------------------------
(*******************************************************************************)
(* Who writes and recalls memories: createMemoryRecorder of sdk-ts under the   *)
(* TypeScript providers ("recorder"), ProviderMemory of the Python SDK, which  *)
(* runs the onemem-memory bridge as a process for each request ("bridge"), the *)
(* commands `onemem add` and `search` ("command") and the tools of the MCP     *)
(* server ("mcp").  None of them passes a session to add.                      *)
(*                                                                             *)
(* The host is never to be broken: a recorder answers true or false, or no     *)
(* memories, whatever happens behind it.  A host that was told false may ask   *)
(* again with the same text.                                                   *)
(*******************************************************************************)
EXTENDS MemoryStore

VARIABLES
  asked,          \* the requests; a capture and its run of add have the same name
  clientPromise   \* of the recorder: "none", "creating" or "ready"

recallVars == <<asked, clientPromise>>

NotAsked == [via |-> "none", kind |-> "none", stage |-> "none", told |-> "none",
             again |-> {}, found |-> {}]

MemoryRecorderInit ==
  /\ asked = [t \in Task |-> NotAsked]
  /\ clientPromise = "none"

Told(t, answer) == [asked EXCEPT ![t].stage = "end", ![t].told = answer]
Waits(t, kind) == asked[t].stage = "client" /\ asked[t].kind = kind

-----------------------------------------------------------------------------
Asks(t, via, kind, again) ==
  /\ asked[t] = NotAsked
  /\ \A u \in again : asked[u].kind = "capture" /\ asked[u].told = "failed"
  /\ asked' = [asked EXCEPT ![t] = [NotAsked EXCEPT !.via = via, !.kind = kind,
                                                    !.stage = "client", !.again = again]]
  /\ UNCHANGED memoryVars

\* capture, or recall, up to the await of getClient.  Without a text or a configuration
\* the answer is false, or no memories, and nothing else happens.
RecorderAsks(t, kind, again) ==
  /\ Asks(t, "recorder", kind, again)
  /\ clientPromise' = IF clientPromise = "none" THEN "creating" ELSE clientPromise

\* ProviderMemory and MemoryClient, up to subprocess.run.
PythonAsks(t, kind, again) == Asks(t, "bridge", kind, again) /\ UNCHANGED clientPromise

\* Each command makes a client of its own; the server of the tools has one since its start.
CommandAsks(t, kind, again) == Asks(t, "command", kind, again) /\ UNCHANGED clientPromise
ToolAsks(t, kind, again) == Asks(t, "mcp", kind, again) /\ UNCHANGED clientPromise

ClientCreated ==
  /\ clientPromise = "creating"
  /\ clientPromise' = "ready"
  /\ UNCHANGED <<memoryVars, asked>>

\* The rejection clears the promise before those that await it go on.
ClientFails_KeepsPromise ==                                         \* mutant
  /\ clientPromise = "creating"
  /\ clientPromise' = "none"
  /\ UNCHANGED <<memoryVars, asked>>

ClientFails ==
  /\ clientPromise = "creating"
  /\ clientPromise' = "none"
  /\ asked' = [t \in Task |-> IF asked[t].stage = "client" /\ asked[t].via = "recorder"
                              THEN [asked[t] EXCEPT !.stage = "end", !.told = "failed"]
                              ELSE asked[t]]
  /\ UNCHANGED memoryVars

ClientReady(t) == asked[t].via = "recorder" => clientPromise = "ready"

AddsMemory(t) ==
  /\ Waits(t, "capture")
  /\ ClientReady(t)
  /\ Add(t, {})
  /\ asked' = [asked EXCEPT ![t].stage = "add"]
  /\ UNCHANGED clientPromise

\* The bridge or the command ends before it has asked for anything: no configuration, no
\* client, or no process at all.
EndsEarly(t) ==
  /\ asked[t].stage = "client" /\ asked[t].via \in {"bridge", "command"} /\ asked[t].told = "none"
  /\ asked' = Told(t, "failed")
  /\ UNCHANGED <<memoryVars, clientPromise>>

\* add returns, or throws; a bridge that was given up on has nobody to tell.
AddEnds(t) ==
  /\ asked[t].stage = "add"
  /\ adds[t].stage \in {"done", "write_error"}
  /\ asked' = Told(t, IF asked[t].told = "none" /\ adds[t].stage = "done" THEN "ok" ELSE "failed")
  /\ UNCHANGED <<memoryVars, clientPromise>>

\* _run: 600 s are over, and the node process npx started goes on; or the bridge's last
\* line is no answer.
BridgeGivenUp(t) ==
  /\ asked[t].via = "bridge" /\ asked[t].kind = "capture"
  /\ asked[t].stage \in {"client", "add"} /\ asked[t].told = "none"
  /\ asked' = [asked EXCEPT ![t].told = "failed"]
  /\ UNCHANGED <<memoryVars, clientPromise>>

\* search: of the hits, those that come with their text.
RecallAnswers(t) ==
  /\ Waits(t, "recall")
  /\ ClientReady(t)
  /\ \E hits \in SUBSET blobs : asked' = [Told(t, "ok") EXCEPT ![t].found = hits]
  /\ UNCHANGED <<memoryVars, clientPromise>>

RecallFails(t) ==
  /\ Waits(t, "recall")
  /\ ClientReady(t)
  /\ asked' = Told(t, "failed")
  /\ UNCHANGED <<memoryVars, clientPromise>>

\* A recall, a new text, or one that a host was told had not been captured.
Question == {<<"recall", {}>>} \cup {<<"capture", u>> : u \in Maybe(Task)}

RecorderStep ==
  \/ \E t \in Task, question \in Question :
       LET kind == question[1]  again == question[2] IN
       \/ RecorderAsks(t, kind, again) \/ PythonAsks(t, kind, again)
       \/ CommandAsks(t, kind, again) \/ ToolAsks(t, kind, again)
  \/ ClientCreated
  \/ ClientFails
  \/ \E t \in Task : AddsMemory(t) \/ EndsEarly(t) \/ AddEnds(t) \/ BridgeGivenUp(t)
  \/ \E t \in Task : RecallAnswers(t) \/ RecallFails(t)
  \/ \E t \in Task : (Remembered(t) \/ RememberFails(t)) /\ UNCHANGED recallVars

-----------------------------------------------------------------------------
Asked ==
  [via : {"recorder", "bridge", "command", "mcp"}, kind : {"capture", "recall"},
   stage : {"client", "add", "end"}, told : {"none", "ok", "failed"},
   again : Maybe(Task), found : SUBSET Task]

MemoryRecorderTypeOK ==
  /\ asked \in [Task -> Asked \cup {NotAsked}]
  /\ clientPromise \in {"none", "creating", "ready"}

\* A memory is reported as captured only if it is stored, and nothing that is captured or
\* recalled is attested; a text is stored a second time only by a host that was told false
\* because MemWal's answer, or the bridge's, was lost (runtime-memory.ts 103-114,
\* provider_memory.py 58-70).
CapturesAreTrue ==
  \A t \in Task :
    /\ asked[t].kind = "capture" /\ asked[t].told = "ok" => t \in blobs
    /\ asked[t].found \subseteq blobs
    /\ asked[t].kind # "none" => CallsOf(t) = {}
    /\ t \in blobs => \A u \in asked[t].again \cap blobs :
                        adds[u].stage = "write_error" \/ asked[u].via = "bridge"

\* Concurrent requests share the creation of one client, and when it fails all of them
\* are answered and the next request tries again (runtime-memory.ts 80-90).
NobodyWaitsForNothing ==
  \A t \in Task :
    asked[t].stage = "client" /\ asked[t].via = "recorder" => clientPromise # "none"
=============================================================================
