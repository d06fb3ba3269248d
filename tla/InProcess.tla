------------------------------ MODULE InProcess ------------------------------
(*****************************************************************************)
(* Recorders that live in the host's own process: TraceRecorder of           *)
(* plugin-openclaw, and createTraceRecorder of sdk-ts (runtime.ts) under     *)
(* provider-openai-agents and provider-vercel-ai (host "sdk").               *)
(*                                                                           *)
(* Calls are kept in memory, apart for each run of an agent, until the agent *)
(* ends; every flush then resolves the client and the target, both           *)
(* remembered for the process, and records one session (Recorder).  Each     *)
(* await is a step of its own.                                               *)
(*****************************************************************************)
EXTENDS HostCapture, Provisioning

CONSTANTS
  HostProc,       \* bound: the processes that run each host
  Context         \* RunContexts of the OpenAI provider, session keys of OpenClaw

ASSUME HostProcIsProc == HostProc \in [Host -> SUBSET Proc]
ASSUME ContextsExist == Context # {}

VARIABLES
  kept,           \* calls each process has in memory, for each context
  clientReady,    \* processes that have created their client
  memo,           \* targetPromise: {} or the attempt it stands for
  flush           \* the state of each flush; flushes and runs have the same names

inProcessVars == <<kept, clientReady, memo, flush>>

Slot == Proc \X Context

OpenClaw == host = "openclaw"
Sdk == host = "sdk"

NoFlush == [stage |-> "none", proc |-> {}, calls |-> <<>>, attempt |-> {}]

-----------------------------------------------------------------------------
InProcessInit ==
  /\ kept = [k \in Slot |-> <<>>]
  /\ clientReady = {}
  /\ memo = [w \in Proc |-> {}]
  /\ flush = [f \in Run |-> NoFlush]

Keep(w, x) ==
  /\ captured < MaxCalls[host]
  /\ w \in HostProc[host]
  /\ captured' = captured + 1
  /\ kept' = [kept EXCEPT ![<<w, x>>] = Append(@, captured + 1)]
  /\ UNCHANGED <<recorderVars, controlVars, provisioningVars, host, discarded, atRisk, clientReady,
                 memo, flush>>

\* after_tool_call, and llm_output unless it has none: only while tracing is on.
RecordOpenClaw(w, x) == OpenClaw /\ Tracing(host) /\ Keep(w, x)

\* agent_tool_start, into the buffer of the run's RunContext: the controls are looked
\* at when the agent ends.
ToolStarts(w, x) == Sdk /\ Keep(w, x)

\* A flush of calls begins, if the controls let it: record of createTraceRecorder, and
\* end of plugin-openclaw.
Takes(f, w, calls) ==
  /\ calls # <<>>
  /\ flush[f].stage = "none"
  /\ IF Tracing(host)
     THEN /\ flush' = [flush EXCEPT ![f] = [stage |-> "client", proc |-> {w},
                                            calls |-> calls, attempt |-> {}]]
          /\ UNCHANGED discarded
     ELSE discarded' = discarded \cup Elements(calls) /\ UNCHANGED flush
  /\ UNCHANGED <<recorderVars, controlVars, provisioningVars, host, atRisk, clientReady, memo>>

EndOpenClaw_Retains(f, w, x) ==                                       \* mutant
  /\ OpenClaw
  /\ Takes(f, w, kept[<<w, x>>])
  /\ UNCHANGED <<captured, kept>>

\* agent_end of OpenClaw: the calls leave the buffer before anything is written.
EndOpenClaw(f, w, x) ==
  /\ OpenClaw
  /\ Takes(f, w, kept[<<w, x>>])
  /\ kept' = [kept EXCEPT ![<<w, x>>] = <<>>]
  /\ UNCHANGED captured

\* agent_end of the OpenAI provider: the tools of this run of the agent, then its response.
\* The RunContext may go on with another agent, in a new buffer.
AgentEnds(f, w, x) ==
  /\ Sdk
  /\ captured < MaxCalls[host] /\ w \in HostProc[host]
  /\ Takes(f, w, Append(kept[<<w, x>>], captured + 1))
  /\ captured' = captured + 1
  /\ kept' = [kept EXCEPT ![<<w, x>>] = <<>>]

\* A run throws before its agent_end: no event says so, and the buffer goes with the
\* RunContext, the key of the WeakMap it is in.
RunErrors(w, x) ==
  /\ Sdk
  /\ kept[<<w, x>>] # <<>>
  /\ kept' = [kept EXCEPT ![<<w, x>>] = <<>>]
  /\ MayLose(Elements(kept[<<w, x>>]), {"errored"})
  /\ UNCHANGED <<recorderVars, controlVars, provisioningVars, host, captured, discarded,
                 clientReady, memo, flush>>

\* A call of the model, by the Vercel provider, has been answered or streamed to its end:
\* a session of its own.
ModelAnswers(f, w) ==
  /\ Sdk
  /\ captured < MaxCalls[host] /\ w \in HostProc[host]
  /\ Takes(f, w, <<captured + 1>>)
  /\ captured' = captured + 1
  /\ UNCHANGED kept

GiveUp(f, stage) ==
  /\ flush' = [flush EXCEPT ![f].stage = stage]
  /\ MayLose(Elements(flush[f].calls), {"abandoned"})

\* getClient, once the signer is there.
GetClient(f, o) ==
  /\ flush[f].stage = "client"
  /\ \A w \in flush[f].proc : signer[w] # {} /\ (w \in clientReady => o = "ok")
  /\ Charge(o)
  /\ IF Throws(o) THEN GiveUp(f, "done") /\ UNCHANGED clientReady
     ELSE /\ flush' = [flush EXCEPT ![f].stage = "target"]
          /\ clientReady' = clientReady \cup flush[f].proc
          /\ UNCHANGED atRisk
  /\ UNCHANGED <<onchain, run, controlVars, provisioningVars, host, captured, discarded, kept, memo>>

\* targetPromise ??= ..., getTarget: join the attempt remembered or start one.
GetTarget_StartsOwn(f, a) ==                                        \* mutant
  /\ flush[f].stage = "target"
  /\ \E w \in flush[f].proc :
       /\ BeginAttempt(a, w)
       /\ memo' = [memo EXCEPT ![w] = @ \cup {a}]
       /\ flush' = [flush EXCEPT ![f].stage = "await", ![f].attempt = {a}]
  /\ UNCHANGED <<recorderVars, controlVars, captureVars, wallet, signer, generating, walletRaced,
                 target, capOwner, kept, clientReady>>

GetTarget(f, a) ==
  /\ flush[f].stage = "target"
  /\ \E w \in flush[f].proc :
       \/ /\ memo[w] = {}
          /\ BeginAttempt(a, w)
          /\ memo' = [memo EXCEPT ![w] = {a}]
          /\ flush' = [flush EXCEPT ![f].stage = "await", ![f].attempt = {a}]
       \/ /\ a \in memo[w]
          /\ flush' = [flush EXCEPT ![f].stage = "await", ![f].attempt = {a}]
          /\ UNCHANGED <<attempt, memo>>
  /\ UNCHANGED <<recorderVars, controlVars, captureVars, wallet, signer, generating, walletRaced,
                 target, capOwner, kept, clientReady>>

\* A null target, or a rejection: the calls are dropped and the memo is cleared, by
\* OpenClaw whatever attempt it stands for by now.
TargetFails_Keeps(f) ==                                             \* mutant
  /\ flush[f].stage = "await"
  /\ \A a \in flush[f].attempt : attempt[a].stage = "failed"
  /\ memo' = [w \in Proc |-> IF w \in flush[f].proc THEN {} ELSE memo[w]]
  /\ GiveUp(f, "done")
  /\ UNCHANGED <<recorderVars, controlVars, provisioningVars, host, captured, discarded, kept,
                 clientReady>>

TargetFails(f) ==
  /\ flush[f].stage = "await"
  /\ \A a \in flush[f].attempt : attempt[a].stage = "failed"
  /\ memo' = [w \in Proc |->
               IF w \in flush[f].proc /\ (OpenClaw \/ memo[w] = flush[f].attempt)
               THEN {} ELSE memo[w]]
  /\ GiveUp(f, "done")
  /\ UNCHANGED <<recorderVars, controlVars, provisioningVars, host, captured, discarded, kept,
                 clientReady>>

\* recordSession with the calls taken at the start of the flush.
TargetResolves(f) ==
  /\ flush[f].stage = "await"
  /\ \A a \in flush[f].attempt : attempt[a].stage = "ready"
  /\ flush' = [flush EXCEPT ![f].stage = "record"]
  /\ run' = [run EXCEPT ![f] = [Started(flush[f].calls) EXCEPT !.stage = "start"]]
  /\ UNCHANGED <<onchain, faults, controlVars, captureVars, provisioningVars, kept, clientReady,
                 memo>>

TargetOf(f) == UNION {attempt[a].result : a \in flush[f].attempt}
Authorised(f) ==
  \A w \in flush[f].proc, a \in TargetOf(f) : signer[w] # {} /\ capOwner[a] = signer[w]

\* The contract refuses every transaction of a signer that does not own the
\* capability.
RecordStep(f) ==
  /\ flush[f].stage = "record"
  /\ RunStep(f)
  /\ Authorised(f) \/ onchain' = onchain
  /\ UNCHANGED <<controlVars, captureVars, provisioningVars, inProcessVars>>

RecordReturns(f) ==
  /\ flush[f].stage = "record"
  /\ run[f].stage = "exit"
  /\ IF run[f].result = "ok"
     THEN flush' = [flush EXCEPT ![f].stage = "done"] /\ UNCHANGED atRisk
     ELSE GiveUp(f, "done")
  /\ UNCHANGED <<recorderVars, controlVars, provisioningVars, host, captured, discarded, kept,
                 clientReady, memo>>

KeptBy(w) == UNION {Elements(kept[<<w, x>>]) : x \in Context}

\* The host process is killed and may be started again: what is in memory is gone.
Crash(w) ==
  LET dying == {f \in Run : w \in flush[f].proc} IN
  /\ OpenClaw \/ Sdk
  /\ signer[w] # {} \/ w \in generating \/ KeptBy(w) # {}
  /\ Charge("lost")
  /\ kept' = [k \in Slot |-> IF k[1] = w THEN <<>> ELSE kept[k]]
  /\ clientReady' = clientReady \ {w}
  /\ memo' = [memo EXCEPT ![w] = {}]
  /\ flush' = [f \in Run |-> IF f \in dying THEN [flush[f] EXCEPT !.stage = "dead"] ELSE flush[f]]
  /\ run' = [f \in Run |-> IF f \in dying /\ run[f].stage \notin {"new", "exit"}
                           THEN [run[f] EXCEPT !.stage = "exit", !.result = "killed"] ELSE run[f]]
  /\ MayLose(KeptBy(w) \cup UNION {Elements(flush[f].calls) : f \in dying}, {"abandoned"})
  /\ signer' = [signer EXCEPT ![w] = {}]
  /\ generating' = generating \ {w}
  /\ attempt' = [a \in Attempt |-> IF w \in attempt[a].proc /\ InFlight(a)
                                   THEN [attempt[a] EXCEPT !.stage = "failed"] ELSE attempt[a]]
  /\ UNCHANGED <<onchain, controlVars, host, captured, discarded, wallet, walletRaced, target,
                 capOwner>>

NeedsSigner(w) == \E f \in Run : flush[f].stage = "client" /\ w \in flush[f].proc

InProcessStep ==
  \/ \E w \in Proc, x \in Context : RecordOpenClaw(w, x) \/ ToolStarts(w, x) \/ RunErrors(w, x)
  \/ \E w \in Proc : Crash(w)
  \/ \E f \in Run, w \in Proc, x \in Context : EndOpenClaw(f, w, x) \/ AgentEnds(f, w, x)
  \/ \E f \in Run, w \in Proc : ModelAnswers(f, w)
  \/ \E f \in Run, o \in {"ok", "refused"} : GetClient(f, o)
  \/ \E f \in Run, a \in Attempt : GetTarget(f, a)
  \/ \E f \in Run : TargetFails(f) \/ TargetResolves(f) \/ RecordStep(f) \/ RecordReturns(f)
  \/ /\ \/ \E w \in Proc : NeedsSigner(w) /\ (ReadWallet(w) \/ SaveWallet(w))
        \/ \E a \in Attempt, o \in Outcome : CreateNamespace(a, o) \/ ShareReadWrite(a, o)
        \/ \E a \in Attempt : SaveTarget(a)
     /\ UNCHANGED <<controlVars, captureVars, inProcessVars>>

-----------------------------------------------------------------------------
\* "Memoized so concurrent agent_end flushes await ONE provisioning attempt"
\* (onemem-trace.ts 91-92; runtime.ts 324-329): the attempt a process has under way
\* is the one it remembers, so it never makes two namespaces at once, and all its
\* sessions go to one namespace.  OpenClaw clears the memo without looking what it
\* stands for, and loses this once an attempt has failed.
OneAttemptAtATime ==
  \A w \in Proc :
    \/ OpenClaw /\ \E a \in Attempt : w \in attempt[a].proc /\ attempt[a].stage = "failed"
    \/ /\ \A a \in Attempt : w \in attempt[a].proc /\ InFlight(a) => memo[w] = {a}
       /\ \A f, g \in Run :
            (w \in flush[f].proc \cap flush[g].proc /\ flush[f].stage = "record"
              /\ flush[g].stage = "record")
            => TargetOf(f) = TargetOf(g)
=============================================================================
