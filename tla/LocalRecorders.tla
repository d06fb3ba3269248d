---------------------------- MODULE LocalRecorders ----------------------------
(*****************************************************************************)
(* The recorders of one machine, under the same runtime controls: the hook   *)
(* scripts of Claude Code or Codex, or the in-process recorder of OpenClaw   *)
(* or of the SDK's providers.  Which host runs is chosen at the start; edits *)
(* of its controls come from other processes at any moment.                  *)
(*****************************************************************************)
EXTENDS Hooks, InProcess

CONSTANT HostPatch    \* bound: the changes made to the host's controls

ASSUME HostPatchIsPatch == HostPatch \subseteq Patch

vars == <<recorderVars, controlVars, captureVars, hookVars, provisioningVars, inProcessVars>>

Init ==
  /\ RecorderInit
  /\ ControlsInit
  /\ CaptureInit
  /\ HooksInit
  /\ ProvisioningInit
  /\ InProcessInit

EditControls ==
  /\ \/ \E e \in Edit, w \in Process, patch \in HostPatch : BeginEdit(e, w, host, patch)
     \/ \E e \in Edit : CommitEdit(e) \/ FailEdit(e)
     \/ BreakFile
  /\ UNCHANGED <<recorderVars, captureVars, hookVars, provisioningVars, inProcessVars>>

HooksOfHost == (Claude \/ Codex) /\ HookStep /\ UNCHANGED <<provisioningVars, inProcessVars>>
InProcessOfHost == (OpenClaw \/ Sdk) /\ InProcessStep /\ UNCHANGED hookVars

Next == EditControls \/ HooksOfHost \/ InProcessOfHost

Spec == Init /\ [][Next]_vars

-----------------------------------------------------------------------------
\* Types of the session files, the hooks and the in-process recorders; the file's
\* lines and the calls in memory are calls captured before.
LocalTypeOK ==
  /\ host \in Host
  /\ captured \in 0..MaxCalls[host]
  /\ discarded \subseteq 1..captured
  /\ atRisk \subseteq (1..captured) \X Reason
  /\ state \subseteq Run \cup {"armed"}
  /\ buffer \in [calls : Seq(1..captured), bad : BOOLEAN, cut : BOOLEAN]
  /\ observing \subseteq 1..captured
  /\ inject \subseteq Run
  /\ unconfirmed \subseteq Run
  /\ kept \in [Slot -> Seq(1..captured)]
  /\ clientReady \subseteq Proc
  /\ memo \in [Proc -> {{}} \cup {{a} : a \in Attempt}]
  /\ run \in [Run -> RunState]
  /\ DOMAIN onchain \subseteq Run
  /\ \A p \in DOMAIN onchain : onchain[p] \in SessionState
  /\ faults \in 0..MaxFaults
  /\ ControlsTypeOK
  /\ ProvisioningTypeOK

\* Where a call that is not on chain may be: with a hook, in the buffer, in memory
\* or in the hands of a summary or a flush under way.
UnderWay(c) ==
  \/ c \in observing
  \/ c \in BufferedCalls
  \/ summary.stage \in {"client", "append", "close"} /\ c \in Elements(summary.calls)
  \/ \E k \in Slot : c \in Elements(kept[k])
  \/ \E f \in Run : flush[f].stage \notin {"done", "dead"} /\ c \in Elements(flush[f].calls)

\* The reasons for which each recorder may lose a call it captured: Claude Code and
\* Codex one appended while a summary ran, or not whole, or beside such a line; all but Codex,
\* which keeps its buffer until the CLI reports success, also one whose flush
\* failed or was killed (summarize.js 30-63 and 41-85, onemem-trace.ts 137-181,
\* runtime.ts 369-396); the SDK's providers also the tool calls of a run that threw
\* before its agent_end (provider-openai-agents index.ts 51-60 and 112-125).
MayBeLostTo ==
  CASE Claude -> {"overlap", "torn", "abandoned"}
    [] Codex -> {"overlap", "torn"}
    [] Sdk -> {"abandoned", "errored"}
    [] OTHER -> {"abandoned"}

\* A captured call ends on chain, unless the controls had it discarded or one of
\* its recorder's hazards struck it: nothing else, in any order of hooks, runs of
\* agents, edits, failures and kills, makes a call disappear.
LossHasCause ==
  \A c \in 1..captured :
    \/ UnderWay(c)
    \/ OnChain(c)
    \/ c \in discarded
    \/ \E r \in MayBeLostTo : <<c, r>> \in atRisk

\* A call is in two sessions only when Codex retried a run of the CLI it had not
\* seen succeed; Claude Code and the in-process recorders, which take a call out
\* of the buffer before they write it, never record it twice.
RecordedOnce ==
  \A p, q \in Run : \A c \in 1..captured :
    Holds(p, c) /\ Holds(q, c) /\ p # q => Codex /\ (p \in unconfirmed \/ q \in unconfirmed)
=============================================================================
