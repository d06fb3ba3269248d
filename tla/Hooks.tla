-------------------------------- MODULE Hooks --------------------------------
(*****************************************************************************)
(* The hook scripts of plugin-claude-code and plugin-codex for one session   *)
(* of the host.  Every hook is a process of its own; the scripts share a     *)
(* state file (a session is being recorded) and a buffer file (its tool      *)
(* calls), and no lock.                                                      *)
(*                                                                           *)
(* Claude Code: SessionStart opens the TraceSession on chain, SessionEnd     *)
(* writes the buffered calls into it and seals it.  Codex: SessionStart only *)
(* arms the session, Stop hands the buffer to the onemem-trace CLI, which    *)
(* opens a TraceSession of its own (Recorder).  A host runs one hook of each *)
(* of these two kinds at a time; PostToolUse hooks overlap with everything.  *)
(*****************************************************************************)
EXTENDS HostCapture

VARIABLES
  state,          \* the state file: {}, or what it names
  buffer,         \* the buffer file
  observing,      \* calls whose PostToolUse hook has passed its checks
  inject,         \* the session a SessionStart hook is about to open or to save
  summary,        \* the SessionEnd or Stop hook
  unconfirmed     \* runs of the CLI whose Stop hook did not see them succeed

hookVars == <<state, buffer, observing, inject, summary, unconfirmed>>

Claude == host = "claude-code"
Codex == host = "codex"

NoSummary == [stage |-> "none"]

\* The buffer file: the calls of its lines that parse, whether there are lines that do
\* not, and whether the last line has no end yet.
NoBuffer == [calls |-> <<>>, bad |-> FALSE, cut |-> FALSE]

\* readBufferedToolCalls: Claude Code's skips bad lines, Codex's gives up on all.
ClaudeReadable == buffer.calls
CodexReadable == IF buffer.bad THEN <<>> ELSE buffer.calls

BufferedCalls == Elements(buffer.calls)

-----------------------------------------------------------------------------
HooksInit ==
  /\ state = {}
  /\ buffer = NoBuffer
  /\ observing = {}
  /\ inject = {}
  /\ summary = NoSummary
  /\ unconfirmed = {}

\* inject.js of Codex.
Arm ==
  /\ Codex
  /\ Tracing(host)
  /\ state' = {"armed"}
  /\ UNCHANGED <<recorderVars, controlVars, captureVars, buffer, observing, inject, summary,
                 unconfirmed>>

\* inject.js of Claude Code, up to startSession.
InjectBegins(p) ==
  /\ Claude
  /\ inject = {}
  /\ Tracing(host)
  /\ p \notin DOMAIN onchain
  /\ inject' = {p}
  /\ UNCHANGED <<recorderVars, controlVars, captureVars, state, buffer, observing, summary,
                 unconfirmed>>

InjectOpens(p, o) ==
  /\ p \in inject
  /\ p \notin DOMAIN onchain
  /\ Charge(o)
  /\ onchain' = IF Executed(o)
                THEN Put(onchain, p, [calls |-> <<>>, closed |-> {}, status |-> "Active"])
                ELSE onchain
  /\ inject' = IF Throws(o) THEN {} ELSE inject
  /\ UNCHANGED <<run, controlVars, captureVars, state, buffer, observing, summary, unconfirmed>>

\* writeSessionState: on resume it overwrites the state of the session before.
InjectSaves(p) ==
  /\ p \in inject
  /\ p \in DOMAIN onchain
  /\ state' = {p}
  /\ inject' = {}
  /\ UNCHANGED <<recorderVars, controlVars, captureVars, buffer, observing, summary, unconfirmed>>

-----------------------------------------------------------------------------
\* observe.js: the state file and the controls are read ...
Observe ==
  /\ captured < MaxCalls[host]
  /\ state # {}
  /\ Tracing(host)
  /\ captured' = captured + 1
  /\ observing' = observing \cup {captured + 1}
  /\ UNCHANGED <<recorderVars, controlVars, host, discarded, atRisk, state, buffer, inject,
                 summary, unconfirmed>>

ClaudeObserves == Claude /\ Observe
CodexObserves == Codex /\ Observe

\* ... and then the call is appended.  The append may fail with nothing written, or be cut
\* short: a line without an end, which the next call is appended to.
ObserveAppends(c, o) ==
  /\ c \in observing
  /\ observing' = observing \ {c}
  /\ Charge(o)
  /\ LET torn == buffer.cut \/ o # "ok" IN
     /\ buffer' = IF o = "refused" THEN buffer
                  ELSE [calls |-> IF torn THEN buffer.calls ELSE Append(buffer.calls, c),
                        bad |-> buffer.bad \/ torn, cut |-> o = "lost"]
     /\ MayLose({c}, {r \in Reason : \/ r = "torn" /\ torn
                                     \/ r = "overlap" /\ summary.stage # "none"})
  /\ UNCHANGED <<onchain, run, controlVars, host, captured, discarded, state, inject, summary,
                 unconfirmed>>

-----------------------------------------------------------------------------
ForgetSession ==
  /\ buffer' = NoBuffer
  /\ state' = {}

EndSummary == summary' = NoSummary

\* summarize.js reads both files, and then awaits the controls.
ClaudeSummaryReads ==
  /\ Claude
  /\ summary.stage = "none"
  /\ \E p \in state :
       summary' = [stage |-> "controls", session |-> p, calls |-> ClaudeReadable, done |-> 0]
  /\ UNCHANGED <<recorderVars, controlVars, captureVars, state, buffer, observing, inject,
                 unconfirmed>>

StopReads ==
  /\ Codex
  /\ summary.stage = "none"
  /\ state # {}
  /\ summary' = [stage |-> "controls", calls |-> CodexReadable]
  /\ UNCHANGED <<recorderVars, controlVars, captureVars, state, buffer, observing, inject,
                 unconfirmed>>

\* Tracing has been turned off meanwhile: the calls are thrown away, and a TraceSession
\* of Claude Code stays Active.
SummaryDisabled ==
  /\ summary.stage = "controls"
  /\ ~Tracing(host)
  /\ ForgetSession
  /\ EndSummary
  /\ discarded' = discarded \cup BufferedCalls
  /\ UNCHANGED <<recorderVars, controlVars, host, captured, atRisk, observing, inject,
                 unconfirmed>>

ClaudeSummaryDisabled == Claude /\ SummaryDisabled
StopDisabled == Codex /\ SummaryDisabled

\* Claude Code deletes the buffer once the client is loaded.
ClaudeSummaryBegins ==
  /\ Claude
  /\ summary.stage = "controls"
  /\ Tracing(host)
  /\ summary' = [summary EXCEPT !.stage = "client"]
  /\ UNCHANGED <<recorderVars, controlVars, captureVars, state, buffer, observing, inject,
                 unconfirmed>>

ClaudeDrains_BeforeClient(o) ==                                     \* mutant
  /\ Claude
  /\ summary.stage = "client"
  /\ Charge(o)
  /\ buffer' = NoBuffer
  /\ IF Throws(o) THEN EndSummary
     ELSE summary' = [summary EXCEPT !.stage = StageAfter(summary.calls, 0)]
  /\ UNCHANGED <<onchain, run, controlVars, captureVars, state, observing, inject, unconfirmed>>

ClaudeDrains(o) ==
  /\ Claude
  /\ summary.stage = "client"
  /\ Charge(o)
  /\ IF Throws(o) THEN EndSummary /\ buffer' = buffer
     ELSE /\ summary' = [summary EXCEPT !.stage = StageAfter(summary.calls, 0)]
          /\ buffer' = NoBuffer
  /\ UNCHANGED <<onchain, run, controlVars, captureVars, state, observing, inject, unconfirmed>>

\* A session sealed by an earlier summary refuses the call: no effect, and it throws.
Settles(o) == IF onchain[summary.session].status = "Active" THEN Charge(o)
              ELSE o = "refused" /\ faults' = faults

Abandon == EndSummary /\ MayLose(Elements(summary.calls), {"abandoned"})

ClaudeAppends(o) ==
  /\ Claude
  /\ summary.stage = "append"
  /\ Settles(o)
  /\ onchain' = IF Executed(o)
                THEN [onchain EXCEPT ![summary.session].calls =
                        Append(@, summary.calls[summary.done + 1])]
                ELSE onchain
  /\ IF Throws(o) THEN Abandon
     ELSE summary' = [summary EXCEPT !.stage = "close"] /\ UNCHANGED atRisk
  /\ UNCHANGED <<run, controlVars, host, captured, discarded, state, buffer, observing, inject,
                 unconfirmed>>

ClaudeCloses(o) ==
  /\ Claude
  /\ summary.stage = "close"
  /\ Charge(o)
  /\ LET i == summary.done + 1 IN
     /\ onchain' = IF Executed(o)
                   THEN [onchain EXCEPT ![summary.session].closed =
                           @ \cup {Len(onchain[summary.session].calls)}]
                   ELSE onchain
     /\ IF Throws(o) THEN Abandon
        ELSE /\ summary' = [summary EXCEPT !.stage = StageAfter(summary.calls, i), !.done = i]
             /\ UNCHANGED atRisk
  /\ UNCHANGED <<run, controlVars, host, captured, discarded, state, buffer, observing, inject,
                 unconfirmed>>

\* endSession.  The state file stays: it names a sealed session until the next
\* SessionStart succeeds.
ClaudeEnds(o) ==
  /\ Claude
  /\ summary.stage = "end"
  /\ Settles(o)
  /\ onchain' = IF Executed(o) THEN [onchain EXCEPT ![summary.session].status = "Completed"]
                ELSE onchain
  /\ EndSummary
  /\ UNCHANGED <<run, controlVars, captureVars, state, buffer, observing, inject, unconfirmed>>

-----------------------------------------------------------------------------
\* summarize.js of Codex with nothing to flush: both files are removed.
StopEmpty ==
  /\ Codex
  /\ summary.stage = "controls"
  /\ Tracing(host)
  /\ summary.calls = <<>>
  /\ ForgetSession
  /\ EndSummary
  /\ MayLose(IF buffer.bad THEN BufferedCalls ELSE {}, {"torn"})
  /\ UNCHANGED <<recorderVars, controlVars, host, captured, discarded, observing, inject,
                 unconfirmed>>

\* The payload file holds the calls read; the CLI is started on it.
StopBegins(p) ==
  /\ Codex
  /\ summary.stage = "controls"
  /\ Tracing(host)
  /\ summary.calls # <<>>
  /\ run[p].stage = "new"
  /\ run' = [run EXCEPT ![p] = Started(summary.calls)]
  /\ summary' = [stage |-> "cli", session |-> p]
  /\ UNCHANGED <<onchain, faults, controlVars, captureVars, state, buffer, observing, inject,
                 unconfirmed>>

\* onemem-trace checks the controls itself; "skipped" is exit status 0 too.
CliStep ==
  /\ Codex
  /\ \E p \in Run :
       /\ RunStep(p)
       /\ run[p].stage = "controls" /\ run'[p].result # "error"
          => (run'[p].result = "skipped" <=> ~Tracing(host))
  /\ UNCHANGED <<controlVars, captureVars, hookVars>>

\* Status 0 removes both files, with the lines appended since the calls were read.
StopReturns ==
  /\ Codex
  /\ summary.stage = "cli"
  /\ run[summary.session].stage = "exit"
  /\ CASE run[summary.session].result = "ok" ->
            ForgetSession /\ UNCHANGED <<discarded, unconfirmed>>
       [] run[summary.session].result = "skipped" ->
            ForgetSession /\ discarded' = discarded \cup BufferedCalls /\ UNCHANGED unconfirmed
       [] OTHER ->
            /\ unconfirmed' = unconfirmed \cup {summary.session}
            /\ UNCHANGED <<state, buffer, discarded>>
  /\ EndSummary
  /\ UNCHANGED <<recorderVars, controlVars, host, captured, atRisk, observing, inject>>

\* The host kills a hook that takes too long (30 s, 120 s), or Codex's own limit of
\* 115 s kills npx, whose node process dies with it or goes on recording.
InjectKilled ==
  /\ inject # {}
  /\ inject' = {}
  /\ Charge("lost")
  /\ UNCHANGED <<onchain, run, controlVars, captureVars, state, buffer, observing, summary,
                 unconfirmed>>

SummaryKilled ==
  /\ summary.stage # "none"
  /\ EndSummary
  /\ Charge("lost")
  /\ IF summary.stage = "cli"
     THEN /\ unconfirmed' = unconfirmed \cup {summary.session}
          /\ \/ run' = run
             \/ run[summary.session].stage # "exit" /\ Exit(summary.session, "killed")
     ELSE UNCHANGED <<run, unconfirmed>>
  /\ IF summary.stage \in {"append", "close", "end"}
     THEN MayLose(Elements(summary.calls), {"abandoned"})
     ELSE UNCHANGED atRisk
  /\ UNCHANGED <<onchain, controlVars, host, captured, discarded, state, buffer, observing,
                 inject>>

HookStep ==
  \/ Arm
  \/ \E p \in Run : InjectBegins(p) \/ InjectSaves(p) \/ StopBegins(p)
  \/ \E p \in Run, o \in Outcome : InjectOpens(p, o)
  \/ ClaudeObserves \/ CodexObserves
  \/ \E c \in observing, o \in Outcome : ObserveAppends(c, o)
  \/ ClaudeSummaryReads \/ ClaudeSummaryDisabled \/ ClaudeSummaryBegins
  \/ \E o \in {"ok", "refused"} : ClaudeDrains(o)
  \/ \E o \in Outcome : ClaudeAppends(o)
  \/ \E o \in SilentOutcome : ClaudeCloses(o) \/ ClaudeEnds(o)
  \/ StopReads \/ StopDisabled \/ StopEmpty \/ CliStep \/ StopReturns
  \/ InjectKilled \/ SummaryKilled
=============================================================================
