----------------------------- MODULE TraceFlush -----------------------------
(*****************************************************************************)
(* The Python tracers: OneMemTracer of provider-livekit, -crewai and         *)
(* -elevenlabs, and the buffer of one session of plugin-hermes.              *)
(*                                                                           *)
(* Callbacks append calls to a buffer.  flush dumps the buffer to a file,    *)
(* runs the onemem-trace CLI on it for at most 600 s, and empties the buffer *)
(* when the CLI reports success.  Nothing locks the buffer: callbacks and    *)
(* further flushes (the thread started at session end, the host's own call)  *)
(* go on meanwhile, and json.dump iterates the list itself, call by call.    *)
(* The tracers empty that list (clear); Hermes drops it for a new one (pop). *)
(* Calls are numbered in the order they are captured.                        *)
(*****************************************************************************)
EXTENDS Recorder, Functions

CONSTANTS
  Flusher,        \* threads that call flush
  MaxCalls        \* bound: calls captured

ASSUME CallsAreBounded == MaxCalls \in Nat

VARIABLES
  hermes,         \* whether this is plugin-hermes: its flush pops the buffer
  captured,       \* number of calls captured
  buffer,         \* self._calls; the list under the session's key of self._buffers
  waiting,        \* the run each flusher dumps for or waits for, or {}
  file,           \* what the dump for each run has written
  popped,         \* the list a dump goes on over when a flush has popped it, or <<>>
  cut,            \* runs whose list was emptied under their dump
  confirmed,      \* runs for which a flush returned a session id
  skipped,        \* calls discarded because runtime controls skip the trace
  exposed,        \* calls captured while a flush was under way
  concurrent,     \* pairs of runs of flushes under way at the same time
  poison,         \* calls that hold a value json.dump raises on
  exited          \* the host's interpreter has exited

captureVars == <<hermes, captured, exposed, poison>>
dumpVars == <<file, popped, cut>>
flushVars == <<captureVars, buffer, waiting, dumpVars, confirmed, skipped, concurrent, exited>>
vars == <<recorderVars, flushVars>>

\* Runs of flushes under way; of those, the ones that are still dumping.
Awaited == UNION {waiting[f] : f \in Flusher}
Dumping == {p \in Awaited : run[p].stage = "new"}

-----------------------------------------------------------------------------
Init ==
  /\ RecorderInit
  /\ hermes \in BOOLEAN
  /\ captured = 0
  /\ buffer = <<>>
  /\ waiting = [f \in Flusher |-> {}]
  /\ file = [p \in Run |-> <<>>]
  /\ popped = [p \in Run |-> <<>>]
  /\ cut = {}
  /\ confirmed = {}
  /\ skipped = {}
  /\ exposed = {}
  /\ concurrent = {}
  /\ poison = {}
  /\ exited = FALSE

\* What a callback is given: text or the like, an object of the framework, or a list
\* or dict that holds such an object.  _safe makes a string of an object, but passes
\* lists and dicts through.
Value == {"plain", "object", "nested"}
Safe(v) == IF v = "object" THEN "plain" ELSE v

\* One event appends the calls of vals, in order.
Captured(vals) ==
  LET n == Len(vals) IN
  /\ ~exited
  /\ captured + n <= MaxCalls
  /\ captured' = captured + n
  /\ buffer' = buffer \o [i \in 1..n |-> captured + i]
  /\ exposed' = IF Awaited = {} THEN exposed ELSE exposed \cup {captured + i : i \in 1..n}
  /\ poison' = poison \cup {captured + i : i \in {j \in 1..n : vals[j] # "plain"}}
  /\ UNCHANGED <<recorderVars, hermes, waiting, dumpVars, confirmed, skipped, concurrent, exited>>

\* CrewAI: the callbacks of a step and of a task.
Step(v) == Captured(<<Safe(v)>>)

\* Hermes: a turn, a memory write, a delegation, kept as it is.
HermesRecord(v) == Captured(<<v>>)

\* LiveKit: an item of the conversation.
OnItem(v) == Captured(<<Safe(v)>>)

\* LiveKit: tool calls, of which some may have no output.  Without outputs all are kept;
\* with fewer outputs than calls, the calls left over are not.
OnTools(calls, outputs) ==
  Captured([i \in 1..(IF outputs = 0 \/ outputs > calls THEN calls ELSE outputs) |-> "plain"])

\* ElevenLabs: what the user or the agent said, always text; then the user's callback.
OnTranscript == Captured(<<"plain">>)

\* ElevenLabs: a tool's handler has returned or raised; its parameters are recorded
\* either way.
HandlerEnds(v) == Captured(<<Safe(v)>>)

Capture ==
  \/ hermes /\ \E v \in Value : HermesRecord(v)
  \/ /\ ~hermes
     /\ \/ \E v \in Value : Step(v) \/ OnItem(v) \/ HandlerEnds(v)
        \/ OnTranscript
        \/ \E calls, outputs \in 0..MaxCalls : calls > 0 /\ OnTools(calls, outputs)

BeginFlush_Joins(f, p) ==                                           \* mutant
  /\ ~exited
  /\ waiting[f] = {}
  /\ buffer # <<>>
  /\ waiting' = [waiting EXCEPT ![f] = {p}]
  /\ concurrent' = concurrent \cup {{p, q} : q \in Awaited}
  /\ UNCHANGED <<recorderVars, captureVars, buffer, dumpVars, confirmed, skipped, exited>>

\* flush finds calls in the buffer; its payload holds the list, not a copy of it.
BeginFlush(f, p) ==
  /\ ~exited
  /\ waiting[f] = {}
  /\ buffer # <<>>
  /\ run[p].stage = "new" /\ p \notin Awaited
  /\ waiting' = [waiting EXCEPT ![f] = {p}]
  /\ concurrent' = concurrent \cup {{p, q} : q \in Awaited}
  /\ UNCHANGED <<recorderVars, captureVars, buffer, dumpVars, confirmed, skipped, exited>>

\* The list that the dump for p iterates, and the index it has come to.
ListOf(p) == IF popped[p] = <<>> THEN buffer ELSE popped[p]
Index(p) == Len(file[p]) + 1

\* json.dump writes the next call of the list, as the list is now.
DumpCall(p) ==
  /\ Index(p) \in DOMAIN ListOf(p)
  /\ ListOf(p)[Index(p)] \notin poison
  /\ file' = [file EXCEPT ![p] = Append(@, ListOf(p)[Index(p)])]
  /\ UNCHANGED <<recorderVars, captureVars, buffer, waiting, popped, cut, confirmed, skipped,
                 concurrent, exited>>

\* A value json cannot dump raises: flush returns, and no run is started.
DumpRaises(f, p) ==
  /\ Index(p) \in DOMAIN ListOf(p)
  /\ ListOf(p)[Index(p)] \in poison
  /\ waiting' = [waiting EXCEPT ![f] = {}]
  /\ file' = [file EXCEPT ![p] = <<>>]
  /\ popped' = [popped EXCEPT ![p] = <<>>]
  /\ cut' = cut \ {p}
  /\ concurrent' = {pair \in concurrent : p \notin pair}
  /\ UNCHANGED <<recorderVars, captureVars, buffer, confirmed, skipped, exited>>

\* The list ends at the index the dump has come to: subprocess.run, with what was written.
StartCli(p) ==
  /\ Index(p) > Len(ListOf(p))
  /\ run' = [run EXCEPT ![p] = Started(file[p])]
  /\ file' = [file EXCEPT ![p] = <<>>]
  /\ popped' = [popped EXCEPT ![p] = <<>>]
  /\ UNCHANGED <<onchain, faults, captureVars, buffer, waiting, cut, confirmed, skipped,
                 concurrent, exited>>

Dump(f) == \E p \in waiting[f] \cap Dumping : DumpCall(p) \/ DumpRaises(f, p) \/ StartCli(p)

CliStep ==
  /\ \E p \in Run : RunStep(p)
  /\ UNCHANGED flushVars

Retain(f) ==
  /\ waiting' = [waiting EXCEPT ![f] = {}]
  /\ UNCHANGED <<captureVars, buffer, dumpVars, confirmed, skipped, concurrent, exited>>

\* The calls go out of the buffer.  clear does it to the list that dumps under way are
\* iterating; pop leaves them that list as it was.
Emptied_InPlace ==                                                  \* mutant
  /\ buffer' = <<>>
  /\ cut' = IF hermes THEN cut ELSE cut \cup Dumping
  /\ UNCHANGED <<file, popped>>

Emptied ==
  /\ buffer' = <<>>
  /\ cut' = IF hermes THEN cut ELSE cut \cup Dumping
  /\ popped' = IF hermes THEN [p \in Run |-> IF p \in Dumping THEN ListOf(p) ELSE popped[p]]
               ELSE popped
  /\ file' = file

\* A non-zero exit keeps the buffer for a later flush.
FlushFailed_Clears(f, p) ==                                         \* mutant
  /\ run[p].result = "error"
  /\ waiting' = [waiting EXCEPT ![f] = {}]
  /\ Emptied
  /\ UNCHANGED <<recorderVars, captureVars, confirmed, skipped, concurrent, exited>>

FlushFailed(f, p) ==
  /\ run[p].result = "error"
  /\ Retain(f)
  /\ UNCHANGED recorderVars

\* Exit 0, but the last line of stdout is no answer.
FlushUnparsed(f, p) ==
  /\ run[p].result \in {"ok", "skipped"}
  /\ Retain(f)
  /\ Charge("lost")
  /\ UNCHANGED <<onchain, run>>

\* {"skipped": true}: what the buffer holds now is discarded.
FlushSkipped(f, p) ==
  /\ run[p].result = "skipped"
  /\ waiting' = [waiting EXCEPT ![f] = {}]
  /\ Emptied
  /\ skipped' = skipped \cup {buffer[i] : i \in DOMAIN buffer}
  /\ UNCHANGED <<recorderVars, captureVars, confirmed, concurrent, exited>>

\* A session id: the buffer is emptied, of the calls appended since the dump as well.
FlushConfirmed_Keeps(f, p) ==                                       \* mutant
  /\ run[p].result = "ok"
  /\ waiting' = [waiting EXCEPT ![f] = {}]
  /\ confirmed' = confirmed \cup {p}
  /\ UNCHANGED <<recorderVars, captureVars, buffer, dumpVars, skipped, concurrent, exited>>

FlushConfirmed(f, p) ==
  /\ run[p].result = "ok"
  /\ waiting' = [waiting EXCEPT ![f] = {}]
  /\ confirmed' = confirmed \cup {p}
  /\ Emptied
  /\ UNCHANGED <<recorderVars, captureVars, skipped, concurrent, exited>>

EndFlush(f) ==
  \E p \in waiting[f] :
    /\ run[p].stage = "exit"
    /\ FlushFailed(f, p) \/ FlushUnparsed(f, p) \/ FlushSkipped(f, p) \/ FlushConfirmed(f, p)

\* TimeoutExpired: subprocess.run kills npx; the node process npx started dies
\* with it or goes on recording.
FlushTimeout(f) ==
  \E p \in waiting[f] :
    /\ run[p].stage \notin {"new", "exit"}
    /\ Charge("lost")
    /\ Retain(f)
    /\ \/ run' = run
       \/ Exit(p, "killed")
    /\ UNCHANGED onchain

\* The host's interpreter exits.  The threads _on_close and on_end start are daemons and
\* die with it, dumping or waiting; the CLI they wait for goes on, and the buffer is gone.
HostExits ==
  /\ ~exited
  /\ exited' = TRUE
  /\ waiting' = [f \in Flusher |-> {}]
  /\ file' = [p \in Run |-> <<>>]
  /\ popped' = [p \in Run |-> <<>>]
  /\ UNCHANGED <<recorderVars, captureVars, buffer, cut, confirmed, skipped, concurrent>>

Next ==
  \/ Capture
  \/ HostExits
  \/ \E f \in Flusher, p \in Run : BeginFlush(f, p)
  \/ \E f \in Flusher : Dump(f) \/ EndFlush(f) \/ FlushTimeout(f)
  \/ CliStep

\* A run's requests settle, so its process goes on to its exit, and a flusher
\* whose CLI has exited returns.
Fairness ==
  /\ \A p \in Run : WF_vars(RunStep(p) /\ UNCHANGED flushVars)
  /\ \A f \in Flusher : WF_vars(EndFlush(f))

Spec == Init /\ [][Next]_vars /\ Fairness

-----------------------------------------------------------------------------
OnChain(c) == \E p \in DOMAIN onchain : \E i \in DOMAIN onchain[p].calls : onchain[p].calls[i] = c
Sealed(p) == p \in DOMAIN onchain /\ onchain[p].status # "Active"
Buffered(c) == \E i \in DOMAIN buffer : buffer[i] = c

\* Types of the buffer, the flushers, the dumps and the runs; a flusher is at one run,
\* no run has two flushers.
FlushTypeOK ==
  /\ captured \in 0..MaxCalls
  /\ buffer \in Seq(1..captured)
  /\ waiting \in [Flusher -> {{}} \cup {{p} : p \in Run}]
  /\ \A f, g \in Flusher : f # g => waiting[f] \cap waiting[g] = {}
  /\ hermes \in BOOLEAN
  /\ {file, popped} \subseteq [Run -> Seq(1..captured)]
  /\ confirmed \cup cut \subseteq Run
  /\ skipped \cup exposed \cup poison \subseteq 1..captured
  /\ run \in [Run -> RunState]
  /\ DOMAIN onchain \subseteq Run
  /\ \A p \in DOMAIN onchain : onchain[p] \in SessionState
  /\ faults \in 0..MaxFaults

\* A call captured while no flush is under way is not lost before the host exits,
\* whatever fails and however many flushes run: it stays in the buffer until a session
\* holds it or runtime controls discard it (tracer.py 101-166, provider.py 129-211).
\* But a call that json cannot dump is never in a session, and nothing captured after
\* it will be: all of it stays in the buffer, to be lost when the host exits
\* (tracer.py 119, 158-162, 169-173).
LossNeedsOverlap ==
  /\ \A c \in 1..captured :
       c \notin exposed => exited \/ Buffered(c) \/ OnChain(c) \/ c \in skipped
  /\ \A c \in poison :
       /\ ~OnChain(c)
       /\ c \notin exposed => c..captured \subseteq Range(buffer)

\* A session holds its calls in the order they were captured, none twice, and with a gap
\* between two of them only if another flush emptied the list while the dump was iterating
\* it: the dump goes on at its index, in what was appended since (tracer.py of crewai
\* 107-119, of elevenlabs 187-199, of livekit 149-163).  Hermes has no gaps: what it pops
\* stays whole for the dumps under way (provider.py 137-154, 176, 195).
GapsNeedClearing ==
  \A p \in DOMAIN onchain :
    LET calls == onchain[p].calls IN
    /\ \A i, j \in DOMAIN calls : i < j => calls[i] < calls[j]
    /\ hermes \/ p \notin cut => \A i \in DOMAIN calls : calls[i] = calls[1] + i - 1

\* A call is in the sessions of two successful flushes only if these ran at the
\* same time: one after the other, the first takes its calls out of the buffer.
ConfirmedOnce ==
  \A p, q \in confirmed :
    (\E i \in DOMAIN run[p].calls, j \in DOMAIN run[q].calls : run[p].calls[i] = run[q].calls[j])
    => p = q \/ {p, q} \in concurrent

\* A run that records calls seals its session, as Completed or as Failed: one error
\* on the way is caught and the session sealed all the same (runtime.ts 269-280).
\* Excused are a second fault, a process that was killed, and an error once all
\* calls are through, when endSession(Completed) itself failed outside the try.
SessionsGetSealed ==
  \A p \in Run, n \in 0..MaxFaults :
    (run[p].stage \in {"append", "close"} /\ faults = n)
      ~> \/ Sealed(p)
         \/ faults > n + 1
         \/ run[p].result = "killed"
         \/ faults > n /\ run[p].done = Len(run[p].calls)

\* "The buffer is dropped ONLY on a confirmed on-chain write" (plugin-hermes
\* provider.py 132-134).  Refuted: a call appended while the CLI runs is dropped
\* with the calls it wrote.
DroppedOnlyWhenWritten ==
  hermes => \A c \in 1..captured : Buffered(c) \/ OnChain(c) \/ c \in skipped

\* "Record a buffered batch of calls as ONE verifiable TraceSession: startSession,
\* appendCall/closeCall, endSession.  Returns the on-chain session id" (runtime.ts
\* 210-213).  Refuted: execute ignores effects.status, so a run also returns an id
\* when a close or the final endSession was aborted on chain.
ReturnedMeansRecorded ==
  \A p \in Run : run[p].result = "ok" =>
    /\ onchain[p].closed = DOMAIN run[p].calls
    /\ onchain[p].status = "Completed"
=============================================================================
