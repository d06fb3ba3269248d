------------------------------ MODULE Recorder ------------------------------
(****************************************************************************)
(* Runs of the onemem-trace CLI: recordSession of sdk-ts (runtime.ts) over  *)
(* the SDK's transactions (traces.ts, client.ts).                           *)
(*                                                                          *)
(* Every run opens a TraceSession of its own and sends, one after the       *)
(* other, the transactions that record its calls.  Whether a transaction is *)
(* accepted depends on authority and network, which Trace models; here any  *)
(* of them may go wrong, and what matters is what the chain then holds and  *)
(* what the run reports.                                                    *)
(****************************************************************************)
EXTENDS Naturals, Sequences, Objects

CONSTANTS
  Run,            \* runs of the CLI; each opens at most one session
  MaxFaults       \* bound: transactions and reports that go wrong

ASSUME FaultsAreBounded == MaxFaults \in Nat

VARIABLES
  onchain,        \* the TraceSession of each run that has opened one
  run,            \* the state of each run's process
  faults

recorderVars == <<onchain, run, faults>>

\* How an SDK call ends: "ok"; "refused" (an upload, the dry run or the request
\* failed: no effect, and it throws); "lost" (executed, but it throws: the answer
\* or waitForTransaction failed).
Outcome == {"ok", "refused", "lost"}

\* execute does not look at effects.status.  startSession and appendCall notice an
\* abort by the missing object or event, but closeCall and endSession do not: they
\* may also be "aborted" without effect and return as if executed.
SilentOutcome == Outcome \cup {"aborted"}

Executed(o) == o \in {"ok", "lost"}
Throws(o) == o \in {"refused", "lost"}

Charge(o) ==
  /\ o # "ok" => faults < MaxFaults
  /\ faults' = IF o = "ok" THEN faults ELSE faults + 1

\* The stage after the i-th call of calls is through.
StageAfter_OneShort(calls, i) == IF i + 1 < Len(calls) THEN "append" ELSE "end"  \* mutant
StageAfter(calls, i) == IF i < Len(calls) THEN "append" ELSE "end"

NotStarted == [stage |-> "new", calls |-> <<>>, done |-> 0, result |-> "none"]
Started(calls) == [stage |-> "controls", calls |-> calls, done |-> 0, result |-> "none"]

-----------------------------------------------------------------------------
RecorderInit ==
  /\ onchain = Empty
  /\ run = [p \in Run |-> NotStarted]
  /\ faults = 0

Exit(p, result) == run' = [run EXCEPT ![p].stage = "exit", ![p].result = result]

\* main: paused or unreadable runtime controls skip the run; the client or the
\* namespace may not come up.
CheckControls(p) ==
  /\ run[p].stage = "controls"
  /\ \/ Exit(p, "skipped") /\ faults' = faults
     \/ Exit(p, "error") /\ Charge("refused")
     \/ run' = [run EXCEPT ![p].stage = "start"] /\ faults' = faults
  /\ UNCHANGED onchain

StartSession(p, o) ==
  /\ run[p].stage = "start"
  /\ Charge(o)
  /\ onchain' = IF Executed(o)
                THEN Put(onchain, p, [calls |-> <<>>, closed |-> {}, status |-> "Active"])
                ELSE onchain
  /\ IF Throws(o) THEN Exit(p, "error")
     ELSE run' = [run EXCEPT ![p].stage = StageAfter(run[p].calls, 0)]

\* Inside the try block: an error leads to the catch block.
AppendCall_NoCatch(p, o) ==                                         \* mutant
  /\ run[p].stage = "append"
  /\ Charge(o)
  /\ onchain' = IF Executed(o)
                THEN [onchain EXCEPT ![p].calls = Append(@, run[p].calls[run[p].done + 1])]
                ELSE onchain
  /\ IF Throws(o) THEN Exit(p, "error") ELSE run' = [run EXCEPT ![p].stage = "close"]

AppendCall(p, o) ==
  /\ run[p].stage = "append"
  /\ Charge(o)
  /\ onchain' = IF Executed(o)
                THEN [onchain EXCEPT ![p].calls = Append(@, run[p].calls[run[p].done + 1])]
                ELSE onchain
  /\ run' = [run EXCEPT ![p].stage = IF Throws(o) THEN "catch" ELSE "close"]

CloseCall(p, o) ==
  /\ run[p].stage = "close"
  /\ Charge(o)
  /\ LET i == run[p].done + 1 IN
     /\ onchain' = IF Executed(o) THEN [onchain EXCEPT ![p].closed = @ \cup {i}] ELSE onchain
     /\ run' = IF Throws(o)
               THEN [run EXCEPT ![p].stage = "catch"]
               ELSE [run EXCEPT ![p].stage = StageAfter(run[p].calls, i), ![p].done = i]

EndWith(p, o, status) ==
  onchain' = IF Executed(o) THEN [onchain EXCEPT ![p].status = status] ELSE onchain

\* catch: close the session as Failed, whatever comes of it, and rethrow.
EndFailed_AsCompleted(p, o) ==                                      \* mutant
  /\ run[p].stage = "catch"
  /\ Charge(o)
  /\ EndWith(p, o, "Completed")
  /\ Exit(p, "error")

EndFailed_GoesOn(p, o) ==                                           \* mutant
  /\ run[p].stage = "catch"
  /\ Charge(o)
  /\ EndWith(p, o, "Failed")
  /\ run' = [run EXCEPT ![p].stage = "append"]

EndFailed(p, o) ==
  /\ run[p].stage = "catch"
  /\ Charge(o)
  /\ EndWith(p, o, "Failed")
  /\ Exit(p, "error")

EndCompleted(p, o) ==
  /\ run[p].stage = "end"
  /\ Charge(o)
  /\ EndWith(p, o, "Completed")
  /\ Exit(p, IF Throws(o) THEN "error" ELSE "ok")

RunStep(p) ==
  \/ CheckControls(p)
  \/ \E o \in Outcome : StartSession(p, o) \/ AppendCall(p, o)
  \/ \E o \in SilentOutcome : CloseCall(p, o) \/ EndFailed(p, o) \/ EndCompleted(p, o)

-----------------------------------------------------------------------------
RunState == [stage : {"new", "controls", "start", "append", "close", "catch", "end", "exit"},
             calls : Seq(Nat), done : Nat, result : {"none", "ok", "skipped", "error", "killed"}]
SessionState == [calls : Seq(Nat), closed : SUBSET (Nat \ {0}),
                 status : {"Active", "Completed", "Failed"}]

\* The calls on chain are the first calls of the run, none left out.
IsBeginning(s, t) == Len(s) <= Len(t) /\ \A i \in DOMAIN s : s[i] = t[i]

\* A session never holds less than it claims: Completed means that every call of
\* the run is in it; a run that reports success emitted them all; a run whose
\* session ended Failed reports an error; and no session skips over a call that
\* could not be recorded (runtime.ts 243-288).
SessionsTellTheTruth ==
  \A p \in DOMAIN onchain :
    /\ IsBeginning(onchain[p].calls, run[p].calls)
    /\ onchain[p].closed \subseteq DOMAIN onchain[p].calls
    /\ onchain[p].status = "Completed" \/ run[p].result = "ok" => onchain[p].calls = run[p].calls
    /\ onchain[p].status = "Failed" => run[p].result = "error"

\* Whatever goes wrong, a run only sends what the contract's audit log allows: it
\* extends no sealed session, closes no call twice and no call it did not emit,
\* and seals once (Trace implements the same log).
Ids(p) == [i \in DOMAIN onchain[p].calls |-> [call_id |-> <<p, i>>]]
Log == INSTANCE AuditLog WITH
  LogId <- Run,
  Outcome <- {"Success"},
  log <- [p \in DOMAIN onchain |-> Ids(p)],
  sealed <- [p \in {q \in DOMAIN onchain : onchain[q].status # "Active"} |->
               Len(onchain[p].calls)],
  outcome <- [k \in UNION {{p} \X onchain[p].closed : p \in DOMAIN onchain} |-> "Success"]

ImplementsAuditLog == Log!Spec
=============================================================================
