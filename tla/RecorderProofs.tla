--------------------------- MODULE RecorderProofs ---------------------------
(*****************************************************************************)
(* What a step of one run of Recorder keeps, for any number of runs and      *)
(* failures: the lemmas that the proofs about the run's users rest on.       *)
(*                                                                           *)
(* SessionsTellTheTruth needs to know, for every stage of a run, how far its *)
(* session is (RunIsWhereItSays).                                            *)
(*****************************************************************************)
EXTENDS Recorder, TLAPS

RunsOK ==
  /\ run \in [Run -> RunState]
  /\ DOMAIN onchain \subseteq Run
  /\ \A p \in DOMAIN onchain : onchain[p] \in SessionState
  /\ faults \in 0..MaxFaults

\* What the stage of run p says of its session.
WhereItSays(p) ==
  /\ run[p].stage \in {"new", "controls", "start"} =>
       p \notin DOMAIN onchain /\ run[p].done = 0
  /\ run[p].stage = "new" => run[p].calls = <<>>
  /\ run[p].stage \in {"append", "close", "catch", "end"} =>
       p \in DOMAIN onchain /\ onchain[p].status = "Active"
  /\ run[p].stage = "append" =>
       Len(onchain[p].calls) = run[p].done /\ run[p].done < Len(run[p].calls)
  /\ run[p].stage = "close" =>
       /\ Len(onchain[p].calls) = run[p].done + 1 /\ run[p].done < Len(run[p].calls)
       /\ onchain[p].closed \subseteq 1..run[p].done
  /\ run[p].stage = "end" => onchain[p].calls = run[p].calls
  /\ run[p].result # "none" => run[p].stage = "exit"
  /\ run[p].result = "ok" => p \in DOMAIN onchain

RunIsWhereItSays == \A p \in Run : WhereItSays(p)

\* SessionsTellTheTruth, for one run.
Truth(p) ==
  p \in DOMAIN onchain =>
    /\ IsBeginning(onchain[p].calls, run[p].calls)
    /\ onchain[p].closed \subseteq DOMAIN onchain[p].calls
    /\ onchain[p].status = "Completed" \/ run[p].result = "ok" => onchain[p].calls = run[p].calls
    /\ onchain[p].status = "Failed" => run[p].result = "error"

RecorderInv == RunsOK /\ RunIsWhereItSays /\ SessionsTellTheTruth

\* A beginning of the same length is the whole.
LEMMA WholeBeginning ==
  ASSUME NEW s \in Seq(Nat), NEW t \in Seq(Nat), IsBeginning(s, t), Len(s) = Len(t)
  PROVE  s = t
BY DEF IsBeginning

\* How a beginning grows, and what it shares with the whole.
LEMMA AppendHasBeginning ==
  ASSUME NEW s \in Seq(Nat), NEW e \in Nat
  PROVE  IsBeginning(s, Append(s, e))
<1>1. Len(Append(s, e)) = Len(s) + 1 /\ \A i \in 1..Len(s) : Append(s, e)[i] = s[i]
  OBVIOUS
<1>2. QED  BY <1>1 DEF IsBeginning

LEMMA BeginningGrows ==
  ASSUME NEW s \in Seq(Nat), NEW t \in Seq(Nat), IsBeginning(s, t), Len(s) < Len(t)
  PROVE  IsBeginning(Append(s, t[Len(s) + 1]), t)
<1> DEFINE r == Append(s, t[Len(s) + 1])
<1>1. Len(s) + 1 \in 1..Len(t)
  OBVIOUS
<1>2. r \in Seq(Nat) /\ Len(r) = Len(s) + 1 /\ r[Len(s) + 1] = t[Len(s) + 1]
  BY <1>1
<1>3. \A i \in 1..Len(s) : r[i] = t[i]
  BY <1>1 DEF IsBeginning
<1> HIDE DEF r
<1>4. DOMAIN r = 1..Len(r) /\ \A i \in 1..Len(r) : i \in 1..Len(s) \/ i = Len(s) + 1
  BY <1>2
<1>5. Len(r) <= Len(t)
  BY <1>2
<1>6. \A i \in DOMAIN r : r[i] = t[i]
  BY <1>2, <1>3, <1>4
<1>7. QED  BY <1>5, <1>6 DEF IsBeginning

LEMMA BeginningIsShared ==
  ASSUME NEW s \in Seq(Nat), NEW t \in Seq(Nat), IsBeginning(s, t), NEW i \in DOMAIN s
  PROVE  i \in DOMAIN t /\ t[i] = s[i]
<1>1. i \in 1..Len(t)
  BY DEF IsBeginning
<1>2. QED  BY <1>1 DEF IsBeginning

\* A run leaves the others alone.
Others(p) ==
  /\ \A q \in Run \ {p} : run'[q] = run[q]
  /\ \A q \in Run \ {p} : q \in DOMAIN onchain' <=> q \in DOMAIN onchain
  /\ \A q \in DOMAIN onchain \ {p} : onchain'[q] = onchain[q]
  /\ DOMAIN onchain \subseteq DOMAIN onchain'

\* It keeps its calls, exits once, and takes nothing off the chain.
GoesOn(p) ==
  /\ run'[p].calls = run[p].calls
  /\ run[p].stage \notin {"new", "exit"}
  /\ run'[p].stage # "new"
  /\ p \in DOMAIN onchain =>
       p \in DOMAIN onchain' /\ IsBeginning(onchain[p].calls, onchain'[p].calls)

LEMMA ChargeOK ==
  ASSUME faults \in 0..MaxFaults, NEW o, Charge(o)
  PROVE  faults' \in 0..MaxFaults
BY FaultsAreBounded DEF Charge

Stage == {"new", "controls", "start", "append", "close", "catch", "end", "exit"}
Result == {"none", "ok", "skipped", "error", "killed"}

\* What a step leaves of the runs when it sets fields of run p.
Becomes(p, stage, done, result) ==
  /\ run' \in [Run -> RunState]
  /\ \A q \in Run \ {p} : run'[q] = run[q]
  /\ run'[p].calls = run[p].calls
  /\ run'[p].stage = stage /\ run'[p].done = done /\ run'[p].result = result

LEMMA Exits ==
  ASSUME RunsOK, NEW p \in Run, NEW result \in Result, Exit(p, result)
  PROVE  Becomes(p, "exit", run[p].done, result)
BY DEF RunsOK, RunState, Becomes, Exit, Result

LEMMA GoesTo ==
  ASSUME RunsOK, NEW p \in Run, NEW stage \in Stage, run' = [run EXCEPT ![p].stage = stage]
  PROVE  Becomes(p, stage, run[p].done, run[p].result)
BY DEF RunsOK, RunState, Becomes, Stage

LEMMA ControlsStep ==
  ASSUME RecorderInv, NEW p \in Run, CheckControls(p)
  PROVE  RunsOK' /\ Others(p) /\ GoesOn(p) /\ WhereItSays(p)' /\ Truth(p)'
<1>1. RunsOK /\ WhereItSays(p) /\ run[p].stage = "controls" /\ onchain' = onchain
  BY DEF RecorderInv, RunIsWhereItSays, CheckControls
<1>2. faults' \in 0..MaxFaults  BY <1>1, ChargeOK DEF CheckControls, RunsOK
<1>3. \/ Becomes(p, "exit", run[p].done, "skipped")
      \/ Becomes(p, "exit", run[p].done, "error")
      \/ Becomes(p, "start", run[p].done, run[p].result)
  BY <1>1, Exits, GoesTo DEF CheckControls, Result, Stage
<1>4. RunsOK' /\ Others(p)
  BY <1>1, <1>2, <1>3 DEF RunsOK, Becomes, Others
<1>5. p \notin DOMAIN onchain /\ run[p].done = 0 /\ run[p].result = "none"
  BY <1>1 DEF WhereItSays
<1>6. WhereItSays(p)' /\ Truth(p)'
  BY <1>1, <1>3, <1>5 DEF Becomes, WhereItSays, Truth
<1>7. GoesOn(p)
  BY <1>1, <1>3, <1>5 DEF Becomes, GoesOn
<1>8. QED  BY <1>4, <1>6, <1>7

LEMMA StartStep ==
  ASSUME RecorderInv, NEW p \in Run, NEW o \in Outcome, StartSession(p, o)
  PROVE  RunsOK' /\ Others(p) /\ GoesOn(p) /\ WhereItSays(p)' /\ Truth(p)'
<1> DEFINE next == StageAfter(run[p].calls, 0)
<1>1. RunsOK /\ WhereItSays(p) /\ run[p].stage = "start"
  BY DEF RecorderInv, RunIsWhereItSays, StartSession
<1>2. p \notin DOMAIN onchain /\ run[p].done = 0 /\ run[p].result = "none"
      /\ run[p].calls \in Seq(Nat)
  BY <1>1 DEF WhereItSays, RunsOK, RunState
<1>3. faults' \in 0..MaxFaults  BY <1>1, ChargeOK DEF StartSession, RunsOK
<1>4. \/ Throws(o) /\ Becomes(p, "exit", 0, "error")
      \/ ~Throws(o) /\ Becomes(p, next, 0, "none")
  BY <1>1, <1>2, Exits, GoesTo DEF StartSession, Result, Stage, StageAfter
<1>5. GoesOn(p)
  BY <1>1, <1>2, <1>4 DEF Becomes, GoesOn, StageAfter
<1>6. CASE Executed(o)
  <2>1. /\ DOMAIN onchain' = DOMAIN onchain \cup {p}
        /\ onchain'[p] = [calls |-> <<>>, closed |-> {}, status |-> "Active"]
        /\ \A q \in DOMAIN onchain \ {p} : onchain'[q] = onchain[q]
    BY <1>6 DEF StartSession, Put
  <2>2. onchain'[p] \in SessionState
    BY <2>1 DEF SessionState
  <2>3. RunsOK' /\ Others(p)
    BY <1>1, <1>2, <1>3, <1>4, <2>1, <2>2 DEF RunsOK, Becomes, Others
  <2>4. IsBeginning(<<>>, run[p].calls) /\ (run[p].calls # <<>> => 0 < Len(run[p].calls))
    BY <1>2 DEF IsBeginning
  <2>5. WhereItSays(p)'
    BY <1>2, <1>4, <2>1, <2>4 DEF Becomes, WhereItSays, StageAfter
  <2>6. Truth(p)'
    BY <1>2, <1>4, <2>1, <2>4 DEF Becomes, Truth
  <2>7. QED  BY <1>5, <2>3, <2>5, <2>6
<1>7. CASE ~Executed(o)
  <2>1. onchain' = onchain /\ Throws(o)
    BY <1>7 DEF StartSession, Executed, Throws, Outcome
  <2>2. RunsOK' /\ Others(p)
    BY <1>1, <1>3, <1>4, <2>1 DEF RunsOK, Becomes, Others
  <2>3. WhereItSays(p)' /\ Truth(p)'
    BY <1>2, <1>4, <2>1 DEF Becomes, WhereItSays, Truth
  <2>4. QED  BY <1>5, <2>2, <2>3
<1>8. QED  BY <1>6, <1>7

\* What a step leaves of the sessions when it replaces the session of run p.
SessionIs(p, session) ==
  /\ DOMAIN onchain' = DOMAIN onchain
  /\ \A q \in DOMAIN onchain \ {p} : onchain'[q] = onchain[q]
  /\ onchain'[p] = session
  /\ session \in SessionState

LEMMA StillOK ==
  ASSUME RunsOK, NEW p \in DOMAIN onchain, NEW session, SessionIs(p, session),
         NEW stage, NEW done, NEW result, Becomes(p, stage, done, result),
         faults' \in 0..MaxFaults
  PROVE  RunsOK' /\ Others(p)
BY DEF RunsOK, Becomes, Others, SessionIs

LEMMA AppendStep ==
  ASSUME RecorderInv, NEW p \in Run, NEW o \in Outcome, AppendCall(p, o)
  PROVE  RunsOK' /\ Others(p) /\ GoesOn(p) /\ WhereItSays(p)' /\ Truth(p)'
<1> DEFINE S == onchain[p]
           C == run[p].calls
           c == C[run[p].done + 1]
<1>1. RunsOK /\ WhereItSays(p) /\ SessionsTellTheTruth /\ run[p].stage = "append"
  BY DEF RecorderInv, RunIsWhereItSays, AppendCall
<1>2. /\ p \in DOMAIN onchain /\ S.status = "Active" /\ run[p].result = "none"
      /\ Len(S.calls) = run[p].done /\ run[p].done < Len(C)
  BY <1>1 DEF WhereItSays, RunsOK, RunState
<1>3. S \in SessionState /\ C \in Seq(Nat) /\ run[p].done \in Nat
  BY <1>1, <1>2 DEF RunsOK, RunState
<1>4. S.calls \in Seq(Nat) /\ IsBeginning(S.calls, C) /\ S.closed \subseteq DOMAIN S.calls
  BY <1>1, <1>2, <1>3 DEF SessionState, SessionsTellTheTruth
<1>5. c \in Nat
  <2>1. run[p].done + 1 \in 1..Len(C)
    BY <1>2, <1>3
  <2>2. QED  BY <1>3, <2>1
<1>6. faults' \in 0..MaxFaults  BY <1>1, ChargeOK DEF AppendCall, RunsOK
<1>7. \/ Throws(o) /\ Becomes(p, "catch", run[p].done, "none")
      \/ ~Throws(o) /\ Becomes(p, "close", run[p].done, "none")
  BY <1>1, <1>2, GoesTo DEF AppendCall, Stage
<1>8. GoesOn(p)
  <2>1. CASE Executed(o)
    <3> DEFINE T == Append(S.calls, c)
    <3>1. IsBeginning(S.calls, T)
      BY <1>4, <1>5, AppendHasBeginning
    <3>2. p \in DOMAIN onchain' /\ onchain'[p].calls = T
      BY <1>2, <1>3, <2>1 DEF AppendCall, SessionState
    <3> HIDE DEF T
    <3>3. QED  BY <1>1, <1>7, <3>1, <3>2 DEF Becomes, GoesOn
  <2>2. CASE ~Executed(o)
    <3>1. onchain' = onchain /\ IsBeginning(S.calls, S.calls)
      BY <1>4, <2>2 DEF AppendCall, IsBeginning
    <3>2. QED  BY <1>1, <1>2, <1>7, <3>1 DEF Becomes, GoesOn
  <2>3. QED  BY <2>1, <2>2
<1>9. CASE Executed(o)
  <2> DEFINE T == Append(S.calls, c)
  <2>1. T \in Seq(Nat) /\ Len(T) = run[p].done + 1 /\ DOMAIN S.calls \subseteq DOMAIN T
    BY <1>2, <1>4, <1>5
  <2>2. IsBeginning(T, C)
    BY <1>2, <1>3, <1>4, BeginningGrows
  <2>3. SessionIs(p, [S EXCEPT !.calls = T])
    BY <1>2, <1>3, <1>9, <2>1 DEF AppendCall, SessionIs, SessionState
  <2>4. /\ p \in DOMAIN onchain' /\ onchain'[p].calls = T
        /\ onchain'[p].closed = S.closed /\ onchain'[p].status = "Active"
    BY <1>2, <1>3, <2>3 DEF SessionIs, SessionState
  <2>5. RunsOK' /\ Others(p)
    BY <1>1, <1>2, <1>6, <1>7, <2>3, StillOK
  <2> HIDE DEF T
  <2>6. WhereItSays(p)'
    BY <1>2, <1>4, <1>7, <2>1, <2>4 DEF Becomes, WhereItSays
  <2>7. Truth(p)'
    BY <1>4, <1>7, <2>1, <2>2, <2>4 DEF Becomes, Truth
  <2>8. QED  BY <1>8, <2>5, <2>6, <2>7
<1>10. CASE ~Executed(o)
  <2>1. onchain' = onchain /\ Throws(o)
    BY <1>10 DEF AppendCall, Executed, Throws, Outcome
  <2>2. RunsOK' /\ Others(p)
    BY <1>1, <1>6, <1>7, <2>1 DEF RunsOK, Becomes, Others
  <2>3. WhereItSays(p)' /\ Truth(p)'
    BY <1>2, <1>4, <1>7, <2>1 DEF Becomes, WhereItSays, Truth
  <2>4. QED  BY <1>8, <2>2, <2>3
<1>11. QED  BY <1>9, <1>10

LEMMA CloseStep ==
  ASSUME RecorderInv, NEW p \in Run, NEW o \in SilentOutcome, CloseCall(p, o)
  PROVE  RunsOK' /\ Others(p) /\ GoesOn(p) /\ WhereItSays(p)' /\ Truth(p)'
<1> DEFINE S == onchain[p]
           C == run[p].calls
           i == run[p].done + 1
<1>1. RunsOK /\ WhereItSays(p) /\ SessionsTellTheTruth /\ run[p].stage = "close"
  BY DEF RecorderInv, RunIsWhereItSays, CloseCall
<1>2. /\ p \in DOMAIN onchain /\ S.status = "Active" /\ run[p].result = "none"
      /\ Len(S.calls) = i /\ run[p].done < Len(C)
  BY <1>1 DEF WhereItSays, RunsOK, RunState
<1>3. S \in SessionState /\ C \in Seq(Nat) /\ run[p].done \in Nat
  BY <1>1, <1>2 DEF RunsOK, RunState
<1>4. S.calls \in Seq(Nat) /\ IsBeginning(S.calls, C) /\ S.closed \subseteq DOMAIN S.calls
  BY <1>1, <1>2, <1>3 DEF SessionState, SessionsTellTheTruth
<1>5. faults' \in 0..MaxFaults  BY <1>1, ChargeOK DEF CloseCall, RunsOK
<1>6. \/ Becomes(p, "catch", run[p].done, "none")
      \/ Becomes(p, StageAfter(C, i), i, "none")
  <2>1. CASE Throws(o)
    BY <1>1, <1>2, <2>1, GoesTo DEF CloseCall, Stage
  <2>2. CASE ~Throws(o)
    BY <1>1, <1>2, <1>3, <2>2 DEF CloseCall, StageAfter, Becomes, RunsOK, RunState
  <2>3. QED  BY <2>1, <2>2
<1>7. PICK closed \in {S.closed, S.closed \cup {i}} : SessionIs(p, [S EXCEPT !.closed = closed])
  <2>1. i \in DOMAIN S.calls /\ i \in Nat \ {0}
    BY <1>2, <1>3, <1>4
  <2>2. CASE Executed(o)
    <3>1. onchain' = [onchain EXCEPT ![p] = [S EXCEPT !.closed = S.closed \cup {i}]]
      BY <1>2, <2>2 DEF CloseCall
    <3>2. [S EXCEPT !.closed = S.closed \cup {i}] \in SessionState
      BY <1>3, <2>1 DEF SessionState
    <3>3. QED  BY <1>2, <3>1, <3>2 DEF SessionIs
  <2>3. CASE ~Executed(o)
    <3>1. onchain' = onchain
      BY <2>3 DEF CloseCall
    <3>2. [S EXCEPT !.closed = S.closed] = S
      BY <1>3 DEF SessionState
    <3>3. SessionIs(p, [S EXCEPT !.closed = S.closed])
      BY <1>2, <1>3, <3>1, <3>2 DEF SessionIs
    <3>4. QED  BY <3>3
  <2>4. QED  BY <2>2, <2>3
<1>8. closed \subseteq DOMAIN S.calls
  BY <1>2, <1>3, <1>4, <1>7
<1>9. /\ p \in DOMAIN onchain' /\ onchain'[p].calls = S.calls
       /\ onchain'[p].closed = closed /\ onchain'[p].status = "Active"
  BY <1>2, <1>3, <1>7 DEF SessionIs, SessionState
<1>10. RunsOK' /\ Others(p)
  BY <1>1, <1>2, <1>5, <1>6, <1>7, StillOK
<1>11. i = Len(C) => S.calls = C
  BY <1>2, <1>3, <1>4, WholeBeginning
<1>12. WhereItSays(p)'
  BY <1>2, <1>3, <1>6, <1>9, <1>11 DEF Becomes, WhereItSays, StageAfter
<1>13. Truth(p)'
  BY <1>4, <1>6, <1>8, <1>9 DEF Becomes, Truth
<1>14. GoesOn(p)
  <2>1. IsBeginning(S.calls, S.calls)
    BY <1>4 DEF IsBeginning
  <2>2. QED  BY <1>1, <1>6, <1>9, <2>1 DEF Becomes, GoesOn, StageAfter
<1>15. QED  BY <1>10, <1>12, <1>13, <1>14

\* Sealing the session, and exiting with the result.
LEMMA EndStep ==
  ASSUME RecorderInv, NEW p \in Run, NEW o \in SilentOutcome,
         EndFailed(p, o) \/ EndCompleted(p, o)
  PROVE  RunsOK' /\ Others(p) /\ GoesOn(p) /\ WhereItSays(p)' /\ Truth(p)'
<1> DEFINE S == onchain[p]
           C == run[p].calls
<1>1. RunsOK /\ WhereItSays(p) /\ SessionsTellTheTruth /\ run[p].stage \in {"catch", "end"}
  BY DEF RecorderInv, RunIsWhereItSays, EndFailed, EndCompleted
<1>2. /\ p \in DOMAIN onchain /\ S.status = "Active"
      /\ EndCompleted(p, o) => S.calls = C
  BY <1>1 DEF WhereItSays, EndCompleted
<1>3. S \in SessionState
  BY <1>1, <1>2 DEF RunsOK
<1>4. IsBeginning(S.calls, C) /\ S.closed \subseteq DOMAIN S.calls
  BY <1>1, <1>2 DEF SessionsTellTheTruth
<1>5. faults' \in 0..MaxFaults
  BY <1>1, ChargeOK DEF EndFailed, EndCompleted, RunsOK
<1>6. PICK result \in {"error", "ok"} :
        /\ Becomes(p, "exit", run[p].done, result)
        /\ EndFailed(p, o) => result = "error"
  BY <1>1, Exits DEF EndFailed, EndCompleted, Result
<1>7. PICK status \in {"Active", "Completed", "Failed"} :
        /\ SessionIs(p, [S EXCEPT !.status = status])
        /\ status = "Completed" => EndCompleted(p, o)
        /\ status = "Failed" => EndFailed(p, o)
  <2>1. CASE Executed(o)
    <3>1. PICK status \in {"Completed", "Failed"} :
            /\ onchain' = [onchain EXCEPT ![p] = [S EXCEPT !.status = status]]
            /\ status = "Completed" => EndCompleted(p, o)
            /\ status = "Failed" => EndFailed(p, o)
      BY <1>2, <2>1 DEF EndFailed, EndCompleted, EndWith
    <3>2. [S EXCEPT !.status = status] \in SessionState
      BY <1>3 DEF SessionState
    <3>3. QED  BY <1>2, <3>1, <3>2 DEF SessionIs
  <2>2. CASE ~Executed(o)
    <3>1. onchain' = onchain
      BY <2>2 DEF EndFailed, EndCompleted, EndWith
    <3>2. [S EXCEPT !.status = "Active"] = S
      BY <1>2, <1>3 DEF SessionState
    <3>3. SessionIs(p, [S EXCEPT !.status = "Active"])
      BY <1>2, <1>3, <3>1, <3>2 DEF SessionIs
    <3>4. QED  BY <3>3
  <2>3. QED  BY <2>1, <2>2
<1>8. /\ p \in DOMAIN onchain' /\ onchain'[p].calls = S.calls
      /\ onchain'[p].closed = S.closed /\ onchain'[p].status = status
  BY <1>2, <1>3, <1>7 DEF SessionIs, SessionState
<1>9. RunsOK' /\ Others(p)
  BY <1>1, <1>2, <1>5, <1>6, <1>7, StillOK
<1>10. WhereItSays(p)'
  BY <1>6, <1>8 DEF Becomes, WhereItSays
<1>11. result = "ok" => EndCompleted(p, o)
  BY <1>6 DEF EndFailed, EndCompleted
<1>12. status = "Failed" => result = "error"
  BY <1>6, <1>7
<1>13. Truth(p)'
  <2>1. onchain'[p].calls = S.calls /\ run'[p].calls = C /\ run'[p].result = result
    BY <1>6, <1>8 DEF Becomes
  <2>2. IsBeginning(onchain'[p].calls, run'[p].calls)
    BY <1>4, <2>1
  <2>3. QED  BY <1>2, <1>4, <1>7, <1>8, <1>11, <1>12, <2>1, <2>2 DEF Truth
<1>14. GoesOn(p)
  <2>1. IsBeginning(S.calls, S.calls)
    BY <1>3 DEF IsBeginning, SessionState
  <2>2. QED  BY <1>1, <1>6, <1>8, <2>1 DEF Becomes, GoesOn
<1>15. QED  BY <1>9, <1>10, <1>13, <1>14

-----------------------------------------------------------------------------
\* One step of a run keeps what is said of all runs.
LEMMA OneRun ==
  ASSUME RecorderInv, NEW p \in Run,
         RunsOK', Others(p), WhereItSays(p)', Truth(p)'
  PROVE  RecorderInv'
<1>1. ASSUME NEW q \in Run PROVE WhereItSays(q)'
  <2>1. CASE q = p
    BY <2>1
  <2>2. CASE q # p
    <3>1. WhereItSays(q) /\ run'[q] = run[q] /\ (q \in DOMAIN onchain' <=> q \in DOMAIN onchain)
          /\ (q \in DOMAIN onchain => onchain'[q] = onchain[q])
      BY <2>2 DEF RecorderInv, RunIsWhereItSays, Others
    <3>2. QED  BY <3>1 DEF WhereItSays
  <2>3. QED  BY <2>1, <2>2
<1>2. ASSUME NEW q \in DOMAIN onchain' PROVE Truth(q)'
  <2>1. CASE q = p
    BY <2>1
  <2>2. CASE q # p
    <3>1. q \in Run
      BY DEF RunsOK
    <3>2. q \in DOMAIN onchain /\ run'[q] = run[q] /\ onchain'[q] = onchain[q]
      BY <2>2, <3>1 DEF Others
    <3>3. Truth(q)
      BY <3>2 DEF RecorderInv, SessionsTellTheTruth, Truth
    <3>4. QED  BY <3>2, <3>3 DEF Truth
  <2>3. QED  BY <2>1, <2>2
<1>3. SessionsTellTheTruth'
  BY <1>2 DEF SessionsTellTheTruth, Truth
<1>4. QED  BY <1>1, <1>3 DEF RecorderInv, RunIsWhereItSays

LEMMA RunStepKeeps ==
  ASSUME RecorderInv, NEW p \in Run, RunStep(p)
  PROVE  RecorderInv' /\ Others(p) /\ GoesOn(p)
<1>1. RunsOK' /\ Others(p) /\ GoesOn(p) /\ WhereItSays(p)' /\ Truth(p)'
  BY ControlsStep, StartStep, AppendStep, CloseStep, EndStep DEF RunStep
<1>2. QED  BY <1>1, OneRun

-----------------------------------------------------------------------------
(***************************************************************************)
(* What a step of a run is to the audit log that Recorder maps to.         *)
(***************************************************************************)
LogEntries == [p \in DOMAIN onchain |-> Ids(p)]
Ended == {p \in DOMAIN onchain : onchain[p].status # "Active"}
LogSealed == [p \in Ended |-> Len(onchain[p].calls)]
Settled == UNION {{p} \X onchain[p].closed : p \in DOMAIN onchain}
LogOutcome == [k \in Settled |-> "Success"]

LogStep == Log!Next \/ UNCHANGED Log!auditVars

\* The entries of run p when it has n.
FirstIds(p, n) == [i \in 1..n |-> [call_id |-> <<p, i>>]]

LEMMA IdsAreFirst ==
  ASSUME NEW p, onchain[p].calls \in Seq(Nat)
  PROVE  Ids(p) = FirstIds(p, Len(onchain[p].calls))
BY DEF Ids, FirstIds

LEMMA FirstIdsGrow ==
  ASSUME NEW p, NEW n \in Nat
  PROVE  /\ Len(FirstIds(p, n)) = n /\ Len(FirstIds(p, n + 1)) = n + 1
         /\ FirstIds(p, n + 1) = Append(FirstIds(p, n), FirstIds(p, n + 1)[n + 1])
<1> DEFINE T == {[call_id |-> <<p, i>>] : i \in 1..(n + 1)}
<1>1. FirstIds(p, n) \in [1..n -> T] /\ FirstIds(p, n + 1) \in [1..(n + 1) -> T]
  BY DEF FirstIds
<1>2. FirstIds(p, n) \in Seq(T) /\ FirstIds(p, n + 1) \in Seq(T)
  <2> HIDE DEF T
  <2>1. QED  BY <1>1
<1>3. Len(FirstIds(p, n)) = n /\ Len(FirstIds(p, n + 1)) = n + 1
  BY <1>1, <1>2
<1>4. \A i \in 1..n : FirstIds(p, n + 1)[i] = FirstIds(p, n)[i]
  BY DEF FirstIds
<1>5. FirstIds(p, n + 1)[n + 1] \in T
  BY <1>1
<1> HIDE DEF T
<1>6. QED  BY <1>2, <1>3, <1>4, <1>5

\* A transaction that has no effect is no step of the log.
LEMMA NoLogStep ==
  ASSUME onchain' = onchain
  PROVE  UNCHANGED Log!auditVars
<1>1. LogEntries' = LogEntries /\ LogSealed' = LogSealed /\ LogOutcome' = LogOutcome
  BY DEF LogEntries, LogSealed, LogOutcome, Ended, Settled, Ids
<1>2. QED  BY <1>1 DEF Log!auditVars, LogEntries, LogSealed, LogOutcome, Ended, Settled

\* startSession opens the log of its run.
LEMMA StartIsLogOpen ==
  ASSUME RecorderInv, NEW p \in Run, NEW o \in Outcome, StartSession(p, o)
  PROVE  LogStep
<1>1. p \notin DOMAIN onchain
  BY DEF RecorderInv, RunIsWhereItSays, WhereItSays, StartSession
<1>2. CASE ~Executed(o)
  BY <1>2, NoLogStep DEF StartSession, LogStep
<1>3. CASE Executed(o)
  <2>1. /\ DOMAIN onchain' = DOMAIN onchain \cup {p}
        /\ onchain'[p] = [calls |-> <<>>, closed |-> {}, status |-> "Active"]
        /\ \A q \in DOMAIN onchain : onchain'[q] = onchain[q]
    BY <1>1, <1>3 DEF StartSession, Put
  <2>2. onchain'[p].calls = <<>> /\ onchain'[p].closed = {} /\ onchain'[p].status = "Active"
    BY <2>1
  <2>3. Ids(p)' = <<>>
    BY <2>2 DEF Ids
  <2>4. LogEntries' = Put(LogEntries, p, <<>>)
    BY <2>1, <2>3 DEF LogEntries, Ids, Put
  <2>5. LogSealed' = LogSealed
    <3>1. Ended' = Ended
      BY <2>1, <2>2 DEF Ended
    <3>2. QED  BY <2>1, <3>1 DEF LogSealed, Ended
  <2>6. LogOutcome' = LogOutcome
    <3>1. Settled' = Settled
      BY <2>1, <2>2 DEF Settled
    <3>2. QED  BY <3>1 DEF LogOutcome
  <2>7. Log!Open(p)
    BY <1>1, <2>4, <2>5, <2>6
    DEF Log!Open, Log!Put, Put, LogEntries, LogSealed, LogOutcome, Ended, Settled
  <2>8. QED  BY <2>7 DEF Log!Next, LogStep
<1>4. QED  BY <1>2, <1>3

\* appendCall extends it by one entry, and no log that is sealed.
LEMMA AppendIsLogExtend ==
  ASSUME RecorderInv, NEW p \in Run, NEW o \in Outcome, AppendCall(p, o)
  PROVE  LogStep
<1> DEFINE S == onchain[p]
           c == run[p].calls[run[p].done + 1]
           n == Len(S.calls)
<1>1. CASE ~Executed(o)
  BY <1>1, NoLogStep DEF AppendCall, LogStep
<1>2. CASE Executed(o)
  <2>1. /\ p \in DOMAIN onchain /\ S.status = "Active" /\ S \in SessionState
        /\ n = run[p].done /\ run[p].done < Len(run[p].calls)
        /\ run[p].calls \in Seq(Nat)
    BY DEF RecorderInv, RunsOK, RunState, RunIsWhereItSays, WhereItSays, AppendCall
  <2>2. S.calls \in Seq(Nat) /\ n \in Nat /\ c \in Nat
    <3>1. S.calls \in Seq(Nat)
      BY <2>1 DEF SessionState
    <3>2. n \in Nat /\ Len(run[p].calls) \in Nat
      BY <2>1, <3>1
    <3>3. run[p].done + 1 \in 1..Len(run[p].calls)
      BY <2>1, <3>2
    <3>4. QED  BY <2>1, <3>1, <3>2, <3>3
  <2>3. /\ DOMAIN onchain' = DOMAIN onchain
        /\ onchain'[p] = [S EXCEPT !.calls = Append(S.calls, c)]
        /\ \A q \in DOMAIN onchain \ {p} : onchain'[q] = onchain[q]
    BY <1>2, <2>1 DEF AppendCall
  <2>4. /\ onchain'[p].calls = Append(S.calls, c)
        /\ onchain'[p].closed = S.closed /\ onchain'[p].status = S.status
    BY <2>1, <2>3 DEF SessionState
  <2>5. onchain'[p].calls \in Seq(Nat) /\ Len(onchain'[p].calls) = n + 1
    BY <2>2, <2>4
  <2>6. Ids(p) = FirstIds(p, n)
    BY <2>2, IdsAreFirst
  <2>7. Ids(p)' = FirstIds(p, n + 1)
    BY <2>5 DEF Ids, FirstIds
  <2> HIDE DEF n
  <2>8. /\ Len(Ids(p)') = Len(Ids(p)) + 1
        /\ Ids(p)' = Append(Ids(p), Ids(p)'[Len(Ids(p)')])
    <3>1. n \in Nat
      BY <2>2
    <3>2. /\ Len(FirstIds(p, n)) = n /\ Len(FirstIds(p, n + 1)) = n + 1
          /\ FirstIds(p, n + 1) = Append(FirstIds(p, n), FirstIds(p, n + 1)[n + 1])
      BY <3>1, FirstIdsGrow
    <3>3. QED  BY <2>6, <2>7, <3>2
  <2>9. \A q \in DOMAIN onchain \ {p} : Ids(q)' = Ids(q)
    BY <2>3 DEF Ids
  <2>10. /\ DOMAIN LogEntries = DOMAIN onchain
         /\ DOMAIN LogEntries' = DOMAIN LogEntries
         /\ LogEntries[p] = Ids(p) /\ LogEntries'[p] = Ids(p)'
         /\ \A q \in DOMAIN onchain \ {p} : LogEntries'[q] = LogEntries[q]
    BY <2>1, <2>3, <2>9 DEF LogEntries
  <2>11. LogEntries' = [LogEntries EXCEPT ![p] = LogEntries'[p]]
    <3>1. LogEntries = [q \in DOMAIN onchain |-> LogEntries[q]]
          /\ LogEntries' = [q \in DOMAIN onchain |-> LogEntries'[q]]
      BY <2>3 DEF LogEntries
    <3>2. QED  BY <2>1, <2>10, <3>1
  <2>12. /\ Len(LogEntries'[p]) = Len(LogEntries[p]) + 1
         /\ LogEntries' =
              [LogEntries EXCEPT ![p] = Append(@, LogEntries'[p][Len(LogEntries'[p])])]
    BY <2>1, <2>8, <2>10, <2>11
  <2>13. LogSealed' = LogSealed /\ p \notin Ended /\ DOMAIN LogSealed = Ended
    <3>1. Ended' = Ended /\ p \notin Ended
      BY <2>1, <2>3, <2>4 DEF Ended
    <3>2. QED  BY <2>3, <3>1 DEF LogSealed, Ended
  <2>14. LogOutcome' = LogOutcome
    <3>1. \A q \in DOMAIN onchain : onchain'[q].closed = onchain[q].closed
      BY <2>3, <2>4
    <3>2. Settled' = Settled
      BY <2>3, <3>1 DEF Settled
    <3>3. QED  BY <3>2 DEF LogOutcome
  <2>15. p \in DOMAIN LogEntries \ DOMAIN LogSealed
    BY <2>1, <2>10, <2>13
  <2>16. Log!Extend(p)
    BY <2>10, <2>12, <2>13, <2>14, <2>15
    DEF Log!Extend, LogEntries, LogSealed, LogOutcome, Ended, Settled
  <2>17. QED  BY <2>16 DEF Log!Next, LogStep
<1>3. QED  BY <1>1, <1>2

\* closeCall settles an entry of the run that has no outcome yet.
LEMMA CloseIsLogSettle ==
  ASSUME RecorderInv, NEW p \in Run, NEW o \in SilentOutcome, CloseCall(p, o)
  PROVE  LogStep
<1> DEFINE S == onchain[p]
           i == run[p].done + 1
<1>1. CASE ~Executed(o)
  BY <1>1, NoLogStep DEF CloseCall, LogStep
<1>2. CASE Executed(o)
  <2>1. /\ p \in DOMAIN onchain /\ S.status = "Active" /\ S \in SessionState
        /\ Len(S.calls) = i /\ run[p].done \in Nat
        /\ S.closed \subseteq 1..run[p].done
    BY DEF RecorderInv, RunsOK, RunState, RunIsWhereItSays, WhereItSays, CloseCall
  <2>2. S.calls \in Seq(Nat) /\ i \notin S.closed /\ i \in DOMAIN S.calls
    <3>1. S.calls \in Seq(Nat)
      BY <2>1 DEF SessionState
    <3>2. i \notin S.closed /\ i \in 1..Len(S.calls)
      BY <2>1
    <3>3. QED  BY <3>1, <3>2
  <2>3. /\ DOMAIN onchain' = DOMAIN onchain
        /\ onchain'[p] = [S EXCEPT !.closed = S.closed \cup {i}]
        /\ \A q \in DOMAIN onchain \ {p} : onchain'[q] = onchain[q]
    BY <1>2, <2>1 DEF CloseCall
  <2>4. /\ onchain'[p].calls = S.calls
        /\ onchain'[p].closed = S.closed \cup {i} /\ onchain'[p].status = S.status
    BY <2>1, <2>3 DEF SessionState
  <2> HIDE DEF i
  <2>5. \A q \in DOMAIN onchain : Ids(q)' = Ids(q)
    BY <2>3, <2>4 DEF Ids
  <2>6. LogEntries' = LogEntries
    BY <2>3, <2>5 DEF LogEntries
  <2>7. LogSealed' = LogSealed
    <3>1. Ended' = Ended
      BY <2>3, <2>4 DEF Ended
    <3>2. \A q \in DOMAIN onchain : onchain'[q].calls = onchain[q].calls
      BY <2>3, <2>4
    <3>3. QED  BY <3>1, <3>2 DEF LogSealed, Ended
  <2>8. Settled' = Settled \cup {<<p, i>>} /\ <<p, i>> \notin Settled
    <3>1. /\ \A k : k \in Settled <=> \E q \in DOMAIN onchain : k \in {q} \X onchain[q].closed
          /\ \A k : k \in Settled' <=> \E q \in DOMAIN onchain' : k \in {q} \X onchain'[q].closed
      BY DEF Settled
    <3>2. {p} \X onchain'[p].closed = ({p} \X S.closed) \cup {<<p, i>>}
      BY <2>4
    <3>3. \A q \in DOMAIN onchain \ {p} : onchain'[q].closed = onchain[q].closed
      BY <2>3
    <3>4. \A k : k \in Settled' <=> k \in Settled \/ k = <<p, i>>
      BY <2>1, <2>3, <3>1, <3>2, <3>3
    <3>5. <<p, i>> \notin Settled
      BY <2>2, <3>1
    <3>6. QED  BY <3>4, <3>5
  <2>9. LogOutcome' = Put(LogOutcome, <<p, i>>, "Success") /\ <<p, i>> \notin DOMAIN LogOutcome
    BY <2>8 DEF LogOutcome, Put
  <2>10. /\ p \in DOMAIN LogEntries /\ i \in DOMAIN LogEntries[p]
         /\ LogEntries[p][i].call_id = <<p, i>>
    BY <2>1, <2>2 DEF LogEntries, Ids
  <2>11. Log!Settle(p, i, "Success")
    BY <2>6, <2>7, <2>9, <2>10
    DEF Log!Settle, Log!Put, Put, LogEntries, LogSealed, LogOutcome, Ended, Settled
  <2>12. QED  BY <2>10, <2>11 DEF Log!Next, LogStep, LogEntries
<1>3. QED  BY <1>1, <1>2

\* endSession seals it at its length.
LEMMA EndIsLogSeal ==
  ASSUME RecorderInv, NEW p \in Run, NEW o \in SilentOutcome,
         EndFailed(p, o) \/ EndCompleted(p, o)
  PROVE  LogStep
<1> DEFINE S == onchain[p]
<1>1. CASE ~Executed(o)
  BY <1>1, NoLogStep DEF EndFailed, EndCompleted, EndWith, LogStep
<1>2. CASE Executed(o)
  <2>1. p \in DOMAIN onchain /\ S.status = "Active" /\ S \in SessionState
    BY DEF RecorderInv, RunsOK, RunIsWhereItSays, WhereItSays, EndFailed, EndCompleted
  <2>2. PICK status \in {"Completed", "Failed"} :
          onchain' = [onchain EXCEPT ![p] = [S EXCEPT !.status = status]]
    BY <1>2, <2>1 DEF EndFailed, EndCompleted, EndWith
  <2>3. /\ DOMAIN onchain' = DOMAIN onchain
        /\ onchain'[p] = [S EXCEPT !.status = status]
        /\ \A q \in DOMAIN onchain \ {p} : onchain'[q] = onchain[q]
    BY <2>1, <2>2
  <2>4. /\ onchain'[p].calls = S.calls
        /\ onchain'[p].closed = S.closed /\ onchain'[p].status = status
    BY <2>1, <2>3 DEF SessionState
  <2>5. \A q \in DOMAIN onchain :
          /\ onchain'[q].calls = onchain[q].calls
          /\ onchain'[q].closed = onchain[q].closed
          /\ Ids(q)' = Ids(q)
    BY <2>3, <2>4 DEF Ids
  <2>6. LogEntries' = LogEntries /\ DOMAIN LogEntries = DOMAIN onchain
    BY <2>3, <2>5 DEF LogEntries
  <2>7. Ended' = Ended \cup {p} /\ p \notin Ended /\ DOMAIN LogSealed = Ended
    BY <2>1, <2>3, <2>4 DEF Ended, LogSealed
  <2>8. Len(LogEntries[p]) = Len(onchain[p].calls)
    <3>1. S.calls \in Seq(Nat)
      BY <2>1 DEF SessionState
    <3>2. Ids(p) = FirstIds(p, Len(S.calls)) /\ Len(S.calls) \in Nat
      BY <3>1, IdsAreFirst
    <3>3. QED  BY <2>1, <3>2, FirstIdsGrow DEF LogEntries
  <2>9. LogSealed' = Put(LogSealed, p, Len(LogEntries[p]))
    <3>1. \A q \in Ended : q \in DOMAIN onchain /\ q # p
      BY <2>7 DEF Ended
    <3>2. QED  BY <2>1, <2>3, <2>5, <2>7, <2>8, <3>1 DEF LogSealed, Put
  <2>10. LogOutcome' = LogOutcome
    <3>1. Settled' = Settled
      BY <2>3, <2>5 DEF Settled
    <3>2. QED  BY <3>1 DEF LogOutcome
  <2>11. Log!Seal(p)
    BY <2>1, <2>6, <2>7, <2>9, <2>10
    DEF Log!Seal, Log!Put, Put, LogEntries, LogSealed, LogOutcome, Ended, Settled
  <2>12. QED  BY <2>11 DEF Log!Next, LogStep
<1>3. QED  BY <1>1, <1>2

LEMMA RunStepIsLogStep ==
  ASSUME RecorderInv, NEW p \in Run, RunStep(p)
  PROVE  LogStep
<1>1. CASE CheckControls(p)
  BY <1>1, NoLogStep DEF CheckControls, LogStep
<1>2. QED
  BY <1>1, StartIsLogOpen, AppendIsLogExtend, CloseIsLogSettle, EndIsLogSeal DEF RunStep

\* No session is no entry.
LEMMA NoSessionsIsLogInit == RecorderInit => Log!Init
<1> SUFFICES ASSUME RecorderInit PROVE Log!Init
  OBVIOUS
<1>1. DOMAIN onchain = {}
  BY DEF RecorderInit, Empty
<1>2. Ended = {} /\ Settled = {}
  BY <1>1 DEF Ended, Settled
<1>3. LogEntries = Empty /\ LogSealed = Empty /\ LogOutcome = Empty
  BY <1>1, <1>2 DEF LogEntries, LogSealed, LogOutcome, Empty
<1>4. QED
  BY <1>3
  DEF Log!Init, Log!Empty, Empty, LogEntries, LogSealed, LogOutcome, Ended, Settled
=============================================================================
