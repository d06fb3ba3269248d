-------------------------- MODULE TraceFlushProofs --------------------------
(*****************************************************************************)
(* Proofs about TraceFlush, for any number of runs, flushers, calls and      *)
(* failures; RecorderProofs has what they need of the runs.                  *)
(*                                                                           *)
(* What may be lost or confirmed twice needs what the buffer shares with the *)
(* runs that flushers wait for (Dumped) and with those that were confirmed   *)
(* (Taken); both need what a dump under way has written and has left to go   *)
(* over (DumpsOK).                                                           *)
(*****************************************************************************)
EXTENDS TraceFlush, RecorderProofs

\* What is on chain stays there.
LEMMA ChainGrows ==
  ASSUME NEW p \in Run, Others(p), GoesOn(p), NEW c, OnChain(c)
  PROVE  OnChain(c)'
<1>1. PICK q \in DOMAIN onchain : \E i \in DOMAIN onchain[q].calls : onchain[q].calls[i] = c
  BY DEF OnChain
<1>2. q \in DOMAIN onchain'
  BY DEF Others
<1>3. onchain'[q] = onchain[q] \/ q = p
  BY DEF Others
<1>4. QED  BY <1>1, <1>2, <1>3 DEF GoesOn, IsBeginning, OnChain

(***************************************************************************)
(* The buffer and its flushers.                                            *)
(***************************************************************************)
WaitOK ==
  /\ waiting \in [Flusher -> {{}} \cup {{p} : p \in Run}]
  /\ \A f, g \in Flusher : f # g => waiting[f] \cap waiting[g] = {}

CaptureOK ==
  /\ captured \in 0..MaxCalls
  /\ buffer \in Seq(1..captured)
  /\ hermes \in BOOLEAN
  /\ confirmed \cup cut \subseteq Run
  /\ skipped \cup exposed \cup poison \subseteq 1..captured

DumpTypes == file \in [Run -> Seq(1..captured)] /\ popped \in [Run -> Seq(1..captured)]

\* The buffer holds the last calls captured.
BufferIsLatest ==
  /\ Len(buffer) <= captured
  /\ \A i \in DOMAIN buffer : buffer[i] = captured - Len(buffer) + i

Consecutive(s) == \A i \in DOMAIN s : s[i] = s[1] + i - 1
Increasing(s) == \A i, j \in DOMAIN s : i < j => s[i] < s[j]

\* What a dump has written comes before what it has left to go over.
Before(s, t) == \A i \in DOMAIN s, j \in DOMAIN t : j > Len(s) => s[i] < t[j]

\* The dump for p has written the beginning of its list, unless the list was emptied
\* under it; then, as when the list was popped, all that is buffered since is exposed.
DumpOf(p) ==
  /\ Consecutive(popped[p])
  /\ Increasing(file[p]) /\ Range(file[p]) \cap poison = {}
  /\ Before(file[p], ListOf(p))
  /\ p \notin cut => IsBeginning(file[p], ListOf(p))
  /\ p \in Dumping /\ (p \in cut \/ popped[p] # <<>>) => Range(buffer) \subseteq exposed
  /\ file[p] # <<>> \/ popped[p] # <<>> => p \in Dumping
  /\ p \in cut /\ run[p].stage = "new" => p \in Awaited \/ exited

DumpsOK == (hermes => cut = {}) /\ \A p \in Run : DumpOf(p)

\* A run was given calls that json can dump, in their order, and without a gap if
\* its list was not emptied under the dump.
RunsAreOrdered ==
  \A p \in Run :
    /\ Increasing(run[p].calls)
    /\ Range(run[p].calls) \subseteq (1..captured) \ poison
    /\ p \notin cut => Consecutive(run[p].calls)

Sent(p) == Range(run[p].calls)
Listed(p) == Range(file[p]) \cup Range(ListOf(p))

\* A run that a flusher waits for has what the buffer holds, but for the exposed calls.
Dumped ==
  \A p \in Awaited : run[p].stage # "new" => Range(buffer) \ exposed \subseteq Sent(p)

\* What was confirmed is out of the buffer.
Taken ==
  \A p \in confirmed :
    /\ run[p].stage = "exit"
    /\ p \notin Awaited
    /\ Sent(p) \cap Range(buffer) = {}

\* Runs that can have calls in common are recorded as concurrent.
Paired ==
  /\ \A p, q \in Awaited : p # q => {p, q} \in concurrent
  /\ \A p \in confirmed, q \in Run : Sent(p) \cap Listed(q) # {} => {p, q} \in concurrent
  /\ \A p \in confirmed, q \in Awaited : Sent(p) \cap Sent(q) # {} => {p, q} \in concurrent
  /\ \A p, q \in confirmed : Sent(p) \cap Sent(q) # {} => p = q \/ {p, q} \in concurrent

FlushInv ==
  /\ RecorderInv /\ WaitOK /\ CaptureOK /\ DumpTypes
  /\ BufferIsLatest /\ DumpsOK /\ RunsAreOrdered
  /\ Dumped /\ Taken /\ Paired
  /\ LossNeedsOverlap

LEMMA FlushInitInv == Init => FlushInv
<1> SUFFICES ASSUME Init PROVE FlushInv
  OBVIOUS
<1> USE DEF Init, RecorderInit
<1>1. onchain = Empty /\ DOMAIN onchain = {} /\ run \in [Run -> RunState]
  BY DEF Empty, NotStarted, RunState
<1>2. RecorderInv
  BY <1>1, FaultsAreBounded
  DEF RecorderInv, RunsOK, RunIsWhereItSays, WhereItSays, SessionsTellTheTruth, NotStarted
<1>3. WaitOK /\ CaptureOK /\ DumpTypes
  BY CallsAreBounded DEF WaitOK, CaptureOK, DumpTypes
<1>4. Awaited = {} /\ \A p \in Run : ListOf(p) = <<>>
  BY DEF Awaited, ListOf
<1>5. BufferIsLatest /\ RunsAreOrdered
  BY DEF BufferIsLatest, RunsAreOrdered, NotStarted, Increasing, Consecutive, Range
<1>6. DumpsOK
  BY <1>4 DEF DumpsOK, DumpOf, Consecutive, Increasing, Before, IsBeginning, Range
<1>7. Dumped /\ Taken /\ Paired
  BY <1>4 DEF Dumped, Taken, Paired
<1>8. LossNeedsOverlap
  BY DEF LossNeedsOverlap
<1>9. QED  BY <1>2, <1>3, <1>5, <1>6, <1>7, <1>8 DEF FlushInv

\* A flusher that returns waits for nothing; its run is awaited by no one else.
LEMMA Returns ==
  ASSUME WaitOK, NEW f \in Flusher, waiting' = [waiting EXCEPT ![f] = {}]
  PROVE  WaitOK' /\ Awaited' = Awaited \ waiting[f]
<1>1. WaitOK'
  BY DEF WaitOK
<1>2. Awaited' = Awaited \ waiting[f]
  <2>1. ASSUME NEW p \in Awaited' PROVE p \in Awaited \ waiting[f]
    <3>1. PICK g \in Flusher : p \in waiting'[g]
      BY <2>1 DEF Awaited
    <3>2. g # f /\ p \in waiting[g]
      BY <3>1 DEF WaitOK
    <3>3. p \notin waiting[f]
      BY <3>2 DEF WaitOK
    <3>4. QED  BY <3>2, <3>3 DEF Awaited
  <2>2. ASSUME NEW p \in Awaited \ waiting[f] PROVE p \in Awaited'
    <3>1. PICK g \in Flusher : p \in waiting[g]
      BY <2>2 DEF Awaited
    <3>2. p \in waiting'[g]
      BY <2>2, <3>1 DEF WaitOK
    <3>3. QED  BY <3>2 DEF Awaited
  <2>3. QED  BY <2>1, <2>2
<1>3. QED  BY <1>1, <1>2

LEMMA AwaitedRuns ==
  ASSUME WaitOK
  PROVE  /\ Awaited \subseteq Run
         /\ \A f \in Flusher : waiting[f] \subseteq Awaited
<1>1. Awaited \subseteq Run
  <2>1. ASSUME NEW p \in Awaited PROVE p \in Run
    <3>1. PICK f \in Flusher : p \in waiting[f]
      BY <2>1 DEF Awaited
    <3>2. QED  BY <3>1 DEF WaitOK
  <2>2. QED  BY <2>1
<1>2. QED  BY <1>1 DEF Awaited

\* The dumps stay under way when a flusher returns from a run that is past its own.
LEMMA SameDumping ==
  ASSUME WaitOK, NEW f \in Flusher, NEW p \in waiting[f], waiting' = [waiting EXCEPT ![f] = {}],
         run[p].stage # "new",
         \A q \in Run : run'[q].stage = "new" <=> run[q].stage = "new"
  PROVE  Dumping' = Dumping
<1>1. waiting[f] = {p}
  BY DEF WaitOK
<1>2. Awaited \subseteq Run
  BY AwaitedRuns
<1>3. Awaited' = Awaited \ waiting[f]
  BY Returns
<1>4. QED  BY <1>1, <1>2, <1>3 DEF Dumping

\* The list a dump goes over.
LEMMA ListsOK ==
  ASSUME CaptureOK, DumpTypes, BufferIsLatest, NEW p \in Run, DumpOf(p)
  PROVE  ListOf(p) \in Seq(1..captured) /\ Consecutive(ListOf(p))
<1>1. CASE popped[p] # <<>>
  BY <1>1 DEF ListOf, DumpOf, DumpTypes
<1>2. CASE popped[p] = <<>>
  <2>1. buffer \in Seq(1..captured) /\ captured \in Nat /\ Len(buffer) \in Nat
    BY CallsAreBounded DEF CaptureOK
  <2>2. ASSUME NEW i \in DOMAIN buffer PROVE buffer[i] = buffer[1] + i - 1
    <3>1. i \in 1..Len(buffer) /\ 1 \in DOMAIN buffer
      BY <2>1
    <3>2. QED  BY <2>1, <3>1 DEF BufferIsLatest
  <2>3. QED  BY <1>2, <2>1, <2>2 DEF ListOf, Consecutive
<1>3. QED  BY <1>1, <1>2

\* A beginning keeps the order of the whole.
LEMMA BeginningsKeepOrder ==
  ASSUME NEW s \in Seq(Nat), NEW t \in Seq(Nat), IsBeginning(s, t)
  PROVE  /\ Increasing(t) => Increasing(s)
         /\ Consecutive(t) => Consecutive(s)
<1>1. \A i \in DOMAIN s : i \in DOMAIN t /\ t[i] = s[i]
  BY BeginningIsShared
<1>2. \A i \in DOMAIN s : 1 \in DOMAIN s
  OBVIOUS
<1>3. QED  BY <1>1, <1>2 DEF Increasing, Consecutive

\* A dump that goes on with its list as it was, or has ended.
LEMMA DumpStays ==
  ASSUME NEW p \in Run, DumpOf(p), UNCHANGED <<exposed, poison, buffer>>,
         \/ /\ file'[p] = file[p] /\ popped'[p] = popped[p]
            /\ p \in cut' <=> p \in cut
            /\ p \in Dumping' <=> p \in Dumping
         \/ /\ file'[p] = <<>> /\ popped'[p] = <<>>
            /\ p \notin Dumping',
         p \in cut' /\ run'[p].stage = "new" => p \in Awaited' \/ exited'
  PROVE  DumpOf(p)'
<1>1. CASE file'[p] = file[p] /\ popped'[p] = popped[p] /\ (p \in cut' <=> p \in cut)
           /\ (p \in Dumping' <=> p \in Dumping)
  <2>1. ListOf(p)' = ListOf(p)
    BY <1>1 DEF ListOf
  <2>2. QED  BY <1>1, <2>1 DEF DumpOf
<1>2. CASE file'[p] = <<>> /\ popped'[p] = <<>> /\ p \notin Dumping'
  <2>1. /\ Consecutive(<<>>) /\ Increasing(<<>>) /\ Range(<<>>) = {}
        /\ Before(<<>>, ListOf(p)')
    BY DEF Consecutive, Increasing, Before, Range
  <2>2. IsBeginning(<<>>, ListOf(p)')
    BY DEF IsBeginning
  <2>3. QED  BY <1>2, <2>1, <2>2 DEF DumpOf
<1>3. QED  BY <1>1, <1>2

\* A step that leaves the buffer and what is known of it alone: runs go on, flushers
\* return empty-handed, the host exits.
LEMMA GoesOnWithout ==
  ASSUME FlushInv, RecorderInv', WaitOK', DumpTypes', Awaited' \subseteq Awaited,
         UNCHANGED <<captureVars, buffer, cut, confirmed, skipped, concurrent>>,
         exited => exited',
         \A p \in Run : /\ run'[p].calls = run[p].calls
                        /\ run[p].stage # "new" => run'[p].stage # "new"
                        /\ run[p].stage = "exit" => run'[p].stage = "exit",
         \A p \in Run :
           \/ /\ file'[p] = file[p] /\ popped'[p] = popped[p]
              /\ p \in Dumping' <=> p \in Dumping
           \/ /\ file'[p] = <<>> /\ popped'[p] = <<>>
              /\ p \notin Dumping' /\ exited',
         \A p \in Awaited' : run'[p].stage # "new" => run[p].stage # "new",
         \A c : OnChain(c) => OnChain(c)',
         \A c \in poison : ~OnChain(c)'
  PROVE  FlushInv'
<1> USE DEF captureVars
<1>1. CaptureOK' /\ BufferIsLatest'
  BY DEF FlushInv, CaptureOK, BufferIsLatest
<1>2. RunsAreOrdered'
  BY DEF FlushInv, RunsAreOrdered
<1>3. \A p \in Run : Sent(p)' = Sent(p)
  BY DEF Sent
<1>4. Awaited \subseteq Run /\ confirmed \subseteq Run
  BY AwaitedRuns DEF FlushInv, CaptureOK
<1>5. Dumped' /\ Taken'
  BY <1>3, <1>4 DEF FlushInv, Dumped, Taken
<1>6. DumpsOK'
  <2>1. ASSUME NEW p \in Run PROVE DumpOf(p)'
    <3>1. DumpOf(p)
      BY DEF FlushInv, DumpsOK
    <3>2. p \in cut' /\ run'[p].stage = "new" => p \in Awaited' \/ exited'
      BY <3>1 DEF DumpOf, Dumping
    <3>3. \/ /\ file'[p] = file[p] /\ popped'[p] = popped[p]
             /\ p \in cut' <=> p \in cut
             /\ p \in Dumping' <=> p \in Dumping
          \/ /\ file'[p] = <<>> /\ popped'[p] = <<>>
             /\ p \notin Dumping'
      OBVIOUS
    <3>4. QED  BY <3>1, <3>2, <3>3, DumpStays
  <2>2. QED  BY <2>1 DEF FlushInv, DumpsOK
<1>7. Paired'
  <2>1. \A p \in Run : Listed(p)' = Listed(p) \/ Listed(p)' = Range(buffer)
    BY DEF Listed, ListOf, Range
  <2>2. \A p \in confirmed, q \in Run : Sent(p)' \cap Listed(q)' # {} => {p, q} \in concurrent
    BY <1>3, <1>4, <2>1 DEF FlushInv, Paired, Taken
  <2>3. QED  BY <1>3, <1>4, <2>2 DEF FlushInv, Paired
<1>8. LossNeedsOverlap'
  <2>1. \A c : Buffered(c)' <=> Buffered(c)
    BY DEF Buffered
  <2>2. QED  BY <2>1 DEF FlushInv, LossNeedsOverlap
<1>9. QED  BY <1>1, <1>2, <1>5, <1>6, <1>7, <1>8 DEF FlushInv

\* A call in a session is a call of its run.
LEMMA OnChainIsSent ==
  ASSUME RecorderInv, NEW c, OnChain(c)
  PROVE  \E p \in Run : c \in Sent(p)
<1>1. PICK p \in DOMAIN onchain : \E i \in DOMAIN onchain[p].calls : onchain[p].calls[i] = c
  BY DEF OnChain
<1>2. p \in Run /\ onchain[p] \in SessionState /\ run[p] \in RunState
  BY DEF RecorderInv, RunsOK
<1>3. IsBeginning(onchain[p].calls, run[p].calls)
  BY DEF RecorderInv, SessionsTellTheTruth
<1>4. PICK i \in DOMAIN onchain[p].calls : onchain[p].calls[i] = c
  BY <1>1
<1>5. i \in DOMAIN run[p].calls /\ run[p].calls[i] = c
  <2>1. onchain[p].calls \in Seq(Nat) /\ run[p].calls \in Seq(Nat)
    BY <1>2 DEF SessionState, RunState
  <2>2. QED  BY <1>3, <1>4, <2>1, BeginningIsShared
<1>6. QED  BY <1>2, <1>5 DEF Sent, Range

NoPoison == \A c \in poison : ~OnChain(c)

LEMMA NoPoisonOnChain == RecorderInv /\ RunsAreOrdered => NoPoison
<1> SUFFICES ASSUME RecorderInv, RunsAreOrdered PROVE NoPoison
  OBVIOUS
<1>1. \A p \in Run : Sent(p) \cap poison = {}
  BY DEF RunsAreOrdered, Sent, Range
<1>2. QED  BY <1>1, OnChainIsSent DEF NoPoison

-----------------------------------------------------------------------------
LEMMA CliStepKeeps ==
  ASSUME FlushInv, CliStep
  PROVE  FlushInv'
<1> USE DEF FlushInv
<1>1. PICK p \in Run : RunStep(p)
  BY DEF CliStep
<1>2. RecorderInv' /\ Others(p) /\ GoesOn(p)
  BY <1>1, RunStepKeeps
<1>3. /\ UNCHANGED <<captureVars, buffer, cut, confirmed, skipped, concurrent>>
      /\ UNCHANGED <<waiting, file, popped, exited>>
  BY DEF CliStep, flushVars, dumpVars
<1>4. Awaited' = Awaited /\ WaitOK' /\ DumpTypes'
  BY <1>3 DEF Awaited, WaitOK, DumpTypes, captureVars
<1>5. \A q \in Run : /\ run'[q].calls = run[q].calls
                     /\ run'[q].stage = "new" <=> run[q].stage = "new"
                     /\ run[q].stage = "exit" => run'[q].stage = "exit"
  BY <1>2 DEF Others, GoesOn
<1>6. RunsAreOrdered'
  BY <1>3, <1>5 DEF RunsAreOrdered, captureVars
<1>7. \A c \in poison : ~OnChain(c)'
  <2>1. NoPoison'
    BY <1>2, <1>6, NoPoisonOnChain, PTL
  <2>2. QED  BY <1>3, <2>1 DEF NoPoison, captureVars
<1>8. \A c : OnChain(c) => OnChain(c)'
  BY <1>2, ChainGrows
<1>9. \A q \in Run : q \in Dumping' <=> q \in Dumping
  BY <1>4, <1>5 DEF Dumping
<1>10. \A q \in Awaited' : run'[q].stage # "new" => run[q].stage # "new"
  BY <1>4, <1>5, AwaitedRuns
<1>11. QED  BY <1>2, <1>3, <1>4, <1>5, <1>7, <1>8, <1>9, <1>10, GoesOnWithout

\* A flusher returns with the buffer as it is.
LEMMA ReturnKeeps ==
  ASSUME FlushInv, NEW f \in Flusher, NEW p \in waiting[f], run[p].stage = "exit",
         FlushFailed(f, p) \/ FlushUnparsed(f, p)
  PROVE  FlushInv'
<1> USE DEF FlushInv
<1>1. /\ UNCHANGED <<captureVars, buffer, cut, confirmed, skipped, concurrent>>
      /\ UNCHANGED <<onchain, run, file, popped, exited>>
      /\ waiting' = [waiting EXCEPT ![f] = {}]
  BY DEF FlushFailed, FlushUnparsed, Retain, recorderVars, dumpVars
<1>2. faults' \in 0..MaxFaults
  BY ChargeOK DEF FlushFailed, FlushUnparsed, recorderVars, RecorderInv, RunsOK
<1>3. RecorderInv'
  BY <1>1, <1>2
  DEF RecorderInv, RunsOK, RunIsWhereItSays, WhereItSays, SessionsTellTheTruth
<1>4. WaitOK' /\ Awaited' \subseteq Awaited
  BY <1>1, Returns
<1>5. DumpTypes' /\ Dumping' = Dumping
  BY <1>1, SameDumping DEF DumpTypes, captureVars
<1>6. \A c : OnChain(c)' <=> OnChain(c)
  BY <1>1 DEF OnChain
<1>7. \A c \in poison : ~OnChain(c)'
  BY <1>6, NoPoisonOnChain DEF NoPoison
<1>8. QED  BY <1>1, <1>3, <1>4, <1>5, <1>6, <1>7, GoesOnWithout

LEMMA TimeoutKeeps ==
  ASSUME FlushInv, NEW f \in Flusher, FlushTimeout(f)
  PROVE  FlushInv'
<1> USE DEF FlushInv
<1>1. PICK p \in waiting[f] :
        /\ run[p].stage \notin {"new", "exit"}
        /\ Charge("lost")
        /\ Retain(f)
        /\ run' = run \/ Exit(p, "killed")
        /\ onchain' = onchain
  BY DEF FlushTimeout
<1>2. p \in Awaited /\ p \in Run
  BY AwaitedRuns
<1>3. /\ UNCHANGED <<captureVars, buffer, cut, confirmed, skipped, concurrent>>
      /\ UNCHANGED <<onchain, file, popped, exited>>
      /\ waiting' = [waiting EXCEPT ![f] = {}]
  BY <1>1 DEF Retain, dumpVars
<1>4. RunsOK /\ WhereItSays(p) /\ SessionsTellTheTruth /\ run[p].stage # "new"
  BY <1>1, <1>2 DEF RecorderInv, RunIsWhereItSays
<1>5. faults' \in 0..MaxFaults
  BY <1>1, <1>4, ChargeOK DEF RunsOK
<1>6. run' = run \/ Becomes(p, "exit", run[p].done, "killed")
  BY <1>1, <1>2, <1>4, Exits DEF Result
<1>7. \A q \in Run : /\ run'[q].calls = run[q].calls
                     /\ run'[q].stage = "new" <=> run[q].stage = "new"
                     /\ run[q].stage = "exit" => run'[q].stage = "exit"
  BY <1>4, <1>6 DEF Becomes
<1>8. RecorderInv'
  <2>1. CASE run' = run
    BY <1>3, <1>5, <2>1
    DEF RecorderInv, RunsOK, RunIsWhereItSays, WhereItSays, SessionsTellTheTruth
  <2>2. CASE Becomes(p, "exit", run[p].done, "killed")
    <3>1. RunsOK' /\ Others(p)
      BY <1>3, <1>4, <1>5, <2>2 DEF RunsOK, Becomes, Others
    <3>2. WhereItSays(p)'
      BY <1>3, <2>2 DEF WhereItSays, Becomes
    <3>3. p \in DOMAIN onchain => onchain[p].status # "Failed" /\ run[p].result = "none"
      BY <1>1, <1>2, <1>4 DEF WhereItSays, SessionsTellTheTruth
    <3>4. Truth(p)'
      BY <1>2, <1>3, <1>4, <2>2, <3>3 DEF SessionsTellTheTruth, Truth, Becomes
    <3>5. QED  BY <1>2, <3>1, <3>2, <3>4, OneRun
  <2>3. QED  BY <1>6, <2>1, <2>2
<1>9. WaitOK' /\ Awaited' \subseteq Awaited
  BY <1>3, Returns
<1>10. DumpTypes' /\ Dumping' = Dumping
  BY <1>3, <1>4, <1>7, SameDumping DEF DumpTypes, captureVars
<1>11. \A q \in Awaited' : run'[q].stage # "new" => run[q].stage # "new"
  BY <1>7, <1>9, AwaitedRuns
<1>12. \A c : OnChain(c)' <=> OnChain(c)
  BY <1>3 DEF OnChain
<1>13. \A c \in poison : ~OnChain(c)'
  BY <1>12, NoPoisonOnChain DEF NoPoison
<1>14. QED  BY <1>3, <1>7, <1>8, <1>9, <1>10, <1>11, <1>12, <1>13, GoesOnWithout

LEMMA HostExitsKeeps ==
  ASSUME FlushInv, HostExits
  PROVE  FlushInv'
<1> USE DEF FlushInv
<1>1. /\ UNCHANGED <<captureVars, buffer, cut, confirmed, skipped, concurrent>>
      /\ UNCHANGED <<onchain, run, faults>>
      /\ waiting' = [f \in Flusher |-> {}]
      /\ file' = [p \in Run |-> <<>>] /\ popped' = [p \in Run |-> <<>>]
      /\ exited'
  BY DEF HostExits, recorderVars
<1>2. RecorderInv'
  BY <1>1
  DEF RecorderInv, RunsOK, RunIsWhereItSays, WhereItSays, SessionsTellTheTruth
<1>3. WaitOK' /\ Awaited' = {} /\ Dumping' = {} /\ DumpTypes'
  BY <1>1 DEF WaitOK, Awaited, Dumping, DumpTypes
<1>4. \A c : OnChain(c)' <=> OnChain(c)
  BY <1>1 DEF OnChain
<1>5. \A c \in poison : ~OnChain(c)'
  BY <1>4, NoPoisonOnChain DEF NoPoison
<1>6. QED  BY <1>1, <1>2, <1>3, <1>4, <1>5, GoesOnWithout

LEMMA SeqMonotone ==
  ASSUME NEW S, NEW T, S \subseteq T, NEW s \in Seq(S)
  PROVE  s \in Seq(T)
<1>1. s \in [1..Len(s) -> T] /\ Len(s) \in Nat
  OBVIOUS
<1>2. QED  BY <1>1

LEMMA CapturedKeeps ==
  ASSUME FlushInv, NEW vals \in Seq(Value), Captured(vals)
  PROVE  FlushInv'
<1> DEFINE n == Len(vals)
           new == {captured + i : i \in 1..n}
<1> USE DEF FlushInv
<1>1. /\ n \in Nat /\ captured \in Nat /\ MaxCalls \in Nat
      /\ captured + n <= MaxCalls /\ captured' = captured + n
      /\ buffer' = buffer \o [i \in 1..n |-> captured + i]
      /\ exposed' = IF Awaited = {} THEN exposed ELSE exposed \cup new
      /\ poison \subseteq poison' /\ poison' \subseteq poison \cup new
      /\ ~exited /\ ~exited'
      /\ UNCHANGED <<onchain, run, faults, hermes, waiting, confirmed, skipped, concurrent>>
      /\ UNCHANGED <<file, popped, cut>>
  BY CallsAreBounded DEF Captured, recorderVars, dumpVars, CaptureOK
<1>2. /\ buffer \in Seq(Nat) /\ Len(buffer) <= captured
      /\ \A i \in DOMAIN buffer : buffer[i] = captured - Len(buffer) + i
  BY <1>1 DEF CaptureOK, BufferIsLatest
<1>3. /\ buffer' \in Seq(1..captured') /\ Len(buffer') = Len(buffer) + n
      /\ \A i \in 1..Len(buffer) : buffer'[i] = buffer[i]
      /\ \A i \in 1..n : buffer'[Len(buffer) + i] = captured + i
      /\ \A i \in DOMAIN buffer' : buffer'[i] = captured' - Len(buffer') + i
  <2> DEFINE more == [i \in 1..n |-> captured + i]
  <2>1. more \in Seq(1..captured') /\ Len(more) = n
    BY <1>1
  <2>2. buffer \in Seq(1..captured')
    <3>1. 1..captured \subseteq 1..captured'
      BY <1>1
    <3>2. QED  BY <3>1, SeqMonotone DEF CaptureOK
  <2>3. buffer' \in Seq(1..captured') /\ Len(buffer') = Len(buffer) + n
    BY <1>1, <2>1, <2>2
  <2>4. \A i \in 1..Len(buffer) : buffer'[i] = buffer[i]
    BY <1>1, <1>2
  <2>5. \A i \in 1..n : buffer'[Len(buffer) + i] = captured + i
    BY <1>1, <1>2
  <2>6. ASSUME NEW i \in 1..Len(buffer') PROVE buffer'[i] = captured' - Len(buffer') + i
    <3>1. CASE i \in 1..Len(buffer)
      <4>1. buffer'[i] = captured - Len(buffer) + i
        BY <1>2, <2>4, <3>1
      <4>2. QED  BY <1>1, <1>2, <2>3, <3>1, <4>1
    <3>2. CASE i \notin 1..Len(buffer)
      <4>1. i - Len(buffer) \in 1..n /\ i = Len(buffer) + (i - Len(buffer))
        BY <1>1, <1>2, <2>3, <3>2
      <4>2. buffer'[i] = captured + (i - Len(buffer))
        BY <2>5, <4>1
      <4>3. QED  BY <1>1, <1>2, <2>3, <4>2
    <3>3. QED  BY <3>1, <3>2
  <2>7. QED  BY <2>3, <2>4, <2>5, <2>6
<1>4. Range(buffer') = Range(buffer) \cup new
  <2>1. ASSUME NEW i \in 1..Len(buffer) PROVE buffer[i] \in Range(buffer')
    <3>1. i \in DOMAIN buffer'
      BY <1>1, <1>2, <1>3
    <3>2. QED  BY <1>3, <3>1 DEF Range
  <2>2. ASSUME NEW i \in 1..n PROVE captured + i \in Range(buffer')
    <3>1. Len(buffer) + i \in DOMAIN buffer'
      BY <1>1, <1>2, <1>3
    <3>2. QED  BY <1>3, <3>1 DEF Range
  <2>3. ASSUME NEW i \in DOMAIN buffer' PROVE buffer'[i] \in Range(buffer) \cup new
    <3>1. CASE i \in 1..Len(buffer)
      BY <1>2, <1>3, <3>1 DEF Range
    <3>2. CASE i \notin 1..Len(buffer)
      <4>1. i - Len(buffer) \in 1..n /\ i = Len(buffer) + (i - Len(buffer))
        BY <1>1, <1>2, <1>3, <3>2
      <4>2. buffer'[i] = captured + (i - Len(buffer))
        BY <1>3, <4>1
      <4>3. QED  BY <4>1, <4>2
    <3>3. QED  BY <3>1, <3>2
  <2>4. DOMAIN buffer = 1..Len(buffer)
    BY <1>2
  <2>5. QED  BY <2>1, <2>2, <2>3, <2>4 DEF Range
<1>5. new = (captured + 1)..captured'
  <2>1. \A c \in (captured + 1)..captured' : c - captured \in 1..n /\ c = captured + (c - captured)
    BY <1>1
  <2>2. \A i \in 1..n : captured + i \in (captured + 1)..captured'
    BY <1>1
  <2>3. QED  BY <2>1, <2>2
<1> HIDE DEF new
<1>6. /\ Awaited' = Awaited /\ Dumping' = Dumping
      /\ \A p \in Run : Sent(p)' = Sent(p)
  BY <1>1 DEF Awaited, Dumping, Sent
<1>7. \A p \in Run : Sent(p) \subseteq 1..captured
  BY DEF RunsAreOrdered, Sent
<1>8. Awaited \subseteq Run /\ confirmed \subseteq Run
  BY AwaitedRuns DEF CaptureOK
<1>9. RecorderInv' /\ WaitOK'
  BY <1>1
  DEF RecorderInv, RunsOK, RunIsWhereItSays, WhereItSays, SessionsTellTheTruth, WaitOK
<1>10. CaptureOK' /\ BufferIsLatest' /\ DumpTypes'
  <2>1. captured' \in 0..MaxCalls /\ 1..captured \subseteq 1..captured'
    BY <1>1
  <2>2. skipped' \cup exposed' \cup poison' \subseteq 1..captured'
    BY <1>1, <1>5, <2>1 DEF CaptureOK
  <2>3. Len(buffer') <= captured'
    BY <1>1, <1>2, <1>3
  <2>4. CaptureOK' /\ BufferIsLatest'
    BY <1>1, <1>3, <2>1, <2>2, <2>3 DEF CaptureOK, BufferIsLatest
  <2>5. Seq(1..captured) \subseteq Seq(1..captured')
    BY <2>1, SeqMonotone
  <2>6. DumpTypes'
    BY <1>1, <2>5 DEF DumpTypes
  <2>7. QED  BY <2>4, <2>6
<1>11. RunsAreOrdered'
  <2>1. ASSUME NEW c \in (1..captured) \ poison PROVE c \in (1..captured') \ poison'
    BY <1>1, <1>5
  <2>2. QED  BY <1>1, <2>1 DEF RunsAreOrdered
<1>12. DumpsOK' /\ \A p \in Run : Listed(p)' \subseteq Listed(p) \cup new
  <2>1. ASSUME NEW p \in Run PROVE DumpOf(p)' /\ Listed(p)' \subseteq Listed(p) \cup new
    <3> DEFINE T == 1..captured
    <3>1. DumpOf(p) /\ file[p] \in Seq(T) /\ Len(file[p]) \in Nat
      BY DEF DumpsOK, DumpTypes
    <3>2. \A i \in DOMAIN file[p] : file[p][i] \in 1..captured
      <4> HIDE DEF T
      <4>1. \A i \in DOMAIN file[p] : file[p][i] \in T
        BY <3>1
      <4>2. QED  BY <4>1 DEF T
    <3>3. Range(file[p]) \cap poison' = {}
      <4>1. Range(file[p]) \cap new = {}
        BY <1>1, <1>5, <3>2 DEF Range
      <4>2. QED  BY <1>1, <3>1, <4>1 DEF DumpOf
    <3>4. CASE popped[p] # <<>>
      <4>1. ListOf(p)' = ListOf(p)
        BY <1>1, <3>4 DEF ListOf
      <4>2. Listed(p)' = Listed(p)
        BY <1>1, <4>1 DEF Listed
      <4>3. p \in Dumping => Awaited # {}
        BY DEF Dumping
      <4>4. p \in Dumping => Range(buffer') \subseteq exposed'
        BY <1>1, <1>4, <3>1, <3>4, <4>3 DEF DumpOf
      <4>5. QED  BY <1>1, <1>6, <3>1, <3>3, <4>1, <4>2, <4>4 DEF DumpOf
    <3>5. CASE popped[p] = <<>>
      <4>1. ListOf(p) = buffer /\ ListOf(p)' = buffer'
        BY <1>1, <3>5 DEF ListOf
      <4>2. Listed(p)' \subseteq Listed(p) \cup new
        BY <1>1, <1>4, <4>1 DEF Listed
      <4>3. p \in Dumping => Awaited # {}
        BY DEF Dumping
      <4>4. p \in Dumping /\ p \in cut => Range(buffer') \subseteq exposed'
        BY <1>1, <1>4, <3>1, <4>3 DEF DumpOf
      <4>5. ASSUME NEW i \in DOMAIN file[p], NEW j \in DOMAIN buffer', j > Len(file[p])
            PROVE  file[p][i] < buffer'[j]
        <5>1. CASE j \in 1..Len(buffer)
          <6>1. j \in DOMAIN buffer /\ buffer'[j] = buffer[j]
            BY <1>2, <1>3, <5>1
          <6>2. QED  BY <3>1, <4>1, <4>5, <6>1 DEF DumpOf, Before
        <5>2. CASE j \notin 1..Len(buffer)
          <6>1. j - Len(buffer) \in 1..n /\ j = Len(buffer) + (j - Len(buffer))
            BY <1>1, <1>2, <1>3, <4>5, <5>2
          <6>2. buffer'[j] = captured + (j - Len(buffer))
            BY <1>3, <6>1
          <6>3. file[p][i] \in 1..captured
            BY <3>2
          <6>4. QED  BY <1>1, <6>1, <6>2, <6>3
        <5>3. QED  BY <5>1, <5>2
      <4>6. p \notin cut => IsBeginning(file[p], buffer')
        <5>1. p \notin cut => IsBeginning(file[p], buffer)
          BY <3>1, <4>1 DEF DumpOf
        <5>2. Len(buffer) <= Len(buffer')
          BY <1>1, <1>2, <1>3
        <5>3. \A i \in 1..Len(buffer) : buffer'[i] = buffer[i]
          BY <1>3
        <5>4. ASSUME IsBeginning(file[p], buffer) PROVE IsBeginning(file[p], buffer')
          <6>1. Len(file[p]) <= Len(buffer) /\ \A i \in DOMAIN file[p] : file[p][i] = buffer[i]
            BY <5>4 DEF IsBeginning
          <6>2. DOMAIN file[p] = 1..Len(file[p])
            BY <3>1
          <6>3. \A i \in DOMAIN file[p] : i \in 1..Len(buffer)
            BY <1>2, <3>1, <6>1, <6>2
          <6>4. Len(file[p]) <= Len(buffer')
            BY <1>1, <1>2, <1>3, <3>1, <6>1
          <6>5. QED  BY <5>3, <6>1, <6>3, <6>4 DEF IsBeginning
        <5>5. QED  BY <5>1, <5>4
      <4>7. Before(file[p], buffer')
        BY <4>5 DEF Before
      <4>8. QED  BY <1>1, <1>6, <3>1, <3>3, <3>5, <4>1, <4>2, <4>4, <4>6, <4>7 DEF DumpOf
    <3>6. QED  BY <3>4, <3>5
  <2>2. QED  BY <1>1, <2>1 DEF DumpsOK
<1>13. Dumped' /\ Taken' /\ Paired'
  <2>1. \A p \in Run : Sent(p) \cap new = {}
    BY <1>1, <1>5, <1>7
  <2>2. Dumped'
    BY <1>1, <1>4, <1>6, <1>8 DEF Dumped
  <2>3. Taken'
    BY <1>1, <1>4, <1>6, <1>8, <2>1 DEF Taken
  <2>4. \A p \in confirmed, q \in Run : Sent(p)' \cap Listed(q)' # {} => {p, q} \in concurrent
    BY <1>6, <1>8, <1>12, <2>1 DEF Paired
  <2>5. Paired'
    BY <1>1, <1>6, <1>8, <2>4 DEF Paired
  <2>6. QED  BY <2>2, <2>3, <2>5
<1>14. LossNeedsOverlap'
  <2>1. \A c : Buffered(c) <=> c \in Range(buffer)
    BY DEF Buffered, Range
  <2>2. \A c : Buffered(c)' <=> c \in Range(buffer')
    BY DEF Buffered, Range
  <2>3. \A c : OnChain(c)' <=> OnChain(c)
    BY <1>1 DEF OnChain
  <2>4. ASSUME NEW c \in 1..captured', c \notin exposed'
        PROVE  exited' \/ Buffered(c)' \/ OnChain(c)' \/ c \in skipped'
    <3>1. CASE c \in new
      BY <1>4, <2>2, <3>1
    <3>2. CASE c \notin new
      <4>1. c \in 1..captured /\ c \notin exposed
        BY <1>1, <1>5, <2>4, <3>2
      <4>2. Buffered(c) \/ OnChain(c) \/ c \in skipped
        BY <1>1, <4>1 DEF LossNeedsOverlap
      <4>3. QED  BY <1>1, <1>4, <2>1, <2>2, <2>3, <4>2
    <3>3. QED  BY <3>1, <3>2
  <2>5. ASSUME NEW c \in poison'
        PROVE  ~OnChain(c)' /\ (c \notin exposed' => c..captured' \subseteq Range(buffer'))
    <3>1. CASE c \in poison
      <4>1. ~OnChain(c) /\ (c \notin exposed => c..captured \subseteq Range(buffer))
        BY <3>1 DEF LossNeedsOverlap
      <4>2. c \in 1..captured /\ (c \notin exposed' => c \notin exposed)
        BY <1>1, <3>1 DEF CaptureOK
      <4>3. c..captured' \subseteq c..captured \cup new
        BY <1>1, <1>5, <4>2
      <4>4. QED  BY <1>4, <2>3, <4>1, <4>2, <4>3
    <3>2. CASE c \in new
      <4>1. ~OnChain(c)
        BY <1>1, <1>5, <1>7, <3>2, OnChainIsSent
      <4>2. c..captured' \subseteq new
        BY <1>1, <1>5, <3>2
      <4>3. QED  BY <1>4, <2>3, <4>1, <4>2
    <3>3. QED  BY <1>1, <2>5, <3>1, <3>2
  <2>6. QED  BY <2>4, <2>5 DEF LossNeedsOverlap
<1>15. QED  BY <1>9, <1>10, <1>11, <1>12, <1>13, <1>14

LEMMA CaptureKeeps ==
  ASSUME FlushInv, Capture
  PROVE  FlushInv'
<1>1. ASSUME NEW v \in Value PROVE <<v>> \in Seq(Value) /\ <<Safe(v)>> \in Seq(Value)
  BY DEF Value, Safe
<1>2. CASE \E v \in Value : Step(v) \/ HermesRecord(v) \/ OnItem(v) \/ HandlerEnds(v)
  BY <1>1, <1>2, CapturedKeeps DEF Step, HermesRecord, OnItem, HandlerEnds
<1>3. CASE OnTranscript
  BY <1>1, <1>3, CapturedKeeps DEF OnTranscript, Value, Safe
<1>4. CASE \E calls, outputs \in 0..MaxCalls : calls > 0 /\ OnTools(calls, outputs)
  <2>1. PICK calls, outputs \in 0..MaxCalls : OnTools(calls, outputs)
    BY <1>4
  <2> DEFINE k == IF outputs = 0 \/ outputs > calls THEN calls ELSE outputs
             vals == [i \in 1..k |-> "plain"]
  <2>2. k \in Nat
    BY CallsAreBounded
  <2>3. vals \in Seq(Value)
    BY <2>2 DEF Value
  <2>4. Captured(vals)
    BY <2>1 DEF OnTools
  <2> HIDE DEF vals
  <2>5. QED  BY <2>3, <2>4, CapturedKeeps
<1>5. QED  BY <1>2, <1>3, <1>4 DEF Capture

\* The list of the dump that begins is the buffer, from which all that was confirmed
\* has been taken.
LEMMA BeginFlushKeeps ==
  ASSUME FlushInv, NEW f \in Flusher, NEW p \in Run, BeginFlush(f, p)
  PROVE  FlushInv'
<1> USE DEF FlushInv
<1>1. /\ ~exited /\ run[p].stage = "new" /\ waiting[f] = {} /\ p \notin Awaited
      /\ waiting' = [waiting EXCEPT ![f] = {p}]
      /\ concurrent' = concurrent \cup {{p, q} : q \in Awaited}
      /\ UNCHANGED <<onchain, run, faults, hermes, captured, exposed, poison, buffer>>
      /\ UNCHANGED <<file, popped, cut, confirmed, skipped, exited>>
  BY DEF BeginFlush, captureVars, dumpVars, recorderVars
<1>2. RecorderInv' /\ CaptureOK' /\ DumpTypes' /\ BufferIsLatest' /\ RunsAreOrdered'
  BY <1>1
  DEF RecorderInv, RunsOK, RunIsWhereItSays, WhereItSays, SessionsTellTheTruth, CaptureOK,
      DumpTypes, BufferIsLatest, RunsAreOrdered
<1>3. Awaited' = Awaited \cup {p}
  <2>1. waiting'[f] = {p} /\ \A g \in Flusher \ {f} : waiting'[g] = waiting[g]
    BY <1>1 DEF WaitOK
  <2>2. QED  BY <1>1, <2>1 DEF Awaited
<1>4. WaitOK'
  <2>1. waiting' \in [Flusher -> {{}} \cup {{q} : q \in Run}]
    BY <1>1 DEF WaitOK
  <2>2. \A g \in Flusher : p \notin waiting[g]
    BY <1>1 DEF Awaited
  <2>3. QED  BY <1>1, <2>1, <2>2 DEF WaitOK
<1>5. Awaited \subseteq Run /\ confirmed \subseteq Run /\ p \notin confirmed
  BY <1>1, AwaitedRuns DEF CaptureOK, Taken
<1>6. \A q \in Run : Sent(q)' = Sent(q) /\ Listed(q)' = Listed(q) /\ ListOf(q)' = ListOf(q)
  BY <1>1 DEF Sent, Listed, ListOf
<1>7. DumpsOK'
  <2>1. ASSUME NEW q \in Run, q # p PROVE DumpOf(q)'
    <3>1. DumpOf(q) /\ (q \in Awaited' <=> q \in Awaited)
      BY <1>3, <2>1 DEF DumpsOK
    <3>2. q \in Dumping' <=> q \in Dumping
      BY <1>1, <3>1 DEF Dumping
    <3>3. q \in cut' /\ run'[q].stage = "new" => q \in Awaited' \/ exited'
      BY <1>1, <3>1 DEF DumpOf
    <3>4. QED  BY <1>1, <3>1, <3>2, <3>3, DumpStays
  <2>2. DumpOf(p)'
    <3>1. DumpOf(p) /\ p \notin cut /\ p \notin Dumping
      BY <1>1 DEF DumpsOK, DumpOf, Dumping
    <3>2. file[p] = <<>> /\ popped[p] = <<>>
      BY <3>1 DEF DumpOf
    <3>3. QED  BY <1>1, <1>6, <3>1, <3>2 DEF DumpOf
  <2>3. QED  BY <1>1, <2>1, <2>2 DEF DumpsOK
<1>8. Dumped' /\ Taken'
  BY <1>1, <1>3, <1>5, <1>6 DEF Dumped, Taken
<1>9. Paired'
  <2>1. Sent(p) = {}
    BY <1>1 DEF RecorderInv, RunIsWhereItSays, WhereItSays, Sent, Range
  <2>2. \A q, r \in Awaited' : q # r => {q, r} \in concurrent'
    <3>1. \A q \in Awaited : {p, q} \in concurrent' /\ {q, p} \in concurrent'
      BY <1>1
    <3>2. QED  BY <1>1, <1>3, <3>1 DEF Paired
  <2>3. \A q \in confirmed, r \in Run : Sent(q)' \cap Listed(r)' # {} => {q, r} \in concurrent'
    BY <1>1, <1>5, <1>6 DEF Paired
  <2>4. \A q \in confirmed, r \in Awaited' : Sent(q)' \cap Sent(r)' # {} => {q, r} \in concurrent'
    BY <1>1, <1>3, <1>5, <1>6, <2>1 DEF Paired
  <2>5. QED  BY <1>1, <1>5, <1>6, <2>2, <2>3, <2>4 DEF Paired
<1>10. LossNeedsOverlap'
  <2>1. \A c : (OnChain(c)' <=> OnChain(c)) /\ (Buffered(c)' <=> Buffered(c))
    BY <1>1 DEF OnChain, Buffered
  <2>2. QED  BY <1>1, <2>1 DEF LossNeedsOverlap
<1>11. QED  BY <1>2, <1>4, <1>7, <1>8, <1>9, <1>10

\* r is s and the next element of t.
TakesNext(n, m, s, t, r) ==
  /\ n \in Nat /\ m \in Nat /\ n < m
  /\ DOMAIN s = 1..n /\ DOMAIN t = 1..m /\ DOMAIN r = 1..(n + 1)
  /\ Len(s) = n /\ Len(r) = n + 1
  /\ \A i \in 1..n : s[i] \in Nat /\ r[i] = s[i]
  /\ \A j \in 1..m : t[j] \in Nat
  /\ r[n + 1] = t[n + 1]

LEMMA OrderGrows ==
  ASSUME NEW n, NEW m, NEW s, NEW t, NEW r, TakesNext(n, m, s, t, r),
         Increasing(s), Before(s, t), Consecutive(t)
  PROVE  Increasing(r) /\ Before(r, t) /\ Range(r) = Range(s) \cup {t[n + 1]}
<1>1. /\ n \in Nat /\ m \in Nat /\ n < m
      /\ DOMAIN s = 1..n /\ DOMAIN t = 1..m /\ DOMAIN r = 1..(n + 1)
  BY DEF TakesNext
<1>2. /\ \A i \in 1..n : s[i] \in Nat /\ r[i] = s[i]
      /\ r[n + 1] = t[n + 1]
  BY DEF TakesNext
<1>3. n + 1 \in 1..m /\ 1 \in 1..m /\ \A i \in 1..(n + 1) : i \in 1..n \/ i = n + 1
  BY <1>1
<1>4. \A j \in 1..m : t[j] \in Nat /\ t[j] = t[1] + j - 1
  BY <1>1 DEF Consecutive, TakesNext
<1>5. \A i \in 1..n, j \in 1..m : j > n => s[i] < t[j]
  BY <1>1 DEF Before, TakesNext
<1>6. ASSUME NEW i \in 1..(n + 1), NEW j \in 1..(n + 1), i < j PROVE r[i] < r[j]
  <2>1. i \in 1..n
    BY <1>1, <1>6
  <2>2. CASE j = n + 1
    <3>1. s[i] < t[n + 1]
      BY <1>1, <1>3, <1>5, <2>1
    <3>2. QED  BY <1>2, <2>1, <2>2, <3>1
  <2>3. CASE j \in 1..n
    <3>1. s[i] < s[j]
      BY <1>1, <1>6, <2>1, <2>3 DEF Increasing
    <3>2. QED  BY <1>2, <2>1, <2>3, <3>1
  <2>4. QED  BY <1>3, <2>2, <2>3
<1>7. ASSUME NEW i \in 1..(n + 1), NEW j \in 1..m, j > n + 1 PROVE r[i] < t[j]
  <2>1. CASE i = n + 1
    <3>1. t[n + 1] = t[1] + (n + 1) - 1 /\ t[j] = t[1] + j - 1 /\ t[1] \in Nat
      BY <1>3, <1>4
    <3>2. QED  BY <1>1, <1>2, <1>7, <2>1, <3>1
  <2>2. CASE i \in 1..n
    <3>1. s[i] < t[j]
      BY <1>1, <1>5, <1>7, <2>2
    <3>2. QED  BY <1>2, <2>2, <3>1
  <2>3. QED  BY <1>3, <2>1, <2>2
<1>8. Increasing(r)
  BY <1>1, <1>6 DEF Increasing
<1>9. Before(r, t)
  BY <1>1, <1>7 DEF Before, TakesNext
<1>10. Range(r) = Range(s) \cup {t[n + 1]}
  <2>1. 1..n \subseteq 1..(n + 1) /\ n + 1 \in 1..(n + 1)
    BY <1>1
  <2>2. QED  BY <1>1, <1>2, <1>3, <2>1 DEF Range
<1>11. QED  BY <1>8, <1>9, <1>10

\* What the next call adds to what a dump has written.
LEMMA DumpGoesOn ==
  ASSUME NEW s \in Seq(Nat), NEW t \in Seq(Nat), Len(s) + 1 \in DOMAIN t,
         Increasing(s), Before(s, t), Consecutive(t)
  PROVE  LET r == Append(s, t[Len(s) + 1]) IN
         /\ Increasing(r) /\ Before(r, t)
         /\ IsBeginning(s, t) => IsBeginning(r, t)
         /\ Range(r) = Range(s) \cup {t[Len(s) + 1]}
<1> DEFINE r == Append(s, t[Len(s) + 1])
<1>1. Len(s) < Len(t) /\ t[Len(s) + 1] \in Nat
  OBVIOUS
<1>2. TakesNext(Len(s), Len(t), s, t, r)
  BY <1>1 DEF TakesNext
<1>3. IsBeginning(s, t) => IsBeginning(r, t)
  BY <1>1, BeginningGrows
<1> HIDE DEF r
<1>4. Increasing(r) /\ Before(r, t) /\ Range(r) = Range(s) \cup {t[Len(s) + 1]}
  BY <1>2, OrderGrows
<1>5. QED  BY <1>3, <1>4 DEF r

LEMMA DumpCallKeeps ==
  ASSUME FlushInv, NEW p \in Dumping, DumpCall(p)
  PROVE  FlushInv'
<1> USE DEF FlushInv
<1> DEFINE c == ListOf(p)[Len(file[p]) + 1]
<1>1. /\ Len(file[p]) + 1 \in DOMAIN ListOf(p) /\ c \notin poison
      /\ file' = [file EXCEPT ![p] = Append(file[p], c)]
      /\ UNCHANGED <<onchain, run, faults, hermes, captured, exposed, poison, buffer>>
      /\ UNCHANGED <<waiting, popped, cut, confirmed, skipped, concurrent, exited>>
  BY DEF DumpCall, Index, captureVars, recorderVars
<1>2. /\ RecorderInv' /\ WaitOK' /\ CaptureOK' /\ BufferIsLatest' /\ RunsAreOrdered'
      /\ Awaited' = Awaited /\ Dumping' = Dumping /\ \A q \in Run : Sent(q)' = Sent(q)
  <2>1. RecorderInv'
    BY <1>1
    DEF RecorderInv, RunsOK, RunIsWhereItSays, WhereItSays, SessionsTellTheTruth
  <2>2. WaitOK' /\ CaptureOK' /\ BufferIsLatest' /\ RunsAreOrdered'
    BY <1>1 DEF WaitOK, CaptureOK, BufferIsLatest, RunsAreOrdered
  <2>3. Awaited' = Awaited /\ Dumping' = Dumping /\ \A q \in Run : Sent(q)' = Sent(q)
    BY <1>1 DEF Awaited, Dumping, Sent
  <2>4. QED  BY <2>1, <2>2, <2>3
<1>3. p \in Run /\ DumpOf(p)
  BY AwaitedRuns DEF Dumping, DumpsOK
<1>4. /\ ListOf(p) \in Seq(1..captured) /\ Consecutive(ListOf(p))
      /\ file[p] \in Seq(1..captured)
  BY <1>3, ListsOK DEF DumpTypes
<1>5. ListOf(p) \in Seq(Nat) /\ file[p] \in Seq(Nat)
  <2>1. 1..captured \subseteq Nat
    OBVIOUS
  <2>2. QED  BY <1>4, <2>1, SeqMonotone
<1>6. c \in 1..captured /\ c \in Range(ListOf(p))
  <2> DEFINE T == 1..captured
             i == Len(file[p]) + 1
  <2>1. i \in DOMAIN ListOf(p) /\ ListOf(p) \in Seq(T)
    BY <1>1, <1>4
  <2> HIDE DEF T, i
  <2>2. ListOf(p)[i] \in T /\ ListOf(p)[i] \in Range(ListOf(p))
    BY <2>1 DEF Range
  <2>3. QED  BY <2>2 DEF T, i
<1> HIDE DEF c
<1>7. Append(file[p], c) \in Seq(1..captured)
  <2> DEFINE T == 1..captured
  <2>1. file[p] \in Seq(T) /\ c \in T
    BY <1>4, <1>6
  <2> HIDE DEF T
  <2>2. Append(file[p], c) \in Seq(T)
    BY <2>1
  <2>3. QED  BY <2>2 DEF T
<1>8. DumpTypes' /\ file'[p] = Append(file[p], c) /\ \A q \in Run \ {p} : file'[q] = file[q]
  <2> DEFINE S == Seq(1..captured)
  <2>1. file \in [Run -> S] /\ popped \in [Run -> S] /\ Append(file[p], c) \in S
    BY <1>7 DEF DumpTypes
  <2>2. /\ file' \in [Run -> S] /\ file'[p] = Append(file[p], c)
        /\ \A q \in Run \ {p} : file'[q] = file[q]
    <3> HIDE DEF S
    <3>1. QED  BY <1>1, <1>3, <2>1
  <2>3. QED  BY <1>1, <2>1, <2>2 DEF DumpTypes
<1>9. /\ Increasing(file'[p]) /\ Before(file'[p], ListOf(p))
      /\ IsBeginning(file[p], ListOf(p)) => IsBeginning(file'[p], ListOf(p))
      /\ Range(file'[p]) = Range(file[p]) \cup {c}
  <2>1. Increasing(file[p]) /\ Before(file[p], ListOf(p))
    BY <1>3 DEF DumpOf
  <2>2. file'[p] = Append(file[p], ListOf(p)[Len(file[p]) + 1])
    BY <1>8 DEF c
  <2>3. QED  BY <1>1, <1>4, <1>5, <2>1, <2>2, DumpGoesOn DEF c
<1>10. \A q \in Run : ListOf(q)' = ListOf(q) /\ Listed(q)' = Listed(q)
  <2>1. \A q \in Run : ListOf(q)' = ListOf(q)
    BY <1>1 DEF ListOf
  <2>2. \A q \in Run : Listed(q)' = Listed(q)
    BY <1>6, <1>8, <1>9, <2>1 DEF Listed
  <2>3. QED  BY <2>1, <2>2
<1>11. DumpsOK'
  <2>1. ASSUME NEW q \in Run, q # p PROVE DumpOf(q)'
    <3>1. DumpOf(q)
      BY DEF DumpsOK
    <3>2. q \in cut' /\ run'[q].stage = "new" => q \in Awaited' \/ exited'
      BY <1>1, <1>2, <3>1 DEF DumpOf
    <3>3. QED  BY <1>1, <1>2, <1>8, <2>1, <3>1, <3>2, DumpStays
  <2>2. DumpOf(p)'
    BY <1>1, <1>2, <1>3, <1>9, <1>10 DEF DumpOf
  <2>3. QED  BY <1>1, <2>1, <2>2 DEF DumpsOK
<1>12. Dumped' /\ Taken' /\ Paired'
  <2>1. Awaited \subseteq Run /\ confirmed \subseteq Run
    BY AwaitedRuns DEF CaptureOK
  <2>2. Dumped' /\ Taken'
    BY <1>1, <1>2, <2>1 DEF Dumped, Taken
  <2>3. Paired'
    BY <1>1, <1>2, <1>10, <2>1 DEF Paired
  <2>4. QED  BY <2>2, <2>3
<1>13. LossNeedsOverlap'
  <2>1. \A d : (OnChain(d)' <=> OnChain(d)) /\ (Buffered(d)' <=> Buffered(d))
    BY <1>1 DEF OnChain, Buffered
  <2>2. QED  BY <1>1, <2>1 DEF LossNeedsOverlap
<1>14. QED  BY <1>2, <1>8, <1>11, <1>12, <1>13

LEMMA DumpRaisesKeeps ==
  ASSUME FlushInv, NEW f \in Flusher, NEW p \in waiting[f], p \in Dumping, DumpRaises(f, p)
  PROVE  FlushInv'
<1> USE DEF FlushInv
<1>1. /\ waiting' = [waiting EXCEPT ![f] = {}]
      /\ file' = [file EXCEPT ![p] = <<>>] /\ popped' = [popped EXCEPT ![p] = <<>>]
      /\ cut' = cut \ {p}
      /\ concurrent' = {pair \in concurrent : p \notin pair}
      /\ UNCHANGED <<onchain, run, faults, hermes, captured, exposed, poison, buffer>>
      /\ UNCHANGED <<confirmed, skipped, exited>>
  BY DEF DumpRaises, captureVars, recorderVars
<1>2. p \in Run /\ run[p].stage = "new" /\ Awaited \subseteq Run /\ confirmed \subseteq Run
  BY AwaitedRuns DEF Dumping, CaptureOK
<1>3. WaitOK' /\ Awaited' = Awaited \ {p}
  <2>1. waiting[f] = {p}
    BY DEF WaitOK
  <2>2. QED  BY <1>1, <2>1, Returns
<1>4. Dumping' = Dumping \ {p}
  BY <1>1, <1>3 DEF Dumping
<1>5. run[p].calls = <<>> /\ Sent(p) = {} /\ p \notin confirmed
  BY <1>2 DEF RecorderInv, RunIsWhereItSays, WhereItSays, Sent, Range, Taken
<1>6. RecorderInv' /\ CaptureOK' /\ BufferIsLatest' /\ \A q \in Run : Sent(q)' = Sent(q)
  BY <1>1
  DEF RecorderInv, RunsOK, RunIsWhereItSays, WhereItSays, SessionsTellTheTruth,
      CaptureOK, BufferIsLatest, Sent
<1>7. RunsAreOrdered'
  BY <1>1, <1>5 DEF RunsAreOrdered, Consecutive
<1>8. /\ DumpTypes' /\ file'[p] = <<>> /\ popped'[p] = <<>>
      /\ \A q \in Run \ {p} : file'[q] = file[q] /\ popped'[q] = popped[q]
  BY <1>1, <1>2 DEF DumpTypes
<1>9. DumpsOK'
  <2>1. ASSUME NEW q \in Run PROVE DumpOf(q)'
    <3>1. DumpOf(q)
      BY DEF DumpsOK
    <3>2. CASE q = p
      <4>1. p \notin cut' /\ p \notin Dumping'
        BY <1>1, <1>4
      <4>2. QED  BY <1>1, <1>8, <3>1, <3>2, <4>1, DumpStays
    <3>3. CASE q # p
      <4>1. /\ q \in cut' <=> q \in cut
            /\ q \in Dumping' <=> q \in Dumping
            /\ file'[q] = file[q] /\ popped'[q] = popped[q]
        BY <1>1, <1>4, <1>8, <3>3
      <4>2. q \in cut' /\ run'[q].stage = "new" => q \in Awaited' \/ exited'
        BY <1>1, <1>3, <3>1, <3>3 DEF DumpOf
      <4>3. QED  BY <1>1, <3>1, <4>1, <4>2, DumpStays
    <3>4. QED  BY <3>2, <3>3
  <2>2. QED  BY <1>1, <2>1 DEF DumpsOK
<1>10. Dumped' /\ Taken'
  BY <1>1, <1>2, <1>3, <1>6 DEF Dumped, Taken
<1>11. Paired'
  <2>1. \A q, r : {q, r} \in concurrent /\ q # p /\ r # p => {q, r} \in concurrent'
    BY <1>1
  <2>2. \A q, r \in Awaited' : q # r => {q, r} \in concurrent'
    BY <1>3, <2>1 DEF Paired
  <2>3. Listed(p)' = Range(buffer)
    BY <1>1, <1>8 DEF Listed, ListOf, Range
  <2>4. \A q \in Run \ {p} : Listed(q)' = Listed(q)
    BY <1>1, <1>8 DEF Listed, ListOf
  <2>5. \A q \in confirmed, r \in Run : Sent(q)' \cap Listed(r)' # {} => {q, r} \in concurrent'
    BY <1>2, <1>5, <1>6, <2>1, <2>3, <2>4 DEF Paired, Taken
  <2>6. \A q \in confirmed, r \in Awaited' : Sent(q)' \cap Sent(r)' # {} => {q, r} \in concurrent'
    BY <1>2, <1>3, <1>5, <1>6, <2>1 DEF Paired
  <2>7. \A q, r \in confirmed : Sent(q)' \cap Sent(r)' # {} => q = r \/ {q, r} \in concurrent'
    BY <1>2, <1>5, <1>6, <2>1 DEF Paired
  <2>8. QED  BY <1>1, <2>2, <2>5, <2>6, <2>7 DEF Paired
<1>12. LossNeedsOverlap'
  <2>1. \A d : (OnChain(d)' <=> OnChain(d)) /\ (Buffered(d)' <=> Buffered(d))
    BY <1>1 DEF OnChain, Buffered
  <2>2. QED  BY <1>1, <2>1 DEF LossNeedsOverlap
<1>13. QED  BY <1>3, <1>6, <1>7, <1>8, <1>9, <1>10, <1>11, <1>12

\* The CLI gets what the dump has written: the whole list, unless it was emptied; then,
\* or if it was popped, the buffer holds exposed calls only.
LEMMA StartCliKeeps ==
  ASSUME FlushInv, NEW p \in Dumping, StartCli(p)
  PROVE  FlushInv'
<1> USE DEF FlushInv
<1>1. /\ Len(file[p]) + 1 > Len(ListOf(p))
      /\ run' = [run EXCEPT ![p] = Started(file[p])]
      /\ file' = [file EXCEPT ![p] = <<>>] /\ popped' = [popped EXCEPT ![p] = <<>>]
      /\ UNCHANGED <<onchain, faults, hermes, captured, exposed, poison, buffer>>
      /\ UNCHANGED <<waiting, cut, confirmed, skipped, concurrent, exited>>
  BY DEF StartCli, Index, captureVars
<1>2. /\ p \in Run /\ p \in Awaited /\ run[p].stage = "new" /\ DumpOf(p)
      /\ Awaited \subseteq Run /\ confirmed \subseteq Run
  BY AwaitedRuns DEF Dumping, CaptureOK, DumpsOK
<1>3. RunsOK /\ WhereItSays(p) /\ p \notin DOMAIN onchain /\ p \notin confirmed
  BY <1>2 DEF RecorderInv, RunIsWhereItSays, WhereItSays, Taken
<1>4. /\ run'[p] = Started(file[p])
      /\ \A q \in Run \ {p} : run'[q] = run[q]
  BY <1>1, <1>2, <1>3 DEF RunsOK
<1>5. /\ ListOf(p) \in Seq(1..captured) /\ Consecutive(ListOf(p))
      /\ file[p] \in Seq(1..captured)
  BY <1>2, ListsOK DEF DumpTypes
<1>6. ListOf(p) \in Seq(Nat) /\ file[p] \in Seq(Nat)
  <2>1. 1..captured \subseteq Nat
    OBVIOUS
  <2>2. QED  BY <1>5, <2>1, SeqMonotone
<1>7. RecorderInv'
  <2>1. Started(file[p]) \in RunState
    BY <1>6 DEF Started, RunState
  <2>2. RunsOK' /\ Others(p)
    BY <1>1, <1>3, <1>4, <2>1 DEF RunsOK, Others
  <2>3. WhereItSays(p)' /\ Truth(p)'
    BY <1>1, <1>3, <1>4 DEF WhereItSays, Truth, Started
  <2>4. QED  BY <1>2, <2>2, <2>3, OneRun
<1>8. /\ WaitOK' /\ CaptureOK' /\ BufferIsLatest' /\ Awaited' = Awaited
      /\ Dumping' = Dumping \ {p}
  <2>1. WaitOK' /\ CaptureOK' /\ BufferIsLatest' /\ Awaited' = Awaited
    BY <1>1 DEF WaitOK, CaptureOK, BufferIsLatest, Awaited
  <2>2. Dumping' = Dumping \ {p}
    BY <1>2, <1>4, <2>1 DEF Dumping, Started
  <2>3. QED  BY <2>1, <2>2
<1>9. /\ DumpTypes' /\ file'[p] = <<>> /\ popped'[p] = <<>>
      /\ \A q \in Run \ {p} : file'[q] = file[q] /\ popped'[q] = popped[q]
  BY <1>1, <1>2 DEF DumpTypes
<1>10. DumpsOK'
  <2>1. ASSUME NEW q \in Run PROVE DumpOf(q)'
    <3>1. DumpOf(q)
      BY DEF DumpsOK
    <3>2. q \in cut' /\ run'[q].stage = "new" => q \in Awaited' \/ exited'
      BY <1>1, <1>4, <1>8, <3>1 DEF DumpOf, Started
    <3>3. CASE q = p
      BY <1>1, <1>8, <1>9, <3>1, <3>2, <3>3, DumpStays
    <3>4. CASE q # p
      <4>1. q \in Dumping' <=> q \in Dumping
        BY <1>8, <3>4
      <4>2. QED  BY <1>1, <1>9, <3>1, <3>2, <3>4, <4>1, DumpStays
    <3>5. QED  BY <3>3, <3>4
  <2>2. QED  BY <1>1, <2>1 DEF DumpsOK
<1>11. Sent(p)' = Range(file[p]) /\ \A q \in Run \ {p} : Sent(q)' = Sent(q)
  BY <1>4 DEF Sent, Started
<1>12. Range(file[p]) \subseteq (1..captured) \ poison
  <2> DEFINE T == 1..captured
  <2>1. Range(file[p]) \cap poison = {} /\ file[p] \in Seq(T)
    BY <1>2, <1>5 DEF DumpOf
  <2> HIDE DEF T
  <2>2. Range(file[p]) \subseteq T
    BY <2>1 DEF Range
  <2>3. QED  BY <2>1, <2>2 DEF T
<1>13. RunsAreOrdered'
  <2>1. Increasing(file[p]) /\ (p \notin cut => Consecutive(file[p]))
    BY <1>2, <1>5, <1>6, BeginningsKeepOrder DEF DumpOf
  <2>2. run'[p].calls = file[p]
    BY <1>4 DEF Started
  <2>3. QED  BY <1>1, <1>4, <1>12, <2>1, <2>2 DEF RunsAreOrdered
<1>14. Range(buffer) \ exposed \subseteq Sent(p)'
  <2>1. CASE p \in cut \/ popped[p] # <<>>
    BY <1>2, <2>1 DEF DumpOf
  <2>2. CASE p \notin cut /\ popped[p] = <<>>
    <3>1. IsBeginning(file[p], buffer) /\ ListOf(p) = buffer
      BY <1>2, <2>2 DEF DumpOf, ListOf
    <3>2. Len(file[p]) = Len(buffer)
      BY <1>1, <1>6, <3>1 DEF IsBeginning
    <3>3. file[p] = buffer
      BY <1>6, <3>1, <3>2, WholeBeginning
    <3>4. QED  BY <1>11, <3>3
  <2>3. QED  BY <2>1, <2>2
<1>15. Dumped' /\ Taken'
  <2>1. Dumped'
    BY <1>1, <1>2, <1>4, <1>8, <1>11, <1>14 DEF Dumped
  <2>2. Taken'
    BY <1>1, <1>2, <1>3, <1>4, <1>8, <1>11 DEF Taken
  <2>3. QED  BY <2>1, <2>2
<1>16. Paired'
  <2>1. Listed(p)' = Range(buffer)
    BY <1>1, <1>9 DEF Listed, ListOf, Range
  <2>2. \A q \in Run \ {p} : Listed(q)' = Listed(q)
    BY <1>1, <1>9 DEF Listed, ListOf
  <2>3. \A q \in confirmed, r \in Run : Sent(q)' \cap Listed(r)' # {} => {q, r} \in concurrent
    BY <1>2, <1>3, <1>11, <2>1, <2>2 DEF Paired, Taken
  <2>4. ASSUME NEW q \in confirmed, NEW r \in Awaited, Sent(q)' \cap Sent(r)' # {}
        PROVE  {q, r} \in concurrent
    <3>1. q # p /\ Sent(q)' = Sent(q) /\ q \in Run /\ r \in Run
      BY <1>2, <1>3, <1>11
    <3>2. CASE r = p
      <4>1. Sent(q) \cap Listed(p) # {}
        BY <1>11, <2>4, <3>1, <3>2 DEF Listed
      <4>2. QED  BY <3>1, <3>2, <4>1 DEF Paired
    <3>3. CASE r # p
      BY <1>11, <2>4, <3>1, <3>3 DEF Paired
    <3>4. QED  BY <3>2, <3>3
  <2>5. \A q, r \in confirmed : Sent(q)' \cap Sent(r)' # {} => q = r \/ {q, r} \in concurrent
    BY <1>2, <1>3, <1>11 DEF Paired
  <2>6. QED  BY <1>1, <1>8, <2>3, <2>4, <2>5 DEF Paired
<1>17. LossNeedsOverlap'
  <2>1. \A d : (OnChain(d)' <=> OnChain(d)) /\ (Buffered(d)' <=> Buffered(d))
    BY <1>1 DEF OnChain, Buffered
  <2>2. QED  BY <1>1, <2>1 DEF LossNeedsOverlap
<1>18. QED  BY <1>7, <1>8, <1>9, <1>10, <1>13, <1>15, <1>16, <1>17

\* What is left of the lists when the buffer is emptied under the dumps.
LEMMA EmptiedLists ==
  ASSUME FlushInv, Emptied, Dumping' = Dumping, Dumping \subseteq Awaited',
         UNCHANGED <<hermes, run, captured, exposed, poison, exited>>
  PROVE  /\ DumpTypes' /\ DumpsOK' /\ cut \subseteq cut' /\ cut' \subseteq Run
         /\ \A q \in Run : Listed(q)' \subseteq Listed(q)
<1> USE DEF FlushInv
<1>1. /\ buffer' = <<>> /\ file' = file
      /\ cut' = IF hermes THEN cut ELSE cut \cup Dumping
      /\ hermes => popped' = [q \in Run |-> IF q \in Dumping THEN ListOf(q) ELSE popped[q]]
      /\ ~hermes => popped' = popped
  BY DEF Emptied
<1>2. \A q \in Run : DumpOf(q) /\ ListOf(q) \in Seq(1..captured) /\ Consecutive(ListOf(q))
  BY ListsOK DEF DumpsOK
<1>3. /\ DumpTypes'
      /\ hermes => \A q \in Run : popped'[q] = IF q \in Dumping THEN ListOf(q) ELSE popped[q]
  <2> DEFINE S == Seq(1..captured)
  <2>1. \A q \in Run : ListOf(q) \in S
    BY <1>2
  <2>2. popped \in [Run -> S] /\ file \in [Run -> S]
    BY DEF DumpTypes
  <2> HIDE DEF S
  <2>3. popped' \in [Run -> S] /\ file' \in [Run -> S]
    BY <1>1, <2>1, <2>2 DEF CaptureOK
  <2>4. hermes => \A q \in Run : popped'[q] = IF q \in Dumping THEN ListOf(q) ELSE popped[q]
    BY <1>1
  <2>5. DumpTypes'
    BY <2>3 DEF DumpTypes, S
  <2>6. QED  BY <2>4, <2>5
<1>4. ASSUME NEW q \in Run
      PROVE  /\ ListOf(q)' = ListOf(q) \/ ListOf(q)' = <<>>
             /\ q \notin cut' => ListOf(q)' = ListOf(q) \/ file[q] = <<>>
             /\ Consecutive(popped'[q])
             /\ popped'[q] # <<>> => q \in Dumping
             /\ q \in cut' => q \in cut \/ q \in Dumping
  <2>1. /\ Consecutive(popped[q])
        /\ file[q] # <<>> \/ popped[q] # <<>> => q \in Dumping
    BY <1>2 DEF DumpOf
  <2>2. CASE hermes
    <3>1. ListOf(q)' = IF popped'[q] = <<>> THEN <<>> ELSE popped'[q]
      BY <1>1 DEF ListOf
    <3>2. CASE q \in Dumping
      BY <1>1, <1>2, <1>3, <2>1, <2>2, <3>1, <3>2
    <3>3. CASE q \notin Dumping
      BY <1>1, <1>3, <2>1, <2>2, <3>1, <3>3
    <3>4. QED  BY <3>2, <3>3
  <2>3. CASE ~hermes
    <3>1. ListOf(q)' = IF popped[q] = <<>> THEN <<>> ELSE popped[q]
      BY <1>1, <2>3 DEF ListOf
    <3>2. popped[q] # <<>> => ListOf(q) = popped[q]
      BY DEF ListOf
    <3>3. QED  BY <1>1, <2>1, <2>3, <3>1, <3>2
  <2>4. QED  BY <2>2, <2>3 DEF CaptureOK
<1>5. Range(<<>>) = {} /\ Range(buffer') = {}
  BY <1>1 DEF Range
<1>6. ASSUME NEW q \in Run PROVE DumpOf(q)' /\ Listed(q)' \subseteq Listed(q)
  <2>1. Before(file[q], ListOf(q)')
    <3>1. Before(file[q], <<>>)
      BY DEF Before
    <3>2. QED  BY <1>2, <1>4, <3>1 DEF DumpOf
  <2>2. q \notin cut' => IsBeginning(file[q], ListOf(q)')
    <3>1. q \notin cut' => q \notin cut
      BY <1>1
    <3>2. IsBeginning(<<>>, <<>>) /\ IsBeginning(<<>>, ListOf(q))
      BY <1>2 DEF IsBeginning
    <3>3. QED  BY <1>2, <1>4, <3>1, <3>2 DEF DumpOf
  <2>3. q \in cut' /\ run'[q].stage = "new" => q \in Awaited' \/ exited'
    <3>1. q \in Dumping => q \in Awaited'
      OBVIOUS
    <3>2. q \in cut /\ run[q].stage = "new" => q \in Dumping \/ exited
      BY <1>2 DEF DumpOf, Dumping
    <3>3. QED  BY <1>4, <3>1, <3>2
  <2>4. DumpOf(q)'
    BY <1>1, <1>2, <1>4, <1>5, <2>1, <2>2, <2>3 DEF DumpOf
  <2>5. Listed(q)' \subseteq Listed(q)
    BY <1>1, <1>4, <1>5 DEF Listed
  <2>6. QED  BY <2>4, <2>5
<1>7. DumpsOK' /\ cut \subseteq cut' /\ cut' \subseteq Run
  BY <1>1, <1>4, <1>6, AwaitedRuns DEF DumpsOK, Dumping, CaptureOK
<1>8. QED  BY <1>3, <1>6, <1>7

\* The flush of an exited run empties the buffer: what was buffered is in the session,
\* or skipped, and none of it was captured before a poisoned call.
LEMMA ClearKeeps ==
  ASSUME FlushInv, NEW f \in Flusher, NEW p \in waiting[f], run[p].stage = "exit",
         FlushSkipped(f, p) \/ FlushConfirmed(f, p)
  PROVE  FlushInv'
<1> USE DEF FlushInv
<1>1. /\ waiting' = [waiting EXCEPT ![f] = {}]
      /\ buffer' = <<>> /\ Emptied
      /\ UNCHANGED <<onchain, run, faults, hermes, captured, exposed, poison, concurrent, exited>>
  BY DEF FlushSkipped, FlushConfirmed, Emptied, recorderVars, captureVars
<1>2. \/ /\ skipped' = skipped \cup Range(buffer)
         /\ confirmed' = confirmed
      \/ /\ run[p].result = "ok"
         /\ confirmed' = confirmed \cup {p}
         /\ skipped' = skipped
  BY DEF FlushSkipped, FlushConfirmed, Range
<1>3. p \in Awaited /\ p \in Run /\ Awaited \subseteq Run /\ confirmed \subseteq Run
  BY AwaitedRuns DEF CaptureOK
<1>4. WaitOK' /\ Awaited' = Awaited \ waiting[f] /\ p \notin Awaited'
  BY <1>1, Returns
<1>5. RecorderInv'
  BY <1>1
  DEF RecorderInv, RunsOK, RunIsWhereItSays, WhereItSays, SessionsTellTheTruth
<1>6. Range(buffer) \subseteq 1..captured /\ Range(buffer') = {}
  BY <1>1 DEF CaptureOK, Range
<1>7. /\ DumpTypes' /\ DumpsOK' /\ cut \subseteq cut' /\ cut' \subseteq Run
      /\ \A q \in Run : Listed(q)' \subseteq Listed(q)
  <2>1. Dumping' = Dumping
    BY <1>1, SameDumping
  <2>2. Dumping \subseteq Awaited'
    BY <2>1 DEF Dumping
  <2>3. QED  BY <1>1, <2>1, <2>2, EmptiedLists
<1>8. CaptureOK' /\ BufferIsLatest'
  <2>1. captured \in Nat
    BY CallsAreBounded DEF CaptureOK
  <2>2. confirmed' \cup cut' \subseteq Run /\ skipped' \subseteq 1..captured
    BY <1>2, <1>3, <1>6, <1>7 DEF CaptureOK
  <2>3. CaptureOK'
    <3>1. /\ captured \in 0..MaxCalls /\ hermes \in BOOLEAN
          /\ exposed \cup poison \subseteq 1..captured
      BY DEF CaptureOK
    <3>2. buffer' \in Seq(1..captured)
      BY <1>1
    <3>3. /\ captured' = captured /\ hermes' = hermes
          /\ skipped' \cup exposed' \cup poison' \subseteq 1..captured
      BY <1>1, <2>2, <3>1
    <3>4. QED  BY <2>2, <3>1, <3>2, <3>3 DEF CaptureOK
  <2>4. Len(buffer') = 0 /\ DOMAIN buffer' = {}
    BY <1>1
  <2>5. QED  BY <1>1, <2>1, <2>3, <2>4 DEF BufferIsLatest
<1>9. RunsAreOrdered' /\ \A q : Sent(q)' = Sent(q)
  BY <1>1, <1>7 DEF RunsAreOrdered, Sent
<1>10. Dumped' /\ Taken'
  BY <1>1, <1>2, <1>4, <1>6, <1>9 DEF Dumped, Taken
<1>11. Paired'
  <2>1. \A q, r \in Awaited' : q # r => {q, r} \in concurrent'
    BY <1>1, <1>4 DEF Paired
  <2>2. \A r \in Awaited' : {p, r} \in concurrent
    BY <1>3, <1>4 DEF Paired
  <2>3. \A q \in confirmed', r \in Awaited' : Sent(q)' \cap Sent(r)' # {} => {q, r} \in concurrent'
    BY <1>1, <1>2, <1>4, <1>9, <2>2 DEF Paired
  <2>4. ASSUME NEW q \in confirmed', NEW r \in Run, Sent(q)' \cap Listed(r)' # {}
        PROVE  {q, r} \in concurrent'
    <3>1. CASE q \in confirmed
      BY <1>1, <1>7, <1>9, <2>4, <3>1 DEF Paired
    <3>2. CASE q = p /\ r \in Awaited'
      BY <1>1, <2>2, <3>2
    <3>3. CASE r \notin Awaited'
      <4>1. DumpOf(r)' /\ r \notin Dumping'
        BY <1>7, <3>3 DEF DumpsOK, Dumping
      <4>2. file'[r] = <<>> /\ popped'[r] = <<>>
        BY <4>1 DEF DumpOf
      <4>3. Listed(r)' = {}
        BY <1>1, <4>2 DEF Listed, ListOf, Range
      <4>4. QED  BY <2>4, <4>3
    <3>4. QED  BY <1>2, <3>1, <3>2, <3>3
  <2>5. \A q, r \in confirmed' : Sent(q)' \cap Sent(r)' # {} => q = r \/ {q, r} \in concurrent'
    <3>1. \A q \in confirmed :
            Sent(q) \cap Sent(p) # {} => {q, p} \in concurrent /\ {p, q} \in concurrent
      <4>1. ASSUME NEW q \in confirmed PROVE {p, q} = {q, p}
        OBVIOUS
      <4>2. QED  BY <1>3, <4>1 DEF Paired
    <3>2. QED  BY <1>1, <1>2, <1>9, <3>1 DEF Paired
  <2>6. QED  BY <2>1, <2>3, <2>4, <2>5 DEF Paired
<1>12. LossNeedsOverlap'
  <2>1. /\ \A c : OnChain(c)' <=> OnChain(c)
        /\ \A c : Buffered(c) <=> c \in Range(buffer)
    BY <1>1 DEF OnChain, Buffered, Range
  <2>2. Range(buffer) \ exposed \subseteq Sent(p)
    BY <1>3 DEF Dumped
  <2>3. ASSUME NEW c \in 1..captured, c \notin exposed
        PROVE  exited' \/ Buffered(c)' \/ OnChain(c)' \/ c \in skipped'
    <3>1. CASE c \notin Range(buffer)
      BY <1>1, <1>2, <2>1, <2>3, <3>1 DEF LossNeedsOverlap
    <3>2. CASE c \in Range(buffer) /\ run[p].result = "ok"
      <4>1. p \in DOMAIN onchain /\ onchain[p].calls = run[p].calls
        BY <1>3, <3>2 DEF RecorderInv, RunIsWhereItSays, WhereItSays, SessionsTellTheTruth
      <4>2. c \in Sent(p)
        BY <2>2, <2>3, <3>2
      <4>3. OnChain(c)
        BY <4>1, <4>2 DEF OnChain, Sent, Range
      <4>4. QED  BY <2>1, <4>3
    <3>3. CASE c \in Range(buffer) /\ run[p].result # "ok"
      BY <1>2, <3>3
    <3>4. QED  BY <3>1, <3>2, <3>3
  <2>4. ASSUME NEW c \in poison PROVE ~OnChain(c) /\ c \in exposed
    <3>1. ~OnChain(c) /\ (c \notin exposed => c..captured \subseteq Range(buffer))
      BY DEF LossNeedsOverlap
    <3>2. c \in 1..captured /\ captured \in Nat
      BY DEF CaptureOK
    <3>3. c \in c..captured
      BY <3>2
    <3>4. c \notin Sent(p)
      BY <1>3 DEF RunsAreOrdered, Sent
    <3>5. QED  BY <2>2, <3>1, <3>3, <3>4
  <2>5. QED  BY <1>1, <2>1, <2>3, <2>4 DEF LossNeedsOverlap
<1>13. QED  BY <1>4, <1>5, <1>7, <1>8, <1>9, <1>10, <1>11, <1>12

LEMMA FlushStepInv == FlushInv /\ [Next]_vars => FlushInv'
<1> SUFFICES ASSUME FlushInv, [Next]_vars PROVE FlushInv'
  OBVIOUS
<1>1. CASE Capture  BY <1>1, CaptureKeeps
<1>2. CASE HostExits  BY <1>2, HostExitsKeeps
<1>3. CASE \E f \in Flusher, p \in Run : BeginFlush(f, p)  BY <1>3, BeginFlushKeeps
<1>4. CASE \E f \in Flusher : EndFlush(f)
  BY <1>4, ReturnKeeps, ClearKeeps DEF EndFlush
<1>5. CASE \E f \in Flusher : FlushTimeout(f) \/ Dump(f)
  BY <1>5, TimeoutKeeps, DumpCallKeeps, DumpRaisesKeeps, StartCliKeeps DEF Dump
<1>6. CASE CliStep  BY <1>6, CliStepKeeps
<1>7. CASE UNCHANGED vars
  <2>1. /\ UNCHANGED <<onchain, run, faults, waiting, file, popped, exited>>
        /\ UNCHANGED <<captureVars, buffer, cut, confirmed, skipped, concurrent>>
    BY <1>7 DEF vars, recorderVars, flushVars, dumpVars
  <2>2. RecorderInv' /\ WaitOK' /\ DumpTypes' /\ Awaited' = Awaited /\ Dumping' = Dumping
    BY <2>1
    DEF FlushInv, RecorderInv, RunsOK, RunIsWhereItSays, WhereItSays, SessionsTellTheTruth,
        WaitOK, DumpTypes, Awaited, Dumping, captureVars
  <2>3. \A c : OnChain(c)' <=> OnChain(c)
    BY <2>1 DEF OnChain
  <2>4. \A c \in poison : ~OnChain(c)'
    BY <2>3, NoPoisonOnChain DEF FlushInv, NoPoison
  <2>5. QED  BY <2>1, <2>2, <2>3, <2>4, GoesOnWithout
<1>8. QED  BY <1>1, <1>2, <1>3, <1>4, <1>5, <1>6, <1>7 DEF Next

LEMMA FlushAlways == Spec => []FlushInv
BY FlushInitInv, FlushStepInv, PTL DEF Spec

-----------------------------------------------------------------------------
\* The types hold whatever the bounds, and no run is ever waited for by two flushers
\* (tracer.py 146-166).
THEOREM FlushTypes == Spec => []FlushTypeOK
<1>1. FlushInv => FlushTypeOK
  BY DEF FlushInv, FlushTypeOK, RecorderInv, RunsOK, WaitOK, CaptureOK, DumpTypes
<1>2. QED  BY <1>1, FlushAlways, PTL

\* A session never claims more than it holds, for any number of calls, runs and
\* failures of the transactions of recordSession (runtime.ts 243-288).
THEOREM RunsTellTheTruth == Spec => []SessionsTellTheTruth
<1>1. FlushInv => SessionsTellTheTruth
  BY DEF FlushInv, RecorderInv
<1>2. QED  BY <1>1, FlushAlways, PTL

\* However many threads flush and however they fail, a call that was captured while no
\* flush was under way stays in the buffer until a session has it or runtime controls
\* discard it; one json cannot dump holds up all that follow (tracer.py 101-173).
THEOREM LossTakesAnOverlap == Spec => []LossNeedsOverlap
<1>1. FlushInv => LossNeedsOverlap
  BY DEF FlushInv
<1>2. QED  BY <1>1, FlushAlways, PTL

\* A session holds its calls in their order, and a gap takes a flush that clears the list
\* while another one's dump iterates it: for any number of threads, calls and failures
\* (tracer.py of crewai 107-119, of elevenlabs 187-199, of livekit 149-163), and never
\* in Hermes, which pops it (provider.py 144-166, 183-204).
THEOREM GapsTakeAClear == Spec => []GapsNeedClearing
<1>1. FlushInv => GapsNeedClearing
  <2> SUFFICES ASSUME FlushInv PROVE GapsNeedClearing
    OBVIOUS
  <2>1. ASSUME NEW p \in DOMAIN onchain
        PROVE  /\ Increasing(onchain[p].calls)
               /\ hermes \/ p \notin cut => Consecutive(onchain[p].calls)
    <3>1. p \in Run /\ onchain[p].calls \in Seq(Nat) /\ run[p].calls \in Seq(Nat)
      BY DEF FlushInv, RecorderInv, RunsOK, SessionState, RunState
    <3>2. IsBeginning(onchain[p].calls, run[p].calls)
      BY DEF FlushInv, RecorderInv, SessionsTellTheTruth
    <3>3. Increasing(run[p].calls) /\ (hermes \/ p \notin cut => Consecutive(run[p].calls))
      BY <3>1 DEF FlushInv, DumpsOK, RunsAreOrdered
    <3>4. QED  BY <3>1, <3>2, <3>3, BeginningsKeepOrder
  <2>2. QED  BY <2>1 DEF GapsNeedClearing, Increasing, Consecutive
<1>2. QED  BY <1>1, FlushAlways, PTL

\* Flushes one after the other never record a call twice with success: it takes two
\* that wait for the CLI at the same time (tracer.py 146-166).
THEOREM ConfirmedTwiceTakesAnOverlap == Spec => []ConfirmedOnce
<1>1. FlushInv => ConfirmedOnce
  <2> SUFFICES ASSUME FlushInv PROVE ConfirmedOnce
    OBVIOUS
  <2>1. ASSUME NEW p \in confirmed, NEW q \in confirmed,
               NEW i \in DOMAIN run[p].calls, NEW j \in DOMAIN run[q].calls,
               run[p].calls[i] = run[q].calls[j]
        PROVE  Sent(p) \cap Sent(q) # {}
    BY <2>1 DEF Sent, Range
  <2>2. QED  BY <2>1 DEF FlushInv, Paired, ConfirmedOnce
<1>2. QED  BY <1>1, FlushAlways, PTL

-----------------------------------------------------------------------------
\* Only the runs write to their sessions: callbacks and flushers leave the log alone.
LEMMA FlushStepIsLogStep == FlushInv /\ [Next]_vars => [Log!Next]_(Log!auditVars)
<1> SUFFICES ASSUME FlushInv, [Next]_vars PROVE LogStep
  BY DEF LogStep
<1>1. CASE CliStep
  BY <1>1, RunStepIsLogStep DEF CliStep, FlushInv
<1>2. CASE UNCHANGED vars \/ (Next /\ ~CliStep)
  <2>1. onchain' = onchain
    BY <1>2
    DEF vars, recorderVars, Next, Capture, Step, HermesRecord, OnItem, OnTools, OnTranscript,
        HandlerEnds, Captured, HostExits, BeginFlush, EndFlush, FlushFailed, FlushUnparsed,
        FlushSkipped, FlushConfirmed, FlushTimeout, Dump, DumpCall, DumpRaises, StartCli
  <2>2. QED  BY <2>1, NoLogStep DEF LogStep
<1>3. QED  BY <1>1, <1>2

\* Whatever fails, is lost or repeated, what the runs send is what the contract's log
\* allows: no entry after the sealing, no second outcome, one sealing (runtime.ts
\* 243-288, traces.ts 117-253).
THEOREM RunsImplementAuditLog == Spec => ImplementsAuditLog
<1>1. Init => Log!Init
  BY NoSessionsIsLogInit DEF Init
<1>2. QED
  BY <1>1, FlushStepIsLogStep, FlushAlways, PTL DEF Spec, ImplementsAuditLog, Log!Spec
=============================================================================
