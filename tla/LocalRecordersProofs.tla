------------------------ MODULE LocalRecordersProofs ------------------------
(*****************************************************************************)
(* Proofs about the recorders of one machine, for any number of processes,   *)
(* hooks, sessions, flushes, attempts, edits and failures.                   *)
(*                                                                           *)
(* First the two files and the remembered attempt of the in-process          *)
(* recorders (LocalInv).  SavedTargetIsUsable rests on one wallet for all,   *)
(* unless it was raced (OneWallet), and on signers that are there before     *)
(* they are needed (Signed).  OneAttemptAtATime rests on what a flush awaits *)
(* being what its process remembers (Remembers).                             *)
(*                                                                           *)
(* Then the calls, by kind of recorder (LossInv): where each of them is, and *)
(* that nobody else has it.                                                  *)
(*****************************************************************************)
EXTENDS LocalRecorders, RecorderProofs

Single == {{w} : w \in Proc}
AttemptState == [stage : {"none", "create", "share", "save", "ready", "failed"},
                 proc : {{}} \cup Single, result : SUBSET Attempt]
FlushState == [stage : {"none", "client", "target", "await", "record", "done", "dead"},
               proc : {{}} \cup Single, calls : Seq(Nat),
               attempt : {{}} \cup {{a} : a \in Attempt}]

Typed ==
  /\ wallet \in {{}} \cup Single
  /\ signer \in [Proc -> {{}} \cup Single]
  /\ generating \subseteq Proc
  /\ walletRaced \in BOOLEAN
  /\ target \subseteq Attempt
  /\ capOwner \in [Attempt -> {{}} \cup Single]
  /\ attempt \in [Attempt -> AttemptState]
  /\ captured \in Nat
  /\ kept \in [Slot -> Seq(Nat)]
  /\ memo \in [Proc -> {{}} \cup {{a} : a \in Attempt}]
  /\ flush \in [Run -> FlushState]

\* Unless two processes generated a wallet at once, the saved one is everybody's.
OneWallet ==
  ~walletRaced =>
    /\ \A v, w \in generating : v = w
    /\ generating # {} => wallet = {}
    /\ \A w \in Proc : signer[w] \in {{}, wallet}
    /\ \A a \in Attempt : capOwner[a] \in {{}, wallet}

\* Whoever is past getClient has a signer.
Signed ==
  /\ \A a \in Attempt : InFlight(a) => \E w \in Proc : attempt[a].proc = {w} /\ signer[w] # {}
  /\ \A f \in Run : flush[f].stage = "client" => flush[f].proc # {}
  /\ \A f \in Run : flush[f].stage \in {"target", "await", "record"} =>
       \E w \in Proc : flush[f].proc = {w} /\ signer[w] # {}

\* What is about to be saved, or is, has its capability.
CapsMade ==
  /\ \A a \in Attempt : attempt[a].stage = "save" => capOwner[a] # {}
  /\ \A a \in target : capOwner[a] # {}

\* A process remembers and awaits attempts of its own.
Own ==
  /\ \A a \in Attempt : attempt[a].stage = "none" => attempt[a].proc = {}
  /\ \A w \in Proc : \A a \in memo[w] : attempt[a].proc = {w}
  /\ \A f \in Run : flush[f].stage \in {"await", "record"} =>
       \E a \in Attempt : flush[f].attempt = {a} /\ attempt[a].proc = flush[f].proc

\* The attempt a flush awaits has failed, or is the one its process remembers.
RemembersFlush(w, f) ==
  flush[f].stage \in {"await", "record"} /\ w \in flush[f].proc =>
    \A a \in flush[f].attempt :
      /\ attempt[a].stage = "failed" \/ memo[w] = {a}
      /\ flush[f].stage = "record" => attempt[a].stage = "ready"

Remembers(w) ==
  /\ \A a \in Attempt : w \in attempt[a].proc /\ InFlight(a) => memo[w] = {a}
  /\ \A f \in Run : RemembersFlush(w, f)

Excused(w) == OpenClaw /\ \E a \in Attempt : w \in attempt[a].proc /\ attempt[a].stage = "failed"

LocalInv == /\ Typed
            /\ OneWallet
            /\ Signed
            /\ CapsMade
            /\ Own
            /\ \A w \in Proc : Excused(w) \/ Remembers(w)

LEMMA LocalInitInv == Init => LocalInv
<1> SUFFICES ASSUME Init PROVE LocalInv
  OBVIOUS
<1> USE DEF Init, ProvisioningInit, InProcessInit, CaptureInit, NoAttempt, NoFlush
<1>1. Typed
  <2>1. attempt \in [Attempt -> AttemptState]
    BY DEF AttemptState
  <2>2. flush \in [Run -> FlushState]
    BY DEF FlushState
  <2>3. kept \in [Slot -> Seq(Nat)] /\ captured \in Nat
    OBVIOUS
  <2>4. signer \in [Proc -> {{}} \cup Single] /\ capOwner \in [Attempt -> {{}} \cup Single]
    OBVIOUS
  <2>5. memo \in [Proc -> {{}} \cup {{a} : a \in Attempt}]
    OBVIOUS
  <2>6. QED  BY <2>1, <2>2, <2>3, <2>4, <2>5 DEF Typed
<1>2. OneWallet /\ Signed /\ CapsMade /\ Own
  BY DEF OneWallet, Signed, InFlight, CapsMade, Own
<1>3. \A w \in Proc : Remembers(w)
  BY DEF Remembers, RemembersFlush, InFlight
<1>4. QED  BY <1>1, <1>2, <1>3 DEF LocalInv

-----------------------------------------------------------------------------
(***************************************************************************)
(* Steps of flushes that leave wallet, target, attempts and memo alone.    *)
(***************************************************************************)
Moves(f) ==
  \/ flush'[f] = flush[f]
  \/ flush'[f].stage = "done"
  \/ flush'[f].stage = "client" /\ flush'[f].proc \in Single
  \/ /\ flush'[f].stage = "target"
     /\ \E w \in Proc : flush'[f].proc = {w} /\ signer[w] # {}
  \/ /\ flush[f].stage = "await" /\ flush'[f].stage = "record"
     /\ flush'[f].proc = flush[f].proc /\ flush'[f].attempt = flush[f].attempt
     /\ \A a \in flush[f].attempt : attempt[a].stage = "ready"

LEMMA FlushesMove ==
  ASSUME LocalInv, UNCHANGED <<provisioningVars, memo, host>>,
         captured' \in Nat, kept' \in [Slot -> Seq(Nat)], flush' \in [Run -> FlushState],
         \A f \in Run : Moves(f)
  PROVE  LocalInv'
<1>1. UNCHANGED <<wallet, signer, generating, walletRaced, target, capOwner, attempt, memo, host>>
  BY DEF provisioningVars
<1>2. Typed'
  BY <1>1 DEF LocalInv, Typed
<1>3. OneWallet' /\ CapsMade'
  BY <1>1 DEF LocalInv, OneWallet, CapsMade
<1>4. Signed'
  <2>1. ASSUME NEW f \in Run, flush'[f].stage = "client" PROVE flush'[f].proc # {}
    BY <2>1 DEF LocalInv, Signed, Moves, Single
  <2>2. ASSUME NEW f \in Run, flush'[f].stage \in {"target", "await", "record"}
        PROVE  \E w \in Proc : flush'[f].proc = {w} /\ signer[w] # {}
    <3>1. CASE flush'[f] = flush[f]
      BY <2>2, <3>1 DEF LocalInv, Signed
    <3>2. CASE flush[f].stage = "await" /\ flush'[f].proc = flush[f].proc
      BY <3>2 DEF LocalInv, Signed
    <3>3. QED  BY <2>2, <3>1, <3>2 DEF Moves
  <2>3. QED  BY <1>1, <2>1, <2>2 DEF LocalInv, Signed, InFlight
<1>5. Own'
  BY <1>1 DEF LocalInv, Own, Moves
<1>6. ASSUME NEW w \in Proc PROVE Excused(w)' \/ Remembers(w)'
  <2>1. CASE Excused(w)
    BY <1>1, <2>1 DEF Excused, OpenClaw
  <2>2. CASE Remembers(w)
    <3>1. ASSUME NEW f \in Run PROVE RemembersFlush(w, f)'
      BY <1>1, <2>2 DEF Remembers, RemembersFlush, Moves
    <3>2. QED  BY <1>1, <2>2, <3>1 DEF Remembers, InFlight
  <2>3. QED  BY <2>1, <2>2 DEF LocalInv
<1>7. QED  BY <1>2, <1>3, <1>4, <1>5, <1>6 DEF LocalInv

LEMMA KeepStep ==
  ASSUME LocalInv, NEW w \in Proc, NEW x \in Context, RecordOpenClaw(w, x) \/ ToolStarts(w, x)
  PROVE  LocalInv'
<1> PICK k \in Slot : k = <<w, x>>
  BY DEF Slot
<1>1. /\ UNCHANGED <<provisioningVars, memo, host, flush>>
      /\ captured' = captured + 1
      /\ kept' = [kept EXCEPT ![k] = Append(@, captured + 1)]
  BY DEF RecordOpenClaw, ToolStarts, Keep
<1>2. captured' \in Nat /\ kept' \in [Slot -> Seq(Nat)]
  BY <1>1 DEF LocalInv, Typed
<1>3. flush' \in [Run -> FlushState] /\ \A f \in Run : Moves(f)
  BY <1>1 DEF LocalInv, Typed, Moves
<1>4. QED  BY <1>1, <1>2, <1>3, FlushesMove

LEMMA RunErrorsStep ==
  ASSUME LocalInv, NEW w \in Proc, NEW x \in Context, RunErrors(w, x)
  PROVE  LocalInv'
<1> PICK k \in Slot : k = <<w, x>>
  BY DEF Slot
<1>1. /\ UNCHANGED <<provisioningVars, memo, host, captured, flush>>
      /\ kept' = [kept EXCEPT ![k] = <<>>]
  BY DEF RunErrors
<1>2. captured' \in Nat /\ kept' \in [Slot -> Seq(Nat)]
  BY <1>1 DEF LocalInv, Typed
<1>3. flush' \in [Run -> FlushState] /\ \A f \in Run : Moves(f)
  BY <1>1 DEF LocalInv, Typed, Moves
<1>4. QED  BY <1>1, <1>2, <1>3, FlushesMove

LEMMA TakesStep ==
  ASSUME LocalInv, NEW f \in Run, NEW w \in Proc,
         \/ \E x \in Context : EndOpenClaw(f, w, x) \/ AgentEnds(f, w, x)
         \/ ModelAnswers(f, w)
  PROVE  LocalInv'
<1> USE DEF LocalInv, Typed
<1>1. PICK calls \in Seq(Nat) : Takes(f, w, calls)
  <2>1. /\ captured + 1 \in Nat /\ <<captured + 1>> \in Seq(Nat)
        /\ \A k \in Slot : kept[k] \in Seq(Nat) /\ Append(kept[k], captured + 1) \in Seq(Nat)
        /\ \A x \in Context : <<w, x>> \in Slot
    BY DEF Slot
  <2>2. QED  BY <2>1 DEF EndOpenClaw, AgentEnds, ModelAnswers
<1>2. captured' \in Nat /\ kept' \in [Slot -> Seq(Nat)]
  <2>1. captured' \in Nat
    <3>1. captured' = captured \/ captured' = captured + 1
      BY DEF EndOpenClaw, AgentEnds, ModelAnswers
    <3>2. QED  BY <3>1
  <2>2. kept' = kept \/ \E k \in Slot : kept' = [kept EXCEPT ![k] = <<>>]
    <3>1. CASE ModelAnswers(f, w)
      BY <3>1 DEF ModelAnswers
    <3>2. CASE \E x \in Context : EndOpenClaw(f, w, x) \/ AgentEnds(f, w, x)
      <4>1. PICK x \in Context : kept' = [kept EXCEPT ![<<w, x>>] = <<>>]
        BY <3>2 DEF EndOpenClaw, AgentEnds
      <4>2. PICK k \in Slot : k = <<w, x>>
        BY DEF Slot
      <4>3. QED  BY <4>1, <4>2
    <3>3. QED  BY <3>1, <3>2
  <2>3. kept \in [Slot -> Seq(Nat)] /\ <<>> \in Seq(Nat)
    OBVIOUS
  <2>4. kept' \in [Slot -> Seq(Nat)]
    BY <2>2, <2>3
  <2>5. QED  BY <2>1, <2>4
<1>3. UNCHANGED <<provisioningVars, memo, host>>
  BY <1>1 DEF Takes
<1> DEFINE begun == [stage |-> "client", proc |-> {w}, calls |-> calls, attempt |-> {}]
<1>4. begun \in FlushState
  BY DEF FlushState, Single
<1>5. flush' = flush \/ flush' = [flush EXCEPT ![f] = begun]
  BY <1>1 DEF Takes
<1>6. begun.stage = "client" /\ begun.proc = {w}
  OBVIOUS
<1> HIDE DEF begun
<1>7. flush' \in [Run -> FlushState]
  BY <1>4, <1>5
<1>8. \A g \in Run : Moves(g)
  BY <1>5, <1>6 DEF Moves, Single
<1>9. QED  BY <1>2, <1>3, <1>7, <1>8, FlushesMove

\* Setting the stage of a flush.
LEMMA StageSet ==
  ASSUME Typed, NEW f \in Run,
         NEW stage \in {"target", "await", "record", "done"},
         flush' = [flush EXCEPT ![f].stage = stage]
  PROVE  /\ flush' \in [Run -> FlushState]
         /\ \A g \in Run \ {f} : flush'[g] = flush[g]
         /\ flush'[f].stage = stage
         /\ flush'[f].proc = flush[f].proc /\ flush'[f].attempt = flush[f].attempt
BY DEF Typed, FlushState

LEMMA StageMoves ==
  ASSUME Typed, NEW f \in Run, NEW stage, flush' = [flush EXCEPT ![f].stage = stage],
         \/ stage = "done"
         \/ stage = "target" /\ \E w \in Proc : flush[f].proc = {w} /\ signer[w] # {}
         \/ /\ stage = "record" /\ flush[f].stage = "await"
            /\ \A a \in flush[f].attempt : attempt[a].stage = "ready"
  PROVE  flush' \in [Run -> FlushState] /\ \A g \in Run : Moves(g)
<1>1. stage \in {"target", "await", "record", "done"}
  OBVIOUS
<1>2. /\ flush' \in [Run -> FlushState]
      /\ \A g \in Run \ {f} : flush'[g] = flush[g]
      /\ flush'[f].stage = stage
      /\ flush'[f].proc = flush[f].proc /\ flush'[f].attempt = flush[f].attempt
  BY <1>1, StageSet
<1>3. Moves(f)
  BY <1>2 DEF Moves
<1>4. ASSUME NEW g \in Run, g # f PROVE Moves(g)
  BY <1>2, <1>4 DEF Moves
<1>5. QED  BY <1>2, <1>3, <1>4

LEMMA GetClientStep ==
  ASSUME LocalInv, NEW f \in Run, NEW o \in {"ok", "refused"}, GetClient(f, o)
  PROVE  LocalInv'
<1>1. UNCHANGED <<provisioningVars, memo, host, captured, kept>>
  BY DEF GetClient
<1>2. PICK stage \in {"done", "target"} : flush' = [flush EXCEPT ![f].stage = stage]
  BY DEF GetClient, GiveUp
<1>3. \E w \in Proc : flush[f].proc = {w} /\ signer[w] # {}
  <2>1. flush[f] \in FlushState /\ flush[f].stage = "client"
    BY DEF GetClient, LocalInv, Typed
  <2>2. flush[f].proc \in {{}} \cup Single /\ flush[f].proc # {}
    BY <2>1 DEF LocalInv, Signed, FlushState
  <2>3. PICK w \in Proc : flush[f].proc = {w}
    BY <2>2 DEF Single
  <2>4. signer[w] # {}
    BY <2>3 DEF GetClient
  <2>5. QED  BY <2>3, <2>4
<1>4. flush' \in [Run -> FlushState] /\ \A g \in Run : Moves(g)
  <2>1. Typed
    BY DEF LocalInv
  <2>2. QED  BY <1>2, <1>3, <2>1, StageMoves
<1>5. QED  BY <1>1, <1>4, FlushesMove DEF LocalInv, Typed

LEMMA RecordingStep ==
  ASSUME LocalInv, NEW f \in Run,
         TargetResolves(f) \/ RecordStep(f) \/ RecordReturns(f)
  PROVE  LocalInv'
<1>1. UNCHANGED <<provisioningVars, memo, host, captured, kept>>
  BY DEF TargetResolves, RecordStep, RecordReturns, captureVars, inProcessVars
<1>2. flush' \in [Run -> FlushState] /\ \A g \in Run : Moves(g)
  <2>1. CASE TargetResolves(f)
    <3>1. Typed /\ flush' = [flush EXCEPT ![f].stage = "record"]
      BY <2>1 DEF TargetResolves, LocalInv
    <3>2. flush[f].stage = "await" /\ \A a \in flush[f].attempt : attempt[a].stage = "ready"
      BY <2>1 DEF TargetResolves
    <3>3. QED  BY <3>1, <3>2, StageMoves
  <2>2. CASE RecordStep(f)
    BY <2>2 DEF RecordStep, inProcessVars, LocalInv, Typed, Moves
  <2>3. CASE RecordReturns(f)
    <3>1. Typed /\ flush' = [flush EXCEPT ![f].stage = "done"]
      BY <2>3 DEF RecordReturns, GiveUp, LocalInv
    <3>2. QED  BY <3>1, StageMoves
  <2>4. QED  BY <2>1, <2>2, <2>3
<1>3. QED  BY <1>1, <1>2, FlushesMove DEF LocalInv, Typed

-----------------------------------------------------------------------------
\* A flush joins the attempt its process remembers, or starts the only one.
LEMMA GetTargetStep ==
  ASSUME LocalInv, NEW f \in Run, NEW a \in Attempt, GetTarget(f, a)
  PROVE  LocalInv'
<1> USE DEF LocalInv
<1>1. flush[f].stage = "target" /\ flush[f] \in FlushState
  BY DEF GetTarget, Typed
<1>2. PICK w \in Proc : flush[f].proc = {w} /\ signer[w] # {}
  BY <1>1 DEF Signed
<1>3. /\ UNCHANGED <<wallet, signer, generating, walletRaced, target, capOwner, host, captured, kept>>
      /\ flush' = [flush EXCEPT ![f].stage = "await", ![f].attempt = {a}]
      /\ \/ memo[w] = {} /\ BeginAttempt(a, w) /\ memo' = [memo EXCEPT ![w] = {a}]
         \/ a \in memo[w] /\ UNCHANGED <<attempt, memo>>
  BY <1>2 DEF GetTarget, captureVars
<1>4. /\ flush' \in [Run -> FlushState]
      /\ \A g \in Run \ {f} : flush'[g] = flush[g]
      /\ flush'[f].stage = "await" /\ flush'[f].attempt = {a} /\ flush'[f].proc = {w}
  BY <1>1, <1>2, <1>3 DEF Typed, FlushState
<1>5. CASE a \in memo[w] /\ UNCHANGED <<attempt, memo>>
  <2>1. memo[w] = {a} /\ attempt[a].proc = {w}
    BY <1>5 DEF Typed, Own
  <2>2. Typed' /\ OneWallet' /\ CapsMade'
    BY <1>3, <1>4, <1>5 DEF Typed, OneWallet, CapsMade
  <2>3. Signed'
    <3>1. \A b \in Attempt : InFlight(b)' <=> InFlight(b)
      BY <1>5 DEF InFlight
    <3>2. QED  BY <1>2, <1>3, <1>4, <1>5, <3>1 DEF Signed
  <2>4. Own'
    <3>1. ASSUME NEW g \in Run, flush'[g].stage \in {"await", "record"}
          PROVE  \E b \in Attempt : flush'[g].attempt = {b} /\ attempt[b].proc = flush'[g].proc
      <4>1. CASE g = f
        BY <1>4, <2>1, <4>1
      <4>2. CASE g # f
        BY <1>4, <3>1, <4>2 DEF Own
      <4>3. QED  BY <4>1, <4>2
    <3>2. QED  BY <1>5, <3>1 DEF Own
  <2>5. ASSUME NEW v \in Proc PROVE Excused(v)' \/ Remembers(v)'
    <3>1. Excused(v) => Excused(v)'
      BY <1>3, <1>5 DEF Excused, OpenClaw
    <3>2. CASE Remembers(v)
      <4>1. \A b \in Attempt : v \in attempt[b].proc /\ InFlight(b)' => memo[v] = {b}
        BY <1>5, <3>2 DEF Remembers, InFlight
      <4>2. ASSUME NEW g \in Run PROVE RemembersFlush(v, g)'
        BY <1>4, <1>5, <2>1, <3>2 DEF Remembers, RemembersFlush
      <4>3. QED  BY <1>5, <4>1, <4>2 DEF Remembers
    <3>3. QED  BY <3>1, <3>2
  <2>6. QED  BY <2>2, <2>3, <2>4, <2>5
<1>6. CASE memo[w] = {} /\ BeginAttempt(a, w) /\ memo' = [memo EXCEPT ![w] = {a}]
  <2> DEFINE begun == IF target # {} THEN [stage |-> "ready", proc |-> {w}, result |-> target]
                      ELSE [stage |-> "create", proc |-> {w}, result |-> {}]
  <2>1. begun \in AttemptState /\ begun.stage \in {"ready", "create"} /\ begun.proc = {w}
    BY DEF AttemptState, Single, Typed
  <2>2. attempt' = [attempt EXCEPT ![a] = begun] /\ attempt[a].stage = "none"
    BY <1>6 DEF BeginAttempt
  <2> HIDE DEF begun
  <2>3. /\ attempt' \in [Attempt -> AttemptState]
        /\ attempt'[a] = begun
        /\ \A b \in Attempt \ {a} : attempt'[b] = attempt[b]
    BY <2>1, <2>2 DEF Typed
  <2>4. /\ memo' \in [Proc -> {{}} \cup {{b} : b \in Attempt}]
        /\ memo'[w] = {a} /\ \A v \in Proc \ {w} : memo'[v] = memo[v]
    BY <1>6 DEF Typed
  <2>5. Typed'
    BY <1>3, <1>4, <2>3, <2>4 DEF Typed
  <2>6. OneWallet'
    BY <1>3 DEF OneWallet
  <2>7. CapsMade'
    BY <1>3, <2>1, <2>3 DEF CapsMade
  <2>8. Signed'
    <3>1. \A b \in Attempt \ {a} : InFlight(b)' <=> InFlight(b)
      BY <2>3 DEF InFlight
    <3>2. \A b \in Attempt : InFlight(b)' => \E v \in Proc : attempt'[b].proc = {v} /\ signer[v] # {}
      BY <1>2, <2>1, <2>3, <3>1 DEF Signed
    <3>3. QED  BY <1>2, <1>3, <1>4, <3>2 DEF Signed
  <2>9. \A v \in Proc : a \notin memo[v]
    BY <2>2 DEF Own
  <2>10. \A g \in Run : flush[g].stage \in {"await", "record"} => a \notin flush[g].attempt
    BY <2>2 DEF Own, Signed
  <2>11. Own'
    <3>1. ASSUME NEW v \in Proc, NEW b \in memo'[v] PROVE attempt'[b].proc = {v}
      <4>1. CASE v = w
        BY <2>1, <2>3, <2>4, <4>1
      <4>2. CASE v # w
        <5>1. b \in memo[v] /\ b # a
          BY <2>4, <2>9, <4>2
        <5>2. memo[v] \in {{}} \cup {{c} : c \in Attempt}
          BY DEF Typed
        <5>3. b \in Attempt
          BY <5>1, <5>2
        <5>4. QED  BY <2>3, <5>1, <5>3 DEF Own
      <4>3. QED  BY <4>1, <4>2
    <3>2. \A b \in Attempt : attempt'[b].stage = "none" => attempt'[b].proc = {}
      BY <2>1, <2>3 DEF Own
    <3>3. ASSUME NEW g \in Run, flush'[g].stage \in {"await", "record"}
          PROVE  \E b \in Attempt : flush'[g].attempt = {b} /\ attempt'[b].proc = flush'[g].proc
      <4>1. CASE g = f
        BY <1>4, <2>1, <2>3, <4>1
      <4>2. CASE g # f
        <5>1. PICK b \in Attempt : flush[g].attempt = {b} /\ attempt[b].proc = flush[g].proc
          BY <1>4, <3>3, <4>2 DEF Own
        <5>2. b # a /\ flush'[g] = flush[g]
          BY <1>4, <2>10, <3>3, <4>2, <5>1
        <5>3. QED  BY <2>3, <5>1, <5>2
      <4>3. QED  BY <4>1, <4>2
    <3>4. QED  BY <3>1, <3>2, <3>3 DEF Own
  <2>12. ASSUME NEW v \in Proc PROVE Excused(v)' \/ Remembers(v)'
    <3>1. Excused(v) => Excused(v)'
      BY <1>3, <2>2, <2>3 DEF Excused, OpenClaw
    <3>2. CASE Remembers(v)
      <4>1. ASSUME NEW b \in Attempt, v \in attempt'[b].proc, InFlight(b)'
            PROVE  memo'[v] = {b}
        <5>1. CASE b = a
          BY <2>1, <2>3, <2>4, <4>1, <5>1
        <5>2. CASE b # a
          <6>1. memo[v] = {b}
            BY <2>3, <3>2, <4>1, <5>2 DEF Remembers, InFlight
          <6>2. QED  BY <1>6, <2>4, <6>1
        <5>3. QED  BY <5>1, <5>2
      <4>2. ASSUME NEW g \in Run PROVE RemembersFlush(v, g)'
        <5>1. CASE g = f
          BY <1>4, <2>4, <5>1 DEF RemembersFlush
        <5>2. CASE g # f
          <6>1. RemembersFlush(v, g) /\ flush'[g] = flush[g]
            BY <1>4, <3>2, <5>2 DEF Remembers
          <6>2. flush[g].stage \in {"await", "record"} =>
                  \A b \in flush[g].attempt : b \in Attempt /\ attempt'[b] = attempt[b]
            BY <2>3, <2>10 DEF Own
          <6>3. v = w => memo[v] = {}
            BY <1>6
          <6>4. QED  BY <2>4, <6>1, <6>2, <6>3 DEF RemembersFlush
        <5>3. QED  BY <5>1, <5>2
      <4>3. QED  BY <4>1, <4>2 DEF Remembers
    <3>3. QED  BY <3>1, <3>2
  <2>13. QED  BY <2>5, <2>6, <2>7, <2>8, <2>11, <2>12
<1>7. QED  BY <1>3, <1>5, <1>6

\* A flush whose attempt failed drops it, from the memo too.
LEMMA TargetFailsStep ==
  ASSUME LocalInv, NEW f \in Run, TargetFails(f)
  PROVE  LocalInv'
<1> USE DEF LocalInv
<1>1. /\ UNCHANGED <<wallet, signer, generating, walletRaced, target, capOwner, attempt, host,
                     captured, kept>>
      /\ flush[f].stage = "await" /\ \A a \in flush[f].attempt : attempt[a].stage = "failed"
      /\ flush' = [flush EXCEPT ![f].stage = "done"]
      /\ memo' = [w \in Proc |->
                   IF w \in flush[f].proc /\ (OpenClaw \/ memo[w] = flush[f].attempt)
                   THEN {} ELSE memo[w]]
  BY DEF TargetFails, GiveUp, provisioningVars
<1>2. /\ flush' \in [Run -> FlushState]
      /\ \A g \in Run \ {f} : flush'[g] = flush[g]
      /\ flush'[f].stage = "done"
  BY <1>1, StageSet
<1>3. memo' \in [Proc -> {{}} \cup {{a} : a \in Attempt}] /\ \A w \in Proc : memo'[w] \subseteq memo[w]
  BY <1>1 DEF Typed
<1>4. Typed' /\ OneWallet' /\ CapsMade'
  BY <1>1, <1>2, <1>3 DEF Typed, OneWallet, CapsMade
<1>5. \A a \in Attempt : InFlight(a)' <=> InFlight(a)
  BY <1>1 DEF InFlight
<1>6. Signed'
  BY <1>1, <1>2, <1>5 DEF Signed
<1>7. Own'
  BY <1>1, <1>2, <1>3 DEF Own
<1>8. PICK a \in Attempt : flush[f].attempt = {a} /\ attempt[a].proc = flush[f].proc
  BY <1>1 DEF Own
<1>9. attempt[a].stage = "failed"
  BY <1>1, <1>8
<1>10. ASSUME NEW w \in Proc PROVE Excused(w)' \/ Remembers(w)'
  <2>1. Excused(w) => Excused(w)'
    BY <1>1 DEF Excused, OpenClaw
  <2>2. CASE Remembers(w) /\ memo'[w] = memo[w]
    <3>1. \A g \in Run : RemembersFlush(w, g)'
      BY <1>1, <1>2, <2>2 DEF Remembers, RemembersFlush
    <3>2. QED  BY <1>1, <1>5, <2>2, <3>1 DEF Remembers
  <2>3. CASE Remembers(w) /\ memo'[w] # memo[w] /\ OpenClaw
    BY <1>1, <1>8, <1>9, <2>1, <2>3 DEF Excused
  <2>4. CASE Remembers(w) /\ memo'[w] # memo[w] /\ ~OpenClaw
    <3>1. memo[w] = {a} /\ memo'[w] = {}
      BY <1>1, <1>8, <2>4
    <3>2. \A b \in Attempt : w \in attempt[b].proc => ~InFlight(b)
      BY <1>9, <2>4, <3>1 DEF Remembers, InFlight
    <3>3. ASSUME NEW g \in Run PROVE RemembersFlush(w, g)'
      BY <1>1, <1>2, <1>9, <2>4, <3>1 DEF Remembers, RemembersFlush
    <3>4. QED  BY <1>1, <1>5, <3>2, <3>3 DEF Remembers
  <2>5. QED  BY <2>1, <2>2, <2>3, <2>4
<1>11. QED  BY <1>4, <1>6, <1>7, <1>10

-----------------------------------------------------------------------------
\* A process finds the wallet, or announces a new one, or saves it.
LEMMA WalletStep ==
  ASSUME LocalInv, NEW w \in Proc, ReadWallet(w) \/ SaveWallet(w),
         UNCHANGED <<captureVars, inProcessVars>>
  PROVE  LocalInv'
<1> USE DEF LocalInv
<1>1. UNCHANGED <<target, capOwner, attempt, captured, host, kept, memo, flush>>
  BY DEF ReadWallet, SaveWallet, captureVars, inProcessVars
<1>2. \/ /\ wallet # {} /\ signer' = [signer EXCEPT ![w] = wallet]
         /\ UNCHANGED <<wallet, generating, walletRaced>>
      \/ /\ wallet = {} /\ generating' = generating \cup {w}
         /\ walletRaced' = (walletRaced \/ generating # {})
         /\ UNCHANGED <<wallet, signer>>
      \/ /\ w \in generating /\ generating' = generating \ {w} /\ wallet' = {w}
         /\ signer' = [signer EXCEPT ![w] = {w}]
         /\ UNCHANGED walletRaced
  BY DEF ReadWallet, SaveWallet
<1>3. Typed'
  <2>1. {w} \in Single
    BY DEF Single
  <2>2. /\ wallet' \in {{}} \cup Single /\ generating' \subseteq Proc /\ walletRaced' \in BOOLEAN
        /\ signer' \in [Proc -> {{}} \cup Single]
    BY <1>2, <2>1 DEF Typed
  <2>3. QED  BY <1>1, <2>2 DEF Typed
<1>4. OneWallet'
  <2> SUFFICES ASSUME ~walletRaced'
               PROVE  /\ \A v, u \in generating' : v = u
                      /\ generating' # {} => wallet' = {}
                      /\ \A v \in Proc : signer'[v] \in {{}, wallet'}
                      /\ \A a \in Attempt : capOwner'[a] \in {{}, wallet'}
    BY DEF OneWallet
  <2>1. /\ ~walletRaced
        /\ \A v, u \in generating : v = u
        /\ generating # {} => wallet = {}
        /\ \A v \in Proc : signer[v] \in {{}, wallet}
        /\ \A a \in Attempt : capOwner[a] \in {{}, wallet}
    BY <1>2 DEF OneWallet, Typed
  <2>2. signer \in [Proc -> {{}} \cup Single]
    BY DEF Typed
  <2>3. CASE wallet # {} /\ signer' = [signer EXCEPT ![w] = wallet]
             /\ UNCHANGED <<wallet, generating, walletRaced>>
    BY <1>1, <2>1, <2>2, <2>3
  <2>4. CASE /\ wallet = {} /\ generating' = generating \cup {w}
             /\ walletRaced' = (walletRaced \/ generating # {})
             /\ UNCHANGED <<wallet, signer>>
    BY <1>1, <2>1, <2>4
  <2>5. CASE /\ w \in generating /\ generating' = generating \ {w} /\ wallet' = {w}
             /\ signer' = [signer EXCEPT ![w] = {w}]
    <3>1. generating' = {}
      BY <2>1, <2>5
    <3>2. QED  BY <1>1, <2>1, <2>2, <2>5, <3>1
  <2>6. QED  BY <1>2, <2>3, <2>4, <2>5
<1>5. \A v \in Proc : signer[v] # {} => signer'[v] # {}
  BY <1>2 DEF Typed
<1>6. \A a \in Attempt : InFlight(a)' <=> InFlight(a)
  BY <1>1 DEF InFlight
<1>7. Signed'
  BY <1>1, <1>5, <1>6 DEF Signed
<1>8. CapsMade' /\ Own'
  BY <1>1 DEF CapsMade, Own
<1>9. ASSUME NEW v \in Proc PROVE Excused(v)' \/ Remembers(v)'
  BY <1>1, <1>6 DEF Excused, OpenClaw, Remembers, RemembersFlush
<1>10. QED  BY <1>3, <1>4, <1>7, <1>8, <1>9

\* An attempt under way goes on, fails, or ends with its target saved.
LEMMA AttemptGoesOn ==
  ASSUME LocalInv, NEW a \in Attempt, InFlight(a),
         UNCHANGED <<host, memo, flush>>,
         attempt' \in [Attempt -> AttemptState],
         \A b \in Attempt \ {a} : attempt'[b] = attempt[b],
         attempt'[a].stage # "none", attempt'[a].proc = attempt[a].proc
  PROVE  Own' /\ \A w \in Proc : Excused(w)' \/ Remembers(w)'
<1> USE DEF LocalInv
<1>1. Own'
  <2>1. \A b \in Attempt : attempt'[b].proc = attempt[b].proc
    OBVIOUS
  <2>2. \A w \in Proc : memo[w] \subseteq Attempt
    BY DEF Typed
  <2>3. \A b \in Attempt : attempt'[b].stage = "none" => attempt'[b].proc = {}
    BY DEF Own
  <2>4. \A w \in Proc : \A b \in memo'[w] : attempt'[b].proc = {w}
    BY <2>1, <2>2 DEF Own
  <2>5. \A f \in Run : flush'[f].stage \in {"await", "record"} =>
          \E b \in Attempt : flush'[f].attempt = {b} /\ attempt'[b].proc = flush'[f].proc
    BY <2>1 DEF Own
  <2>6. QED  BY <2>3, <2>4, <2>5 DEF Own
<1>2. ASSUME NEW w \in Proc PROVE Excused(w)' \/ Remembers(w)'
  <2>1. Excused(w) => Excused(w)'
    BY DEF Excused, OpenClaw, InFlight
  <2>2. CASE Remembers(w)
    <3>1. \A b \in Attempt : w \in attempt'[b].proc /\ InFlight(b)' => memo[w] = {b}
      BY <2>2 DEF Remembers, InFlight
    <3>2. ASSUME NEW g \in Run PROVE RemembersFlush(w, g)'
      <4>1. RemembersFlush(w, g)
        BY <2>2 DEF Remembers
      <4>2. flush[g].stage \in {"await", "record"} => flush[g].attempt \subseteq Attempt
        BY DEF Own
      <4>3. QED  BY <4>1, <4>2 DEF RemembersFlush, InFlight
    <3>3. QED  BY <3>1, <3>2 DEF Remembers
  <2>3. QED  BY <2>1, <2>2
<1>3. QED  BY <1>1, <1>2

LEMMA AttemptStep ==
  ASSUME LocalInv, NEW a \in Attempt, UNCHANGED <<captureVars, inProcessVars>>,
         \/ \E o \in Outcome : CreateNamespace(a, o) \/ ShareReadWrite(a, o)
         \/ SaveTarget(a)
  PROVE  LocalInv'
<1> USE DEF LocalInv
<1>1. /\ UNCHANGED <<wallet, signer, generating, walletRaced, captured, host, kept, memo, flush>>
      /\ InFlight(a)
  BY DEF CreateNamespace, ShareReadWrite, SaveTarget, captureVars, inProcessVars, InFlight
<1>2. PICK w \in Proc : attempt[a].proc = {w} /\ signer[w] # {}
  BY <1>1 DEF Signed
<1>3. \/ /\ attempt' = [attempt EXCEPT ![a].stage = "failed"]
         /\ UNCHANGED target
         /\ capOwner' = capOwner \/ capOwner' = [capOwner EXCEPT ![a] = signer[w]]
      \/ /\ attempt' = [attempt EXCEPT ![a].stage = "share"] /\ UNCHANGED <<target, capOwner>>
      \/ /\ attempt' = [attempt EXCEPT ![a].stage = "save"] /\ UNCHANGED target
         /\ capOwner' = [capOwner EXCEPT ![a] = signer[w]]
      \/ /\ attempt' = [attempt EXCEPT ![a].stage = "ready", ![a].result = {a}]
         /\ target' = {a} /\ attempt[a].stage = "save" /\ UNCHANGED capOwner
  <2>1. CASE \E o \in Outcome : CreateNamespace(a, o)
    BY <2>1 DEF CreateNamespace, SetAttempt
  <2>2. ASSUME NEW o \in Outcome, ShareReadWrite(a, o)
        PROVE  /\ UNCHANGED target
               /\ \/ /\ attempt' = [attempt EXCEPT ![a].stage = "failed"]
                     /\ capOwner' = capOwner \/ capOwner' = [capOwner EXCEPT ![a] = signer[w]]
                  \/ /\ attempt' = [attempt EXCEPT ![a].stage = "save"]
                     /\ capOwner' = [capOwner EXCEPT ![a] = signer[w]]
    <3>1. (CHOOSE v \in attempt[a].proc : TRUE) = w
      BY <1>2
    <3>2. ~Throws(o) => Executed(o)
      BY DEF Throws, Executed, Outcome
    <3>3. QED  BY <2>2, <3>1, <3>2 DEF ShareReadWrite, SetAttempt
  <2>3. CASE SaveTarget(a)
    BY <2>3 DEF SaveTarget
  <2>4. QED  BY <2>1, <2>2, <2>3
<1>4. attempt[a] \in AttemptState
  BY DEF Typed
<1>5. /\ attempt' \in [Attempt -> AttemptState]
      /\ \A b \in Attempt \ {a} : attempt'[b] = attempt[b]
      /\ attempt'[a].stage # "none" /\ attempt'[a].proc = {w}
      /\ attempt'[a].stage = "save" => capOwner' = [capOwner EXCEPT ![a] = signer[w]]
      /\ attempt'[a].stage = "ready" => attempt[a].stage = "save" /\ target' = {a} /\ capOwner' = capOwner
      /\ attempt'[a].stage # "ready" => target' = target
  <2> DEFINE Changed(stage, result) ==
        attempt' = [attempt EXCEPT ![a] = [attempt[a] EXCEPT !.stage = stage, !.result = result]]
  <2>1. ASSUME NEW stage \in {"failed", "share", "save", "ready"}, NEW result \in SUBSET Attempt,
               Changed(stage, result)
        PROVE  /\ attempt' \in [Attempt -> AttemptState]
               /\ \A b \in Attempt \ {a} : attempt'[b] = attempt[b]
               /\ attempt'[a].stage = stage /\ attempt'[a].proc = {w}
    <3> DEFINE next == [attempt[a] EXCEPT !.stage = stage, !.result = result]
    <3>1. next \in AttemptState /\ next.stage = stage /\ next.proc = {w}
      BY <1>2, <1>4 DEF AttemptState
    <3>2. attempt' = [attempt EXCEPT ![a] = next]
      BY <2>1
    <3> HIDE DEF next
    <3>3. QED  BY <3>1, <3>2 DEF Typed
  <2>2. ASSUME NEW stage \in {"failed", "share", "save"},
               attempt' = [attempt EXCEPT ![a].stage = stage]
        PROVE  Changed(stage, attempt[a].result) /\ attempt[a].result \in SUBSET Attempt
    BY <1>4, <2>2 DEF AttemptState
  <2>3. attempt' = [attempt EXCEPT ![a].stage = "ready", ![a].result = {a}]
        => Changed("ready", {a})
    BY <1>4 DEF AttemptState, Typed
  <2> HIDE DEF Changed
  <2>4. QED  BY <1>3, <2>1, <2>2, <2>3
<1>6. capOwner' = capOwner \/ capOwner' = [capOwner EXCEPT ![a] = signer[w]]
  BY <1>3
<1>7. capOwner' \in [Attempt -> {{}} \cup Single]
      /\ \A b \in Attempt : capOwner'[b] = capOwner[b] \/ capOwner'[b] = signer[w]
  BY <1>6 DEF Typed
<1>8. Typed'
  <2>1. target' \subseteq Attempt
    BY <1>5 DEF Typed
  <2>2. QED  BY <1>1, <1>5, <1>7, <2>1 DEF Typed
<1>9. OneWallet'
  BY <1>1, <1>7 DEF OneWallet
<1>10. CapsMade'
  <2>1. \A b \in Attempt : capOwner[b] # {} => capOwner'[b] # {}
    BY <1>2, <1>7
  <2>2. attempt'[a].stage = "save" => capOwner'[a] # {}
    BY <1>2, <1>5 DEF Typed
  <2>3. \A b \in Attempt : attempt'[b].stage = "save" => capOwner'[b] # {}
    BY <1>5, <2>1, <2>2 DEF CapsMade
  <2>4. \A b \in target' : capOwner'[b] # {}
    <3>1. CASE attempt'[a].stage = "ready"
      BY <1>5, <3>1 DEF CapsMade
    <3>2. CASE attempt'[a].stage # "ready"
      BY <1>5, <2>1, <3>2 DEF CapsMade, Typed
    <3>3. QED  BY <3>1, <3>2
  <2>5. QED  BY <2>3, <2>4 DEF CapsMade
<1>11. Signed'
  <2>1. \A b \in Attempt \ {a} : InFlight(b)' <=> InFlight(b)
    BY <1>5 DEF InFlight
  <2>2. \A b \in Attempt : InFlight(b)' => \E v \in Proc : attempt'[b].proc = {v} /\ signer[v] # {}
    BY <1>2, <1>5, <2>1 DEF Signed
  <2>3. QED  BY <1>1, <2>2 DEF Signed
<1>12. Own' /\ \A v \in Proc : Excused(v)' \/ Remembers(v)'
  BY <1>1, <1>2, <1>5, AttemptGoesOn
<1>13. QED  BY <1>8, <1>9, <1>10, <1>11, <1>12

\* A process dies: what it had under way is dead or failed, and it forgets.
LEMMA CrashStep ==
  ASSUME LocalInv, NEW w \in Proc, Crash(w)
  PROVE  LocalInv'
<1> USE DEF LocalInv
<1>1. /\ UNCHANGED <<host, captured, wallet, walletRaced, target, capOwner>>
      /\ kept' = [k \in Slot |-> IF k[1] = w THEN <<>> ELSE kept[k]]
      /\ memo' = [memo EXCEPT ![w] = {}]
      /\ signer' = [signer EXCEPT ![w] = {}]
      /\ generating' = generating \ {w}
      /\ flush' = [f \in Run |-> IF w \in flush[f].proc THEN [flush[f] EXCEPT !.stage = "dead"]
                                 ELSE flush[f]]
      /\ attempt' = [a \in Attempt |-> IF w \in attempt[a].proc /\ InFlight(a)
                                       THEN [attempt[a] EXCEPT !.stage = "failed"] ELSE attempt[a]]
  BY DEF Crash
<1>2. ASSUME NEW f \in Run
      PROVE  /\ flush'[f] \in FlushState
             /\ \/ w \notin flush[f].proc /\ flush'[f] = flush[f]
                \/ flush'[f].stage = "dead"
  BY <1>1 DEF Typed, FlushState
<1>3. ASSUME NEW a \in Attempt
      PROVE  /\ attempt'[a] \in AttemptState
             /\ attempt'[a].proc = attempt[a].proc
             /\ \/ ~(w \in attempt[a].proc /\ InFlight(a)) /\ attempt'[a] = attempt[a]
                \/ InFlight(a) /\ attempt'[a].stage = "failed"
  <2>1. attempt[a] \in AttemptState
    BY DEF Typed
  <2>2. CASE w \in attempt[a].proc /\ InFlight(a)
    <3>1. attempt'[a] = [attempt[a] EXCEPT !.stage = "failed"]
      BY <1>1, <2>2
    <3>2. QED  BY <2>1, <2>2, <3>1 DEF AttemptState
  <2>3. CASE ~(w \in attempt[a].proc /\ InFlight(a))
    BY <1>1, <2>1, <2>3
  <2>4. QED  BY <2>2, <2>3
<1>4. /\ memo'[w] = {} /\ \A v \in Proc \ {w} : memo'[v] = memo[v]
      /\ \A v \in Proc \ {w} : signer'[v] = signer[v]
  BY <1>1 DEF Typed
<1>5. Typed'
  <2>1. flush' \in [Run -> FlushState] /\ attempt' \in [Attempt -> AttemptState]
    BY <1>1, <1>2, <1>3
  <2>2. memo' \in [Proc -> {{}} \cup {{a} : a \in Attempt}] /\ signer' \in [Proc -> {{}} \cup Single]
    BY <1>1 DEF Typed
  <2>3. kept' \in [Slot -> Seq(Nat)]
    BY <1>1 DEF Typed
  <2>4. QED  BY <1>1, <2>1, <2>2, <2>3 DEF Typed
<1>6. OneWallet'
  <2>1. \A v \in Proc : signer'[v] \in {{}, signer[v]}
    BY <1>1 DEF Typed
  <2>2. QED  BY <1>1, <2>1 DEF OneWallet, Typed
<1>7. Signed'
  <2>1. ASSUME NEW a \in Attempt, InFlight(a)'
        PROVE  \E v \in Proc : attempt'[a].proc = {v} /\ signer'[v] # {}
    <3>1. w \notin attempt[a].proc /\ attempt'[a] = attempt[a] /\ InFlight(a)
      BY <1>3, <2>1 DEF InFlight
    <3>2. PICK v \in Proc : attempt[a].proc = {v} /\ signer[v] # {}
      BY <3>1 DEF Signed
    <3>3. QED  BY <1>4, <3>1, <3>2
  <2>2. ASSUME NEW f \in Run, flush'[f].stage \in {"target", "await", "record"}
        PROVE  \E v \in Proc : flush'[f].proc = {v} /\ signer'[v] # {}
    <3>1. w \notin flush[f].proc /\ flush'[f] = flush[f]
      BY <1>2, <2>2
    <3>2. PICK v \in Proc : flush[f].proc = {v} /\ signer[v] # {}
      BY <2>2, <3>1 DEF Signed
    <3>3. QED  BY <1>4, <3>1, <3>2
  <2>3. \A f \in Run : flush'[f].stage = "client" => flush'[f].proc # {}
    BY <1>2 DEF Signed
  <2>4. QED  BY <2>1, <2>2, <2>3 DEF Signed
<1>8. CapsMade'
  BY <1>1, <1>3 DEF CapsMade
<1>9. Own'
  <2>1. \A a \in Attempt : attempt'[a].stage = "none" => attempt'[a].proc = {}
    BY <1>3 DEF Own
  <2>2. ASSUME NEW v \in Proc, NEW a \in memo'[v] PROVE attempt'[a].proc = {v}
    <3>1. a \in memo[v]
      BY <1>4
    <3>2. memo[v] \in {{}} \cup {{b} : b \in Attempt}
      BY DEF Typed
    <3>3. a \in Attempt
      BY <3>1, <3>2
    <3>4. QED  BY <1>3, <3>1, <3>3 DEF Own
  <2>3. ASSUME NEW f \in Run, flush'[f].stage \in {"await", "record"}
        PROVE  \E a \in Attempt : flush'[f].attempt = {a} /\ attempt'[a].proc = flush'[f].proc
    BY <1>2, <1>3, <2>3 DEF Own
  <2>4. QED  BY <2>1, <2>2, <2>3 DEF Own
<1>10. ASSUME NEW v \in Proc PROVE Excused(v)' \/ Remembers(v)'
  <2>1. Excused(v) => Excused(v)'
    BY <1>1, <1>3 DEF Excused, OpenClaw, InFlight
  <2>2. CASE Remembers(v)
    <3>1. ASSUME NEW a \in Attempt, v \in attempt'[a].proc, InFlight(a)'
          PROVE  memo'[v] = {a}
      <4>1. w \notin attempt[a].proc /\ InFlight(a) /\ v \in attempt[a].proc
        BY <1>3, <3>1 DEF InFlight
      <4>2. memo[v] = {a} /\ v # w
        BY <2>2, <4>1 DEF Remembers
      <4>3. QED  BY <1>4, <4>2
    <3>2. ASSUME NEW f \in Run PROVE RemembersFlush(v, f)'
      <4> SUFFICES ASSUME flush'[f].stage \in {"await", "record"}, v \in flush'[f].proc,
                          NEW a \in flush'[f].attempt
                   PROVE  /\ attempt'[a].stage = "failed" \/ memo'[v] = {a}
                          /\ flush'[f].stage = "record" => attempt'[a].stage = "ready"
        BY DEF RemembersFlush
      <4>1. w \notin flush[f].proc /\ flush'[f] = flush[f] /\ v # w
        BY <1>2
      <4>2. a \in Attempt /\ attempt[a].proc = flush[f].proc
        BY <4>1 DEF Own
      <4>3. attempt'[a] = attempt[a]
        BY <1>1, <4>1, <4>2
      <4>4. RemembersFlush(v, f)
        BY <2>2 DEF Remembers
      <4>5. QED  BY <1>4, <4>1, <4>3, <4>4 DEF RemembersFlush
    <3>3. QED  BY <3>1, <3>2 DEF Remembers
  <2>3. QED  BY <2>1, <2>2
<1>11. QED  BY <1>5, <1>6, <1>7, <1>8, <1>9, <1>10

LEMMA LocalStepInv == LocalInv /\ [Next]_vars => LocalInv'
<1> SUFFICES ASSUME LocalInv, [Next]_vars PROVE LocalInv'
  OBVIOUS
<1>1. CASE UNCHANGED <<captureVars, provisioningVars, inProcessVars>>
  <2>1. /\ UNCHANGED <<provisioningVars, memo, host, captured, kept, flush>>
    BY <1>1 DEF captureVars, inProcessVars
  <2>2. \A f \in Run : Moves(f)
    BY <2>1 DEF Moves
  <2>3. QED  BY <2>1, <2>2, FlushesMove DEF LocalInv, Typed
<1>2. CASE EditControls
  BY <1>1, <1>2 DEF EditControls
<1>3. CASE HooksOfHost
  <2>1. UNCHANGED <<host, provisioningVars, inProcessVars>> /\ captured' \in {captured, captured + 1}
    BY <1>3
    DEF HooksOfHost, HookStep, Arm, InjectBegins, InjectSaves, StopBegins, InjectOpens, ClaudeObserves,
        CodexObserves, Observe, ObserveAppends, ClaudeSummaryReads, ClaudeSummaryDisabled,
        ClaudeSummaryBegins, StopReads,
        ClaudeDrains, ClaudeAppends, ClaudeCloses, ClaudeEnds, StopDisabled, SummaryDisabled, StopEmpty,
        CliStep, StopReturns, InjectKilled, SummaryKilled, captureVars
  <2>2. UNCHANGED <<memo, kept, flush>> /\ captured' \in Nat
    BY <2>1 DEF inProcessVars, LocalInv, Typed
  <2>3. \A f \in Run : Moves(f)
    BY <2>2 DEF Moves
  <2>4. QED  BY <2>1, <2>2, <2>3, FlushesMove DEF LocalInv, Typed
<1>4. CASE InProcessOfHost
  BY <1>4, KeepStep, RunErrorsStep, TakesStep, GetClientStep, RecordingStep, GetTargetStep, TargetFailsStep,
     CrashStep, WalletStep, AttemptStep
  DEF InProcessOfHost, InProcessStep
<1>5. CASE UNCHANGED vars
  BY <1>1, <1>5 DEF vars
<1>6. QED  BY <1>2, <1>3, <1>4, <1>5 DEF Next

LEMMA LocalAlways == Spec => []LocalInv
BY LocalInitInv, LocalStepInv, PTL DEF Spec

-----------------------------------------------------------------------------
\* For any number of processes, whatever of provisioning fails or is killed: a saved
\* target is usable with the saved wallet, unless two processes generated a wallet at the
\* same time (runtime.ts 112-133, 171-208).
THEOREM TargetsAreUsable == Spec => []SavedTargetIsUsable
<1>1. LocalInv => SavedTargetIsUsable
  <2> SUFFICES ASSUME LocalInv, NEW a \in target
               PROVE  capOwner[a] # {} /\ (capOwner[a] = wallet \/ walletRaced)
    BY DEF SavedTargetIsUsable
  <2>1. capOwner[a] # {} /\ a \in Attempt
    BY DEF LocalInv, Typed, CapsMade
  <2>2. QED  BY <2>1 DEF LocalInv, OneWallet
<1>2. QED  BY <1>1, LocalAlways, PTL

\* For any number of flushes and failures, a process has at most one attempt under way
\* and records everything in one namespace, but for OpenClaw once an attempt has failed
\* (onemem-trace.ts 91-92, 156-163; runtime.ts 324-367).
THEOREM AttemptsAreShared == Spec => []OneAttemptAtATime
<1>1. LocalInv => OneAttemptAtATime
  <2> SUFFICES ASSUME LocalInv, NEW w \in Proc, ~Excused(w)
               PROVE  /\ \A a \in Attempt : w \in attempt[a].proc /\ InFlight(a) => memo[w] = {a}
                      /\ \A f, g \in Run :
                           (w \in flush[f].proc \cap flush[g].proc /\ flush[f].stage = "record"
                             /\ flush[g].stage = "record")
                           => TargetOf(f) = TargetOf(g)
    BY DEF OneAttemptAtATime, Excused
  <2>1. Remembers(w)
    BY DEF LocalInv
  <2>2. ASSUME NEW f \in Run, w \in flush[f].proc, flush[f].stage = "record"
        PROVE  flush[f].attempt = memo[w]
    <3>1. PICK a \in Attempt : flush[f].attempt = {a}
      BY <2>2 DEF LocalInv, Own
    <3>2. RemembersFlush(w, f)
      BY <2>1 DEF Remembers
    <3>3. QED  BY <2>2, <3>1, <3>2 DEF RemembersFlush
  <2>3. QED  BY <2>1, <2>2 DEF Remembers, TargetOf
<1>2. QED  BY <1>1, LocalAlways, PTL
-----------------------------------------------------------------------------
(*****************************************************************************)
(* What becomes of the calls.  The three kinds of recorder share the types   *)
(* (FilesOK, CallsExist) and LossHasCause; the rest of the invariant depends *)
(* on the host, which never changes.                                         *)
(*****************************************************************************)
FilesOK ==
  /\ host \in Host
  /\ captured \in 0..MaxCalls[host]
  /\ discarded \subseteq 1..captured
  /\ atRisk \subseteq (1..captured) \X Reason
  /\ state \subseteq Run \cup {"armed"}
  /\ buffer \in [calls : Seq(Nat), bad : BOOLEAN, cut : BOOLEAN]
  /\ BufferedCalls \subseteq 1..captured
  /\ observing \subseteq 1..captured
  /\ inject \subseteq Run
  /\ unconfirmed \subseteq Run
  /\ clientReady \subseteq Proc

Sent(p) == Elements(run[p].calls)

CallsExist ==
  /\ \A p \in Run : Sent(p) \subseteq 1..captured
  /\ \A k \in Slot : Elements(kept[k]) \subseteq 1..captured
  /\ \A f \in Run : Elements(flush[f].calls) \subseteq 1..captured

\* The buffer holds the calls the summary has read, but for those appended since.
ReadCalls ==
  summary.stage \in {"controls", "client"} =>
    /\ Elements(summary.calls) \subseteq BufferedCalls
    /\ \A c \in BufferedCalls : \/ c \in Elements(summary.calls)
                                \/ <<c, "overlap">> \in atRisk
                                \/ Codex /\ buffer.bad /\ summary.calls = <<>>

\* A call is appended once.
Apart == observing \cap BufferedCalls = {}

-----------------------------------------------------------------------------
(******************************************************************************)
(* Claude Code.  A summary that has drained the buffer (InHand) knows how far *)
(* it is, and nobody else has its calls.                                      *)
(******************************************************************************)
ClaudeSummary ==
  \/ summary = NoSummary
  \/ /\ summary \in [stage : {"controls", "client", "append", "close", "end"}, session : Run,
                     calls : Seq(Nat), done : Nat]
     /\ summary.session \in DOMAIN onchain
     /\ summary.stage \in {"controls", "client"} => summary.done = 0

InHand == summary.stage \in {"append", "close", "end"}

Written(i) ==
  \/ summary.stage = "append" /\ i <= summary.done
  \/ summary.stage = "close" /\ i <= summary.done + 1
  \/ summary.stage = "end"

Progress ==
  InHand =>
    /\ Elements(summary.calls) \subseteq 1..captured
    /\ \A i \in DOMAIN summary.calls : Written(i) => OnChain(summary.calls[i])
    /\ summary.stage # "end" => summary.done < Len(summary.calls)
    /\ Elements(summary.calls) \cap (BufferedCalls \cup observing) = {}
    /\ \A c \in Elements(summary.calls), p \in Run : Holds(p, c) => p = summary.session

\* What waits to be recorded is in no session, and no call is in two.
Fresh == \A c \in BufferedCalls \cup observing : ~OnChain(c)
Once == \A p, q \in Run : \A c : Holds(p, c) /\ Holds(q, c) => p = q
ChainIsCaptured == \A p \in Run : \A c : Holds(p, c) => c \in 1..captured

ClaudeInv == /\ state \subseteq DOMAIN onchain
             /\ ClaudeSummary /\ Progress /\ Fresh /\ Once /\ ChainIsCaptured

(******************************************************************************)
(* Codex.  A run of the CLI was given what the buffer held; only one that was *)
(* not seen to succeed shares calls with another.                             *)
(******************************************************************************)
CodexSummary ==
  \/ summary = NoSummary
  \/ summary \in [stage : {"controls"}, calls : Seq(Nat)]
  \/ summary \in [stage : {"cli"}, session : Run]

Flushing ==
  summary.stage = "cli" =>
    /\ run[summary.session].stage # "new"
    /\ \A c \in BufferedCalls : c \in Sent(summary.session) \/ <<c, "overlap">> \in atRisk

Current(p) == summary.stage = "cli" /\ p = summary.session

SentOnce ==
  /\ \A p \in Run : Sent(p) \cap observing = {}
  /\ \A p \in Run \ unconfirmed : Current(p) \/ Sent(p) \cap BufferedCalls = {}
  /\ \A p, q \in Run \ unconfirmed : p # q => Sent(p) \cap Sent(q) = {}

CodexInv == RecorderInv /\ inject = {} /\ CodexSummary /\ Flushing /\ SentOnce

(***************************************************************************)
(* The recorders in memory.  A call is with one context of one process or  *)
(* with one flush, which has a run of its own.                             *)
(***************************************************************************)
FlushRun(f) ==
  /\ flush[f].stage = "none" => flush[f].calls = <<>>
  /\ flush[f].stage \in {"none", "client", "target", "await"} => run[f].stage = "new"
  /\ flush[f].stage = "record" => run[f].stage # "new"
  /\ run[f].stage # "new" => run[f].calls = flush[f].calls

InMemoryOnce ==
  /\ \A f, g \in Run : f # g => Elements(flush[f].calls) \cap Elements(flush[g].calls) = {}
  /\ \A j, k \in Slot : j # k => Elements(kept[j]) \cap Elements(kept[k]) = {}
  /\ \A f \in Run, k \in Slot : Elements(flush[f].calls) \cap Elements(kept[k]) = {}

MemoryInv == RecorderInv /\ (\A f \in Run : FlushRun(f)) /\ InMemoryOnce

ClaudeHas == Claude /\ FilesOK /\ RunsOK /\ CallsExist /\ ReadCalls /\ Apart /\ ClaudeInv /\ LossHasCause
CodexHas == Codex /\ FilesOK /\ CallsExist /\ ReadCalls /\ Apart /\ CodexInv /\ LossHasCause
MemoryHas == ~Claude /\ ~Codex /\ FilesOK /\ CallsExist /\ MemoryInv /\ LossHasCause

LossInv == LocalInv /\ (ClaudeHas \/ CodexHas \/ MemoryHas)

-----------------------------------------------------------------------------
LEMMA ElementsOfAppend ==
  ASSUME NEW s \in Seq(Nat), NEW c \in Nat
  PROVE  /\ Append(s, c) \in Seq(Nat)
         /\ Elements(Append(s, c)) = Elements(s) \cup {c}
<1> DEFINE t == Append(s, c)
<1>1. /\ t \in Seq(Nat) /\ Len(t) = Len(s) + 1 /\ t[Len(s) + 1] = c
      /\ \A i \in 1..Len(s) : t[i] = s[i]
  OBVIOUS
<1> HIDE DEF t
<1>2. DOMAIN s = 1..Len(s)
  OBVIOUS
<1>3. DOMAIN t = DOMAIN s \cup {Len(s) + 1}
  BY <1>1, <1>2
<1>4. \A i \in DOMAIN s : s[i] = t[i] /\ i \in DOMAIN t
  BY <1>1, <1>2, <1>3
<1>5. c = t[Len(s) + 1] /\ Len(s) + 1 \in DOMAIN t
  BY <1>1, <1>3
<1>6. Elements(s) \subseteq Elements(t)
  BY <1>4 DEF Elements
<1>7. c \in Elements(t)
  BY <1>5 DEF Elements
<1>8. Elements(t) \subseteq Elements(s) \cup {c}
  BY <1>3, <1>4, <1>5 DEF Elements
<1>9. QED  BY <1>1, <1>6, <1>7, <1>8 DEF t

LEMMA ElementsOfNone == Elements(<<>>) = {}
BY DEF Elements

LEMMA ElementsOfOne ==
  ASSUME NEW c \in Nat
  PROVE  <<c>> \in Seq(Nat) /\ Elements(<<c>>) = {c}
<1>1. DOMAIN <<c>> = {1} /\ <<c>>[1] = c
  OBVIOUS
<1>2. Elements(<<c>>) = {c}
  BY <1>1 DEF Elements
<1>3. QED  BY <1>2

LEMMA OfElements ==
  ASSUME NEW s \in Seq(Nat), NEW T, Elements(s) \subseteq T
  PROVE  s \in Seq(T)
<1>1. \A i \in 1..Len(s) : s[i] \in T
  BY DEF Elements
<1>2. QED  BY <1>1

LEMMA LossInitInv == Init => LossInv
<1> SUFFICES ASSUME Init PROVE LossInv
  OBVIOUS
<1> USE DEF Init
<1>1. LocalInv
  BY LocalInitInv
<1>2. FilesOK
  BY CapturedCallsAreBounded, ElementsOfNone
  DEF FilesOK, CaptureInit, HooksInit, NoBuffer, BufferedCalls, InProcessInit
<1>3. onchain = Empty /\ DOMAIN onchain = {} /\ run \in [Run -> RunState]
  BY DEF RecorderInit, Empty, NotStarted, RunState
<1>4. RecorderInv
  BY <1>3, FaultsAreBounded
  DEF RecorderInit, RecorderInv, RunsOK, RunIsWhereItSays, WhereItSays, SessionsTellTheTruth, NotStarted
<1>5. \A p \in Run : Sent(p) = {}
  BY ElementsOfNone DEF Sent, RecorderInit, NotStarted
<1>6. /\ \A f \in Run : Elements(flush[f].calls) = {} /\ flush[f].calls = <<>> /\ flush[f].stage = "none"
      /\ \A k \in Slot : Elements(kept[k]) = {}
  BY ElementsOfNone DEF InProcessInit, NoFlush
<1>7. CallsExist
  BY <1>5, <1>6 DEF CallsExist
<1>8. summary = NoSummary /\ summary.stage = "none" /\ BufferedCalls = {} /\ observing = {}
  BY ElementsOfNone DEF HooksInit, NoSummary, BufferedCalls, NoBuffer
<1>9. ReadCalls /\ Apart
  BY <1>8 DEF ReadCalls, Apart
<1>10. ClaudeInv
  BY <1>3, <1>8
  DEF ClaudeInv, ClaudeSummary, Progress, InHand, Fresh, OnChain, Once, ChainIsCaptured, Holds, HooksInit
<1>11. CodexInv
  BY <1>4, <1>5, <1>8 DEF CodexInv, CodexSummary, Flushing, SentOnce, Current, HooksInit
<1>12. MemoryInv
  <2>1. \A f \in Run : FlushRun(f)
    BY <1>6 DEF FlushRun, RecorderInit, NotStarted
  <2>2. InMemoryOnce
    BY <1>6 DEF InMemoryOnce
  <2>3. QED  BY <1>4, <2>1, <2>2 DEF MemoryInv
<1>13. LossHasCause
  BY DEF LossHasCause, CaptureInit
<1>14. QED
  BY <1>1, <1>2, <1>4, <1>7, <1>9, <1>10, <1>11, <1>12, <1>13
  DEF LossInv, ClaudeHas, CodexHas, MemoryHas, RecorderInv

-----------------------------------------------------------------------------
(***************************************************************************)
(* The sessions as Claude Code changes them.                               *)
(***************************************************************************)
LEMMA SessionOpens ==
  ASSUME RunsOK, NEW p \in Run, p \notin DOMAIN onchain, run' = run, faults' \in 0..MaxFaults,
         onchain' = Put(onchain, p, [calls |-> <<>>, closed |-> {}, status |-> "Active"])
  PROVE  /\ RunsOK'
         /\ DOMAIN onchain' = DOMAIN onchain \cup {p}
         /\ \A q, c : Holds(q, c)' <=> Holds(q, c)
<1>1. /\ DOMAIN onchain' = DOMAIN onchain \cup {p}
      /\ onchain'[p] = [calls |-> <<>>, closed |-> {}, status |-> "Active"]
      /\ \A q \in DOMAIN onchain : onchain'[q] = onchain[q]
  BY DEF Put
<1>2. onchain'[p] \in SessionState
  <2>1. [calls |-> <<>>, closed |-> {}, status |-> "Active"] \in SessionState
    BY DEF SessionState
  <2>2. QED  BY <1>1, <2>1
<1>3. RunsOK'
  BY <1>1, <1>2 DEF RunsOK
<1>4. \A q, c : Holds(q, c)' <=> Holds(q, c)
  BY <1>1, ElementsOfNone DEF Holds
<1>5. QED  BY <1>1, <1>3, <1>4

LEMMA SessionChanges ==
  ASSUME RunsOK, NEW p \in DOMAIN onchain, NEW session \in SessionState, run' = run,
         faults' \in 0..MaxFaults, onchain' = [onchain EXCEPT ![p] = session]
  PROVE  /\ RunsOK'
         /\ DOMAIN onchain' = DOMAIN onchain
         /\ \A q, c : q # p => (Holds(q, c)' <=> Holds(q, c))
         /\ \A c : Holds(p, c)' <=> c \in Elements(session.calls)
<1>1. /\ DOMAIN onchain' = DOMAIN onchain
      /\ onchain'[p] = session
      /\ \A q \in DOMAIN onchain \ {p} : onchain'[q] = onchain[q]
  OBVIOUS
<1>2. RunsOK'
  BY <1>1 DEF RunsOK
<1>3. \A q, c : q # p => (Holds(q, c)' <=> Holds(q, c))
  BY <1>1 DEF Holds
<1>4. \A c : Holds(p, c)' <=> c \in Elements(session.calls)
  BY <1>1 DEF Holds
<1>5. QED  BY <1>1, <1>2, <1>3, <1>4

\* The calls of all sessions are the same.
SameCalls == \A q, c : Holds(q, c)' <=> Holds(q, c)

LEMMA SameCallsOnChain ==
  ASSUME SameCalls, RunsOK, RunsOK'
  PROVE  \A c : OnChain(c)' <=> OnChain(c)
BY DEF SameCalls, OnChain, Holds

-----------------------------------------------------------------------------
\* What LossHasCause says of one call.
Accounted(c) ==
  \/ UnderWay(c)
  \/ OnChain(c)
  \/ c \in discarded
  \/ \E r \in MayBeLostTo : <<c, r>> \in atRisk

LEMMA Causes ==
  /\ Claude => MayBeLostTo = {"overlap", "torn", "abandoned"} /\ ~Codex
  /\ Codex => MayBeLostTo = {"overlap", "torn"} /\ ~Claude
  /\ ~Claude /\ ~Codex => "abandoned" \in MayBeLostTo
<1>1. CASE Claude
  BY <1>1 DEF MayBeLostTo, Claude, Codex, Sdk
<1>2. CASE Codex
  BY <1>2 DEF MayBeLostTo, Claude, Codex, Sdk
<1>3. CASE ~Claude /\ ~Codex
  BY <1>3 DEF MayBeLostTo
<1>4. QED  BY <1>1, <1>2, <1>3

\* Only calls that were with a hook, or are new, need a look when a hook takes a step.
WithHooks(c) ==
  \/ c \in observing
  \/ c \in BufferedCalls
  \/ summary.stage \in {"client", "append", "close"} /\ c \in Elements(summary.calls)

LEMMA HooksAccount ==
  ASSUME LossHasCause, UNCHANGED <<host, kept, flush>>, captured \in Nat, captured' \in Nat,
         \A c : OnChain(c) => OnChain(c)', discarded \subseteq discarded', atRisk \subseteq atRisk',
         \A c \in 1..captured' : c \notin 1..captured \/ WithHooks(c) => Accounted(c)'
  PROVE  LossHasCause'
<1>1. MayBeLostTo' = MayBeLostTo
  BY DEF MayBeLostTo, Claude, Codex, Sdk
<1>2. ASSUME NEW c \in 1..captured' PROVE Accounted(c)'
  <2>1. CASE c \notin 1..captured \/ WithHooks(c)
    BY <2>1
  <2>2. CASE c \in 1..captured /\ ~WithHooks(c)
    <3>1. UnderWay(c) => UnderWay(c)'
      BY <2>2 DEF UnderWay, WithHooks
    <3>2. Accounted(c)
      BY <2>2 DEF LossHasCause, Accounted
    <3>3. QED  BY <1>1, <3>1, <3>2 DEF Accounted
  <2>3. QED  BY <2>1, <2>2
<1>3. QED  BY <1>2 DEF LossHasCause, Accounted

-----------------------------------------------------------------------------
(***************************************************************************)
(* Steps of Claude Code.                                                   *)
(***************************************************************************)
ClaudeFrame == UNCHANGED <<host, run, unconfirmed, inProcessVars>>

\* Steps that leave the calls where they are.
LEMMA ClaudeQuiet ==
  ASSUME ClaudeHas, ClaudeFrame, UNCHANGED <<captureVars, buffer, observing, summary>>,
         RunsOK', SameCalls, DOMAIN onchain \subseteq DOMAIN onchain',
         state' \subseteq DOMAIN onchain', inject' \subseteq Run
  PROVE  ClaudeHas'
<1> USE DEF ClaudeHas, ClaudeFrame, captureVars, inProcessVars
<1>1. \A c : OnChain(c)' <=> OnChain(c)
  BY SameCallsOnChain
<1>2. FilesOK'
  BY DEF FilesOK, RunsOK, BufferedCalls
<1>3. CallsExist' /\ ReadCalls' /\ Apart'
  BY DEF CallsExist, Sent, ReadCalls, Apart, BufferedCalls, Codex
<1>4. ClaudeSummary'
  BY DEF ClaudeInv, ClaudeSummary
<1>5. Progress'
  BY <1>1 DEF ClaudeInv, Progress, InHand, Written, BufferedCalls, SameCalls
<1>6. Fresh' /\ Once' /\ ChainIsCaptured'
  BY <1>1 DEF ClaudeInv, Fresh, Once, ChainIsCaptured, SameCalls, BufferedCalls
<1>7. LossHasCause'
  <2>1. \A c \in 1..captured : Accounted(c) => Accounted(c)'
    BY <1>1 DEF Accounted, UnderWay, BufferedCalls, MayBeLostTo, Claude, Codex, Sdk
  <2>2. QED  BY <2>1 DEF LossHasCause, Accounted
<1>8. QED  BY <1>2, <1>3, <1>4, <1>5, <1>6, <1>7 DEF ClaudeInv, Claude

-----------------------------------------------------------------------------
(***************************************************************************)
(* The PostToolUse hooks, for both hosts.                                  *)
(***************************************************************************)
HookFiles == FilesOK /\ CallsExist /\ ReadCalls /\ Apart

LEMMA ObserveKeeps ==
  ASSUME HookFiles, Observe, UNCHANGED inProcessVars
  PROVE  /\ HookFiles'
         /\ captured \in Nat /\ captured' = captured + 1 /\ observing' = observing \cup {captured'}
         /\ UNCHANGED <<recorderVars, host, discarded, atRisk, state, buffer, summary, unconfirmed>>
<1> USE DEF HookFiles, FilesOK
<1>1. /\ captured' = captured + 1 /\ observing' = observing \cup {captured'}
      /\ UNCHANGED <<recorderVars, host, discarded, atRisk, state, buffer, inject, summary, unconfirmed>>
      /\ UNCHANGED <<run, kept, clientReady, flush>>
  BY DEF Observe, recorderVars, inProcessVars
<1>2. captured \in Nat /\ MaxCalls[host] \in Nat /\ captured < MaxCalls[host]
  BY CapturedCallsAreBounded DEF Observe
<1>3. 1..captured \subseteq 1..captured' /\ captured' \in 1..captured' /\ captured' \notin 1..captured
      /\ captured' \in 0..MaxCalls[host]
  BY <1>1, <1>2
<1>4. FilesOK'
  <2>1. BufferedCalls' = BufferedCalls
    BY <1>1 DEF BufferedCalls
  <2>2. observing' \subseteq 1..captured' /\ discarded' \subseteq 1..captured'
        /\ BufferedCalls' \subseteq 1..captured' /\ atRisk' \subseteq (1..captured') \X Reason
    BY <1>1, <1>3, <2>1
  <2>3. QED  BY <1>1, <1>3, <2>2
<1>5. CallsExist'
  BY <1>1, <1>3 DEF CallsExist, Sent
<1>6. ReadCalls' /\ Apart'
  BY <1>1, <1>3 DEF ReadCalls, Apart, BufferedCalls, Codex
<1>7. QED  BY <1>1, <1>2, <1>4, <1>5, <1>6

LEMMA AppendKeeps ==
  ASSUME HookFiles, NEW c \in observing, NEW o \in Outcome, ObserveAppends(c, o),
         UNCHANGED inProcessVars, faults \in 0..MaxFaults
  PROVE  /\ HookFiles'
         /\ faults' \in 0..MaxFaults
         /\ observing' = observing \ {c}
         /\ BufferedCalls \subseteq BufferedCalls' /\ BufferedCalls' \subseteq BufferedCalls \cup {c}
         /\ atRisk \subseteq atRisk'
         /\ c \in BufferedCalls' \/ <<c, "torn">> \in atRisk'
         /\ summary.stage # "none" => <<c, "overlap">> \in atRisk'
         /\ UNCHANGED <<onchain, run, host, captured, discarded, state, summary, unconfirmed>>
<1> USE DEF HookFiles, FilesOK
<1> DEFINE torn == buffer.cut \/ o # "ok"
           reasons == {r \in Reason : \/ r = "torn" /\ torn
                                      \/ r = "overlap" /\ summary.stage # "none"}
<1>1. /\ observing' = observing \ {c}
      /\ UNCHANGED <<onchain, run, host, captured, discarded, state, inject, summary, unconfirmed>>
      /\ UNCHANGED <<kept, clientReady, flush>>
      /\ buffer' = IF o = "refused" THEN buffer
                   ELSE [calls |-> IF torn THEN buffer.calls ELSE Append(buffer.calls, c),
                         bad |-> buffer.bad \/ torn, cut |-> o = "lost"]
      /\ atRisk' = atRisk \cup ({c} \X reasons)
  BY DEF ObserveAppends, MayLose, inProcessVars
<1>2. faults' \in 0..MaxFaults
  <2>1. Charge(o)
    BY DEF ObserveAppends
  <2>2. QED  BY <2>1, ChargeOK
<1>3. c \in 1..captured /\ c \in Nat
  OBVIOUS
<1>4. /\ Append(buffer.calls, c) \in Seq(Nat)
      /\ Elements(Append(buffer.calls, c)) = Elements(buffer.calls) \cup {c}
  BY <1>3, ElementsOfAppend
<1>5. /\ buffer' \in [calls : Seq(Nat), bad : BOOLEAN, cut : BOOLEAN]
      /\ BufferedCalls' = IF torn THEN BufferedCalls ELSE BufferedCalls \cup {c}
      /\ buffer.bad => buffer'.bad
  <2>1. CASE o = "refused"
    BY <1>1, <2>1 DEF BufferedCalls
  <2>2. CASE o # "refused"
    <3>1. buffer' = [calls |-> IF torn THEN buffer.calls ELSE Append(buffer.calls, c),
                     bad |-> buffer.bad \/ torn, cut |-> o = "lost"]
      BY <1>1, <2>2
    <3>2. buffer.bad \in BOOLEAN /\ buffer.cut \in BOOLEAN /\ torn \in BOOLEAN
      OBVIOUS
    <3>3. buffer'.bad = (buffer.bad \/ torn) /\ buffer'.cut = (o = "lost")
          /\ buffer'.calls = IF torn THEN buffer.calls ELSE Append(buffer.calls, c)
      BY <3>1
    <3> HIDE DEF torn
    <3>4. buffer' \in [calls : Seq(Nat), bad : BOOLEAN, cut : BOOLEAN]
      BY <1>4, <3>1, <3>2
    <3>5. BufferedCalls' = IF torn THEN BufferedCalls ELSE BufferedCalls \cup {c}
      BY <1>4, <3>3 DEF BufferedCalls
    <3>6. QED  BY <3>3, <3>4, <3>5
  <2>3. QED  BY <2>1, <2>2
<1>6. /\ torn => <<c, "torn">> \in atRisk'
      /\ summary.stage # "none" => <<c, "overlap">> \in atRisk'
      /\ atRisk \subseteq atRisk' /\ atRisk' \subseteq (1..captured) \X Reason
  BY <1>1, <1>3 DEF Reason
<1> HIDE DEF torn, reasons
<1>7. FilesOK'
  <2>1. BufferedCalls' \subseteq 1..captured /\ observing' \subseteq 1..captured
    BY <1>1, <1>3, <1>5
  <2>2. UNCHANGED <<host, captured, discarded, state, inject, unconfirmed, clientReady>>
    BY <1>1
  <2>3. QED  BY <1>5, <1>6, <2>1, <2>2
<1>8. CallsExist'
  BY <1>1 DEF CallsExist, Sent
<1>9. Apart'
  BY <1>1, <1>5 DEF Apart
<1>10. ReadCalls'
  BY <1>1, <1>5, <1>6 DEF ReadCalls, Codex
<1>11. QED  BY <1>1, <1>2, <1>5, <1>6, <1>7, <1>8, <1>9, <1>10

-----------------------------------------------------------------------------
LEMMA ClaudeObserveStep ==
  ASSUME ClaudeHas, Observe, UNCHANGED inProcessVars
  PROVE  ClaudeHas'
<1> USE DEF ClaudeHas
<1>1. /\ HookFiles'
      /\ captured \in Nat /\ captured' = captured + 1 /\ observing' = observing \cup {captured'}
      /\ UNCHANGED <<recorderVars, host, discarded, atRisk, state, buffer, summary, unconfirmed>>
      /\ UNCHANGED <<kept, flush>>
  BY ObserveKeeps DEF HookFiles, inProcessVars
<1>2. UNCHANGED <<onchain, run, faults>> /\ RunsOK' /\ BufferedCalls' = BufferedCalls
      /\ 1..captured \subseteq 1..captured' /\ captured' \notin 1..captured
      /\ (\A c : OnChain(c)' <=> OnChain(c)) /\ (\A p, c : Holds(p, c)' <=> Holds(p, c))
  BY <1>1 DEF recorderVars, RunsOK, BufferedCalls, OnChain, Holds
<1>3. ~OnChain(captured')
  BY <1>2 DEF ClaudeInv, ChainIsCaptured, OnChain, Holds, RunsOK
<1>4. ClaudeSummary'
  BY <1>1, <1>2 DEF ClaudeInv, ClaudeSummary
<1>5. Progress'
  BY <1>1, <1>2 DEF ClaudeInv, Progress, InHand, Written
<1>6. Fresh' /\ Once' /\ ChainIsCaptured'
  BY <1>1, <1>2, <1>3 DEF ClaudeInv, Fresh, Once, ChainIsCaptured
<1>7. ClaudeInv'
  BY <1>1, <1>2, <1>4, <1>5, <1>6 DEF ClaudeInv
<1>8. LossHasCause'
  <2>1. ASSUME NEW c \in 1..captured', c \notin 1..captured \/ WithHooks(c) PROVE Accounted(c)'
    BY <1>1, <1>2, <2>1 DEF WithHooks, Accounted, UnderWay
  <2>2. QED  BY <1>1, <1>2, <2>1, HooksAccount
<1>9. QED  BY <1>1, <1>2, <1>7, <1>8 DEF HookFiles, Claude

LEMMA ClaudeAppendStep ==
  ASSUME ClaudeHas, NEW c \in observing, NEW o \in Outcome, ObserveAppends(c, o),
         UNCHANGED inProcessVars
  PROVE  ClaudeHas'
<1> USE DEF ClaudeHas
<1>1. /\ HookFiles'
      /\ faults' \in 0..MaxFaults
      /\ observing' = observing \ {c}
      /\ BufferedCalls \subseteq BufferedCalls' /\ BufferedCalls' \subseteq BufferedCalls \cup {c}
      /\ atRisk \subseteq atRisk'
      /\ c \in BufferedCalls' \/ <<c, "torn">> \in atRisk'
      /\ UNCHANGED <<onchain, run, host, captured, discarded, state, summary, unconfirmed>>
      /\ UNCHANGED <<kept, flush>>
  BY AppendKeeps DEF HookFiles, inProcessVars, RunsOK
<1>2. RunsOK' /\ (\A d : OnChain(d)' <=> OnChain(d)) /\ (\A p, d : Holds(p, d)' <=> Holds(p, d))
  BY <1>1 DEF RunsOK, OnChain, Holds
<1>3. ClaudeSummary'
  BY <1>1, <1>2 DEF ClaudeInv, ClaudeSummary
<1>4. Progress'
  BY <1>1, <1>2 DEF ClaudeInv, Progress, InHand, Written
<1>5. Fresh' /\ Once' /\ ChainIsCaptured'
  BY <1>1, <1>2 DEF ClaudeInv, Fresh, Once, ChainIsCaptured
<1>6. ClaudeInv'
  BY <1>1, <1>2, <1>3, <1>4, <1>5 DEF ClaudeInv
<1>7. LossHasCause'
  <2>1. ASSUME NEW d \in 1..captured', WithHooks(d) PROVE Accounted(d)'
    <3>1. d = c => Accounted(d)'
      <4>1. "torn" \in MayBeLostTo'
        BY <1>1, Causes DEF MayBeLostTo, Claude, Codex, Sdk
      <4>2. QED  BY <1>1, <4>1 DEF Accounted, UnderWay
    <3>2. d # c => UnderWay(d)'
      BY <1>1, <2>1 DEF WithHooks, UnderWay
    <3>3. QED  BY <3>1, <3>2 DEF Accounted
  <2>2. captured \in Nat
    BY DEF FilesOK
  <2>3. QED  BY <1>1, <1>2, <2>1, <2>2, HooksAccount
<1>8. QED  BY <1>1, <1>2, <1>6, <1>7 DEF HookFiles, Claude

-----------------------------------------------------------------------------
(***************************************************************************)
(* The SessionEnd hook.                                                    *)
(***************************************************************************)
\* It writes calls it has in hand, into the session it names, and nothing else.
WritesItsCalls ==
  \A q, c : /\ Holds(q, c) => Holds(q, c)'
            /\ Holds(q, c)' => \/ Holds(q, c)
                               \/ InHand /\ q = summary.session /\ c \in Elements(summary.calls)

LEMMA ClaudeChain ==
  ASSUME ClaudeHas, WritesItsCalls, RunsOK', UNCHANGED <<captured, observing>>,
         BufferedCalls' \subseteq BufferedCalls
  PROVE  /\ Fresh' /\ Once' /\ ChainIsCaptured'
         /\ \A c : OnChain(c) => OnChain(c)'
         /\ InHand => \A c \in Elements(summary.calls), p \in Run :
                        Holds(p, c)' => p = summary.session
<1> USE DEF ClaudeHas, ClaudeInv, WritesItsCalls
<1>1. \A c : OnChain(c) => OnChain(c)'
  BY DEF OnChain, Holds
<1>2. InHand => summary.session \in DOMAIN onchain /\ summary.session \in Run
  BY DEF ClaudeSummary, InHand, NoSummary, RunsOK
<1>3. Fresh'
  <2>1. ASSUME NEW c \in BufferedCalls \cup observing, OnChain(c)' PROVE FALSE
    <3>1. PICK p : Holds(p, c)'
      BY <2>1 DEF OnChain
    <3>2. ~Holds(p, c)
      BY DEF Fresh, OnChain, Holds
    <3>3. QED  BY <3>1, <3>2 DEF Progress
  <2>2. QED  BY <2>1 DEF Fresh
<1>4. ChainIsCaptured'
  BY DEF ChainIsCaptured, Progress
<1>5. InHand => \A c \in Elements(summary.calls), p \in Run : Holds(p, c)' => p = summary.session
  BY DEF Progress
<1>6. Once'
  <2>1. ASSUME NEW p \in Run, NEW q \in Run, NEW c, Holds(p, c)', Holds(q, c)' PROVE p = q
    <3>1. CASE InHand /\ c \in Elements(summary.calls)
      BY <1>5, <2>1, <3>1
    <3>2. CASE ~(InHand /\ c \in Elements(summary.calls))
      BY <2>1, <3>2 DEF Once
    <3>3. QED  BY <3>1, <3>2
  <2>2. QED  BY <2>1 DEF Once
<1>7. QED  BY <1>1, <1>3, <1>4, <1>5, <1>6

\* What all its steps leave alone, and that no call is dropped silently.
SummaryFrame ==
  /\ ClaudeFrame
  /\ UNCHANGED <<captured, observing>>
  /\ state' \subseteq state
  /\ BufferedCalls' \subseteq BufferedCalls
  /\ DOMAIN onchain \subseteq DOMAIN onchain'
  /\ discarded \subseteq discarded'
  /\ atRisk \subseteq atRisk'

LEMMA ClaudeSummaryMoves ==
  ASSUME ClaudeHas, SummaryFrame, WritesItsCalls, RunsOK', FilesOK',
         ClaudeSummary', Progress', ReadCalls', \A c : WithHooks(c) => Accounted(c)'
  PROVE  ClaudeHas'
<1> USE DEF SummaryFrame, ClaudeFrame
<1>1. Fresh' /\ Once' /\ ChainIsCaptured' /\ \A c : OnChain(c) => OnChain(c)'
  BY ClaudeChain
<1>2. CallsExist' /\ Apart'
  BY DEF ClaudeHas, CallsExist, Sent, Apart, inProcessVars
<1>3. ClaudeInv'
  BY <1>1 DEF ClaudeHas, ClaudeInv
<1>4. LossHasCause'
  <2>1. captured \in Nat /\ UNCHANGED <<host, kept, flush>>
    BY DEF ClaudeHas, FilesOK, inProcessVars
  <2>2. QED  BY <1>1, <2>1, HooksAccount DEF ClaudeHas
<1>5. QED  BY <1>2, <1>3, <1>4 DEF ClaudeHas, Claude

LEMMA ClaudeSummaryEnds ==
  ASSUME ClaudeHas, SummaryFrame, WritesItsCalls, RunsOK', FilesOK', EndSummary,
         \A c : WithHooks(c) => Accounted(c)'
  PROVE  ClaudeHas'
<1>1. summary' = NoSummary /\ summary'.stage = "none"
  BY DEF EndSummary, NoSummary
<1>2. ClaudeSummary' /\ Progress' /\ ReadCalls'
  BY <1>1 DEF ClaudeSummary, Progress, InHand, ReadCalls
<1>3. QED  BY <1>2, ClaudeSummaryMoves

\* Steps that leave the sessions alone.
LEMMA ChainAlone ==
  ASSUME ClaudeHas, UNCHANGED <<onchain, run>>, faults' \in 0..MaxFaults
  PROVE  RunsOK' /\ WritesItsCalls /\ \A c : OnChain(c)' <=> OnChain(c)
BY DEF ClaudeHas, RunsOK, WritesItsCalls, Holds, OnChain

LEMMA Forgotten ==
  ASSUME ForgetSession
  PROVE  /\ buffer' \in [calls : Seq(Nat), bad : BOOLEAN, cut : BOOLEAN]
         /\ BufferedCalls' = {} /\ state' = {}
BY ElementsOfNone DEF ForgetSession, NoBuffer, BufferedCalls

LEMMA Drained ==
  ASSUME buffer' = NoBuffer
  PROVE  /\ buffer' \in [calls : Seq(Nat), bad : BOOLEAN, cut : BOOLEAN]
         /\ BufferedCalls' = {}
BY ElementsOfNone DEF NoBuffer, BufferedCalls

LEMMA ClaudeReadsStep ==
  ASSUME ClaudeHas, ClaudeSummaryReads, UNCHANGED inProcessVars
  PROVE  ClaudeHas'
<1> USE DEF ClaudeHas
<1>1. /\ UNCHANGED <<onchain, run, faults, host, captured, discarded, atRisk, state, buffer,
                     observing, inject, unconfirmed, inProcessVars, clientReady>>
      /\ summary.stage = "none"
  BY DEF ClaudeSummaryReads, recorderVars, captureVars, inProcessVars
<1>2. PICK p \in state :
        summary' = [stage |-> "controls", session |-> p, calls |-> buffer.calls, done |-> 0]
  BY DEF ClaudeSummaryReads, ClaudeReadable
<1>3. p \in DOMAIN onchain /\ p \in Run
  BY DEF ClaudeInv, RunsOK
<1>4. ClaudeSummary'
  BY <1>1, <1>2, <1>3 DEF ClaudeSummary, FilesOK
<1>5. summary'.stage = "controls" /\ summary'.calls = buffer.calls
  BY <1>2
<1>6. Progress' /\ ReadCalls'
  BY <1>1, <1>5 DEF Progress, InHand, ReadCalls, BufferedCalls
<1>7. FilesOK' /\ BufferedCalls' = BufferedCalls
  BY <1>1 DEF FilesOK, BufferedCalls
<1>8. RunsOK' /\ WritesItsCalls
  BY <1>1, ChainAlone DEF RunsOK
<1>9. \A c : WithHooks(c) => Accounted(c)'
  BY <1>1, <1>7 DEF WithHooks, Accounted, UnderWay
<1>10. SummaryFrame
  BY <1>1, <1>7 DEF SummaryFrame, ClaudeFrame
<1>11. QED  BY <1>4, <1>6, <1>7, <1>8, <1>9, <1>10, ClaudeSummaryMoves

LEMMA ClaudeDisabledStep ==
  ASSUME ClaudeHas, ClaudeSummaryDisabled, UNCHANGED inProcessVars
  PROVE  ClaudeHas'
<1> USE DEF ClaudeHas
<1>1. /\ UNCHANGED <<onchain, run, faults, host, captured, atRisk, observing, inject, unconfirmed,
                     inProcessVars, clientReady>>
      /\ summary.stage = "controls" /\ EndSummary /\ ForgetSession
      /\ discarded' = discarded \cup BufferedCalls
  BY DEF ClaudeSummaryDisabled, SummaryDisabled, recorderVars, inProcessVars
<1>2. /\ buffer' \in [calls : Seq(Nat), bad : BOOLEAN, cut : BOOLEAN]
      /\ BufferedCalls' = {} /\ state' = {}
  BY <1>1, Forgotten
<1>3. FilesOK'
  BY <1>1, <1>2 DEF FilesOK
<1>4. RunsOK' /\ WritesItsCalls
  BY <1>1, ChainAlone DEF RunsOK
<1>5. \A c : WithHooks(c) => Accounted(c)'
  BY <1>1 DEF WithHooks, Accounted, UnderWay
<1>6. SummaryFrame
  BY <1>1, <1>2 DEF SummaryFrame, ClaudeFrame
<1>7. QED  BY <1>1, <1>3, <1>4, <1>5, <1>6, ClaudeSummaryEnds

LEMMA ClaudeBeginsStep ==
  ASSUME ClaudeHas, ClaudeSummaryBegins, UNCHANGED inProcessVars
  PROVE  ClaudeHas'
<1> USE DEF ClaudeHas
<1>1. /\ UNCHANGED <<onchain, run, faults, host, captured, discarded, atRisk, state, buffer,
                     observing, inject, unconfirmed, inProcessVars, clientReady>>
      /\ summary.stage = "controls"
      /\ summary' = [summary EXCEPT !.stage = "client"]
  BY DEF ClaudeSummaryBegins, recorderVars, captureVars, inProcessVars
<1>2. /\ summary \in [stage : {"controls", "client", "append", "close", "end"}, session : Run,
                      calls : Seq(Nat), done : Nat]
      /\ summary.session \in DOMAIN onchain /\ summary.done = 0
  BY <1>1 DEF ClaudeInv, ClaudeSummary, NoSummary
<1>3. ClaudeSummary' /\ summary'.stage = "client" /\ summary'.calls = summary.calls
  BY <1>1, <1>2 DEF ClaudeSummary
<1>4. Progress' /\ ReadCalls'
  BY <1>1, <1>3 DEF Progress, InHand, ReadCalls, BufferedCalls, Codex
<1>5. FilesOK' /\ BufferedCalls' = BufferedCalls
  BY <1>1 DEF FilesOK, BufferedCalls
<1>6. RunsOK' /\ WritesItsCalls
  BY <1>1, ChainAlone DEF RunsOK
<1>7. \A c : WithHooks(c) => Accounted(c)'
  BY <1>1, <1>5 DEF WithHooks, Accounted, UnderWay
<1>8. SummaryFrame
  BY <1>1, <1>5 DEF SummaryFrame, ClaudeFrame
<1>9. QED  BY <1>3, <1>4, <1>5, <1>6, <1>7, <1>8, ClaudeSummaryMoves

LEMMA ClaudeDrainsStep ==
  ASSUME ClaudeHas, NEW o \in {"ok", "refused"}, ClaudeDrains(o), UNCHANGED inProcessVars
  PROVE  ClaudeHas'
<1> USE DEF ClaudeHas
<1>1. /\ UNCHANGED <<onchain, run, host, captured, discarded, atRisk, state, observing, inject,
                     unconfirmed, inProcessVars, clientReady>>
      /\ summary.stage = "client" /\ Charge(o)
      /\ \/ EndSummary /\ buffer' = buffer
         \/ /\ summary' = [summary EXCEPT !.stage = StageAfter(summary.calls, 0)]
            /\ buffer' = NoBuffer
  BY DEF ClaudeDrains, captureVars, inProcessVars
<1>2. /\ summary \in [stage : {"controls", "client", "append", "close", "end"}, session : Run,
                      calls : Seq(Nat), done : Nat]
      /\ summary.session \in DOMAIN onchain /\ summary.done = 0
  BY <1>1 DEF ClaudeInv, ClaudeSummary, NoSummary
<1>3. RunsOK' /\ WritesItsCalls /\ \A c : OnChain(c)' <=> OnChain(c)
  <2>1. faults' \in 0..MaxFaults
    BY <1>1, ChargeOK DEF RunsOK
  <2>2. QED  BY <1>1, <2>1, ChainAlone
<1>4. ReadCalls
  OBVIOUS
<1>5. CASE EndSummary /\ buffer' = buffer
  <2>1. FilesOK' /\ BufferedCalls' = BufferedCalls
    BY <1>1, <1>5 DEF FilesOK, BufferedCalls
  <2>2. \A c : WithHooks(c) => Accounted(c)'
    BY <1>1, <1>4, <2>1 DEF WithHooks, Accounted, UnderWay, ReadCalls
  <2>3. SummaryFrame
    BY <1>1, <2>1 DEF SummaryFrame, ClaudeFrame
  <2>4. QED  BY <1>3, <1>5, <2>1, <2>2, <2>3, ClaudeSummaryEnds
<1>6. CASE /\ summary' = [summary EXCEPT !.stage = StageAfter(summary.calls, 0)]
           /\ buffer' = NoBuffer
  <2>1. /\ buffer' \in [calls : Seq(Nat), bad : BOOLEAN, cut : BOOLEAN]
        /\ BufferedCalls' = {}
    BY <1>6, Drained
  <2>2. FilesOK'
    BY <1>1, <2>1 DEF FilesOK
  <2>3. /\ UNCHANGED <<summary.calls, summary.session, summary.done>>
        /\ summary'.stage = StageAfter(summary.calls, 0)
        /\ ClaudeSummary'
    BY <1>1, <1>2, <1>6 DEF ClaudeSummary, StageAfter
  <2>4. ReadCalls'
    BY <2>3 DEF ReadCalls, StageAfter
  <2>5. SummaryFrame
    BY <1>1, <2>1 DEF SummaryFrame, ClaudeFrame
  <2>6. /\ Elements(summary.calls) \subseteq BufferedCalls
        /\ \A c \in BufferedCalls : c \in Elements(summary.calls) \/ <<c, "overlap">> \in atRisk
    BY <1>1, Causes DEF ReadCalls
  <2>7. \/ summary'.stage = "append" /\ 0 < Len(summary.calls)
        \/ summary'.stage = "end" /\ DOMAIN summary.calls = {}
    BY <1>2, <2>3 DEF StageAfter
  <2>8. Progress'
    <3>1. Elements(summary.calls) \subseteq 1..captured
      BY <2>6 DEF FilesOK
    <3>2. \A i \in DOMAIN summary.calls : Written(i)' => OnChain(summary.calls[i])'
      BY <1>2, <2>3, <2>7 DEF Written
    <3>3. Elements(summary.calls) \cap observing = {}
      BY <2>6 DEF Apart
    <3>4. \A c \in Elements(summary.calls), p \in Run : ~Holds(p, c)'
      BY <1>3, <2>6 DEF ClaudeInv, Fresh, OnChain, Holds
    <3>5. QED  BY <1>1, <1>2, <2>1, <2>3, <2>7, <3>1, <3>2, <3>3, <3>4 DEF Progress
  <2>9. \A c : WithHooks(c) => Accounted(c)'
    <3>1. "overlap" \in MayBeLostTo'
      BY <1>1, Causes DEF MayBeLostTo, Claude, Codex, Sdk
    <3>2. ASSUME NEW c \in Elements(summary.calls) PROVE UnderWay(c)'
      <4>1. summary'.stage = "append"
        BY <2>7, <3>2 DEF Elements
      <4>2. QED  BY <2>3, <3>2, <4>1 DEF UnderWay
    <3>3. QED  BY <1>1, <2>6, <3>1, <3>2 DEF WithHooks, Accounted, UnderWay
  <2>10. QED  BY <1>3, <2>2, <2>3, <2>4, <2>5, <2>8, <2>9, ClaudeSummaryMoves
<1>7. QED  BY <1>1, <1>5, <1>6

\* The rest of its steps leave the files alone.
FilesAlone == UNCHANGED <<captured, discarded, state, buffer, observing, inject, clientReady>>

LEMMA ClaudeAdvances ==
  ASSUME ClaudeHas, InHand, ClaudeFrame, FilesAlone, atRisk' = atRisk, WritesItsCalls, RunsOK',
         DOMAIN onchain' = DOMAIN onchain, ClaudeSummary', InHand',
         summary'.session = summary.session, summary'.calls = summary.calls,
         summary'.stage # "end" => summary'.done < Len(summary.calls),
         \A i \in DOMAIN summary.calls : Written(i)' => OnChain(summary.calls[i])'
  PROVE  ClaudeHas'
<1> USE DEF ClaudeHas, FilesAlone
<1>1. BufferedCalls' = BufferedCalls /\ SummaryFrame
  BY DEF BufferedCalls, SummaryFrame, ClaudeFrame
<1>2. FilesOK'
  BY <1>1 DEF FilesOK, ClaudeFrame
<1>3. \A c \in Elements(summary.calls), p \in Run : Holds(p, c)' => p = summary.session
  BY <1>1, ClaudeChain
<1>4. Progress'
  BY <1>1, <1>3 DEF ClaudeInv, Progress
<1>5. ReadCalls'
  BY DEF ReadCalls, InHand
<1>6. \A c : WithHooks(c) => Accounted(c)'
  <2>1. ASSUME NEW c \in Elements(summary.calls) PROVE Accounted(c)'
    <3>1. CASE summary'.stage = "end"
      <4>1. PICK i \in DOMAIN summary.calls : c = summary.calls[i]
        BY DEF Elements
      <4>2. QED  BY <3>1, <4>1 DEF Written, Accounted
    <3>2. CASE summary'.stage # "end"
      BY <3>2 DEF InHand, Accounted, UnderWay
    <3>3. QED  BY <3>1, <3>2
  <2>2. QED  BY <1>1, <2>1 DEF WithHooks, Accounted, UnderWay
<1>7. QED  BY <1>1, <1>2, <1>4, <1>5, <1>6, ClaudeSummaryMoves

LEMMA ClaudeAbandons ==
  ASSUME ClaudeHas, InHand, ClaudeFrame, FilesAlone, Abandon, WritesItsCalls, RunsOK',
         DOMAIN onchain' = DOMAIN onchain
  PROVE  ClaudeHas'
<1> USE DEF ClaudeHas, FilesAlone
<1>1. atRisk' = atRisk \cup (Elements(summary.calls) \X {"abandoned"}) /\ EndSummary
  BY DEF Abandon, MayLose
<1>2. BufferedCalls' = BufferedCalls /\ SummaryFrame
  BY <1>1 DEF BufferedCalls, SummaryFrame, ClaudeFrame
<1>3. FilesOK'
  <2>1. atRisk' \subseteq (1..captured) \X Reason
    BY <1>1 DEF FilesOK, ClaudeInv, Progress, Reason
  <2>2. QED  BY <1>2, <2>1 DEF FilesOK, ClaudeFrame
<1>4. \A c : WithHooks(c) => Accounted(c)'
  <2>1. "abandoned" \in MayBeLostTo'
    BY Causes DEF ClaudeFrame, MayBeLostTo, Claude, Codex, Sdk
  <2>2. \A c \in Elements(summary.calls) : <<c, "abandoned">> \in atRisk'
    BY <1>1
  <2>3. QED  BY <1>2, <2>1, <2>2 DEF WithHooks, Accounted, UnderWay
<1>5. QED  BY <1>1, <1>2, <1>3, <1>4, ClaudeSummaryEnds

\* A transaction on the session of the summary: none of its calls goes, one may come.
LEMMA SettleOK ==
  ASSUME RunsOK, NEW o, Settles(o)
  PROVE  faults' \in 0..MaxFaults
<1>1. Charge(o) \/ faults' = faults
  BY DEF Settles
<1>2. QED  BY <1>1, ChargeOK DEF RunsOK

LEMMA SameCallsWrites ==
  ASSUME NEW p, \A q, c : q # p => (Holds(q, c)' <=> Holds(q, c)), \A c : Holds(p, c)' <=> Holds(p, c)
  PROVE  WritesItsCalls
BY DEF WritesItsCalls

LEMMA InHandRecord ==
  ASSUME ClaudeHas, InHand
  PROVE  /\ summary \in [stage : {"controls", "client", "append", "close", "end"}, session : Run,
                         calls : Seq(Nat), done : Nat]
         /\ summary.session \in DOMAIN onchain
         /\ onchain[summary.session] \in SessionState
BY DEF ClaudeHas, ClaudeInv, ClaudeSummary, InHand, NoSummary, RunsOK

LEMMA ClaudeAppendsStep ==
  ASSUME ClaudeHas, NEW o \in Outcome, ClaudeAppends(o), UNCHANGED inProcessVars
  PROVE  ClaudeHas'
<1> USE DEF ClaudeHas
<1> PICK p : p = summary.session
  OBVIOUS
<1> PICK x : x = summary.calls[summary.done + 1]
  OBVIOUS
<1> DEFINE S == onchain[p]
<1>1. /\ summary.stage = "append" /\ InHand /\ Settles(o) /\ ClaudeFrame /\ FilesAlone
      /\ IF Throws(o) THEN Abandon
         ELSE summary' = [summary EXCEPT !.stage = "close"] /\ UNCHANGED atRisk
      /\ onchain' = IF Executed(o) THEN [onchain EXCEPT ![p].calls = Append(@, x)] ELSE onchain
  BY DEF ClaudeAppends, InHand, ClaudeFrame, FilesAlone, inProcessVars
<1>2. /\ summary \in [stage : {"controls", "client", "append", "close", "end"}, session : Run,
                      calls : Seq(Nat), done : Nat]
      /\ p \in DOMAIN onchain /\ S \in SessionState
  BY <1>1, InHandRecord
<1>3. faults' \in 0..MaxFaults /\ run' = run
  BY <1>1, SettleOK DEF ClaudeFrame
<1>4. Progress
  BY DEF ClaudeInv
<1>5. summary.done + 1 \in DOMAIN summary.calls /\ x \in Nat /\ x \in Elements(summary.calls)
  <2>1. summary.done + 1 \in 1..Len(summary.calls)
    BY <1>1, <1>2, <1>4 DEF Progress
  <2>2. QED  BY <1>2, <2>1 DEF Elements
<1>6. /\ RunsOK' /\ DOMAIN onchain' = DOMAIN onchain /\ WritesItsCalls
      /\ Executed(o) => OnChain(x)'
  <2>1. CASE Executed(o)
    <3> DEFINE T == [S EXCEPT !.calls = Append(S.calls, x)]
    <3>1. /\ Append(S.calls, x) \in Seq(Nat)
          /\ Elements(Append(S.calls, x)) = Elements(S.calls) \cup {x}
      BY <1>2, <1>5, ElementsOfAppend DEF SessionState
    <3>2. T \in SessionState /\ T.calls = Append(S.calls, x)
      BY <1>2, <3>1 DEF SessionState
    <3>3. onchain' = [onchain EXCEPT ![p] = T]
      BY <1>1, <1>2, <2>1
    <3> HIDE DEF T
    <3>4. /\ RunsOK' /\ DOMAIN onchain' = DOMAIN onchain
          /\ \A q, c : q # p => (Holds(q, c)' <=> Holds(q, c))
          /\ \A c : Holds(p, c)' <=> c \in Elements(T.calls)
      BY <1>2, <1>3, <3>2, <3>3, SessionChanges
    <3>5. \A c : Holds(p, c)' <=> Holds(p, c) \/ c = x
      BY <1>2, <3>1, <3>2, <3>4 DEF Holds
    <3>6. WritesItsCalls
      BY <1>1, <1>5, <3>4, <3>5 DEF WritesItsCalls
    <3>7. OnChain(x)'
      BY <3>5 DEF OnChain, Holds
    <3>8. QED  BY <3>4, <3>6, <3>7
  <2>2. CASE ~Executed(o)
    BY <1>1, <1>3, <2>2, ChainAlone
  <2>3. QED  BY <2>1, <2>2
<1>7. CASE Throws(o)
  BY <1>1, <1>6, <1>7, ClaudeAbandons
<1>8. CASE ~Throws(o)
  <2>1. Executed(o) /\ atRisk' = atRisk /\ summary' = [summary EXCEPT !.stage = "close"]
    BY <1>1, <1>8 DEF Executed, Throws, Outcome
  <2>2. /\ ClaudeSummary' /\ summary'.stage = "close" /\ summary'.done = summary.done
        /\ summary'.session = p /\ summary'.calls = summary.calls
    BY <1>2, <1>6, <2>1 DEF ClaudeSummary
  <2>3. \A c : OnChain(c) => OnChain(c)'
    BY <1>6 DEF WritesItsCalls, OnChain, Holds
  <2>4. ASSUME NEW i \in DOMAIN summary.calls, Written(i)' PROVE OnChain(summary.calls[i])'
    <3>1. i <= summary.done \/ i = summary.done + 1
      BY <1>2, <2>2, <2>4 DEF Written
    <3>2. CASE i <= summary.done
      BY <1>1, <1>4, <2>2, <2>3, <3>2 DEF Progress, Written
    <3>3. CASE i = summary.done + 1
      BY <1>6, <2>1, <2>2, <3>3
    <3>4. QED  BY <3>1, <3>2, <3>3
  <2>5. summary.done < Len(summary.calls)
    BY <1>1, <1>4 DEF Progress
  <2>6. QED
    BY <1>1, <1>6, <2>1, <2>2, <2>4, <2>5, ClaudeAdvances DEF InHand
<1>9. QED  BY <1>7, <1>8

\* Closing a call or the session leaves the calls of the session as they are.
LEMMA SameSessionCalls ==
  ASSUME ClaudeHas, InHand, run' = run, faults' \in 0..MaxFaults,
         NEW p, p = summary.session,
         NEW T \in SessionState, T.calls = onchain[p].calls,
         onchain' = onchain \/ onchain' = [onchain EXCEPT ![p] = T]
  PROVE  RunsOK' /\ DOMAIN onchain' = DOMAIN onchain /\ WritesItsCalls
<1> USE DEF ClaudeHas
<1>1. CASE onchain' = onchain
  BY <1>1, ChainAlone
<1>2. CASE onchain' = [onchain EXCEPT ![p] = T]
  <2>1. p \in DOMAIN onchain
    BY InHandRecord
  <2>2. /\ RunsOK' /\ DOMAIN onchain' = DOMAIN onchain
        /\ \A q, c : q # p => (Holds(q, c)' <=> Holds(q, c))
        /\ \A c : Holds(p, c)' <=> c \in Elements(T.calls)
    BY <1>2, <2>1, SessionChanges
  <2>3. \A c : Holds(p, c)' <=> Holds(p, c)
    BY <2>1, <2>2 DEF Holds
  <2>4. QED  BY <2>2, <2>3, SameCallsWrites
<1>3. QED  BY <1>1, <1>2

LEMMA ClaudeClosesStep ==
  ASSUME ClaudeHas, NEW o \in SilentOutcome, ClaudeCloses(o), UNCHANGED inProcessVars
  PROVE  ClaudeHas'
<1> USE DEF ClaudeHas
<1> PICK p : p = summary.session
  OBVIOUS
<1> PICK i : i = summary.done + 1
  OBVIOUS
<1> PICK S : S = onchain[p]
  OBVIOUS
<1> DEFINE T == [S EXCEPT !.closed = S.closed \cup {Len(S.calls)}]
<1>1. /\ summary.stage = "close" /\ InHand /\ Charge(o) /\ ClaudeFrame /\ FilesAlone
      /\ IF Throws(o) THEN Abandon
         ELSE /\ summary' = [summary EXCEPT !.stage = StageAfter(summary.calls, i), !.done = i]
              /\ UNCHANGED atRisk
      /\ onchain' = IF Executed(o) THEN [onchain EXCEPT ![p].closed = @ \cup {Len(S.calls)}]
                    ELSE onchain
  BY DEF ClaudeCloses, InHand, ClaudeFrame, FilesAlone, inProcessVars
<1>2. /\ summary \in [stage : {"controls", "client", "append", "close", "end"}, session : Run,
                      calls : Seq(Nat), done : Nat]
      /\ p \in DOMAIN onchain /\ S \in SessionState
  BY <1>1, InHandRecord
<1>3. faults' \in 0..MaxFaults /\ run' = run
  <2>1. faults \in 0..MaxFaults
    BY DEF RunsOK
  <2>2. QED  BY <1>1, <2>1, ChargeOK DEF ClaudeFrame
<1>4. Progress /\ i <= Len(summary.calls) /\ Written(i)
  BY <1>1, <1>2 DEF ClaudeInv, Progress, Written
<1>5. Len(S.calls) \in Nat \ {0}
  <2>1. PICK q \in DOMAIN onchain : Holds(q, summary.calls[i])
    <3>1. i \in DOMAIN summary.calls
      BY <1>2, <1>4
    <3>2. OnChain(summary.calls[i])
      BY <1>1, <1>4, <3>1 DEF Progress
    <3>3. QED  BY <3>2 DEF OnChain
  <2>2. summary.calls[i] \in Elements(summary.calls) /\ q \in Run
    BY <1>2, <1>4 DEF Elements, RunsOK
  <2>3. Holds(p, summary.calls[i])
    BY <1>1, <1>4, <2>1, <2>2 DEF Progress
  <2>4. DOMAIN S.calls # {}
    BY <2>3 DEF Holds, Elements
  <2>5. QED  BY <1>2, <2>4 DEF SessionState
<1>6. T \in SessionState /\ T.calls = S.calls
  BY <1>2, <1>5 DEF SessionState
<1>7. onchain' = onchain \/ onchain' = [onchain EXCEPT ![p] = T]
  BY <1>1, <1>2
<1> HIDE DEF T
<1>8. RunsOK' /\ DOMAIN onchain' = DOMAIN onchain /\ WritesItsCalls
  BY <1>1, <1>3, <1>6, <1>7, SameSessionCalls
<1>9. CASE Throws(o)
  BY <1>1, <1>8, <1>9, ClaudeAbandons
<1>10. CASE ~Throws(o)
  <2>1. /\ atRisk' = atRisk
        /\ summary' = [summary EXCEPT !.stage = StageAfter(summary.calls, i), !.done = i]
    BY <1>1, <1>10
  <2>2. StageAfter(summary.calls, i) \in {"append", "end"} /\ i \in Nat
    BY <1>2 DEF StageAfter
  <2>3. /\ ClaudeSummary' /\ summary'.stage = StageAfter(summary.calls, i) /\ summary'.done = i
        /\ summary'.session = p /\ summary'.calls = summary.calls
    BY <1>2, <1>8, <2>1, <2>2 DEF ClaudeSummary
  <2>4. \A c : OnChain(c) => OnChain(c)'
    BY <1>8 DEF WritesItsCalls, OnChain, Holds
  <2>5. ASSUME NEW j \in DOMAIN summary.calls, Written(j)' PROVE OnChain(summary.calls[j])'
    <3>1. j <= i
      BY <1>2, <1>4, <2>3, <2>5 DEF Written, StageAfter
    <3>2. Written(j)
      BY <1>1, <3>1 DEF Written
    <3>3. QED  BY <1>1, <1>4, <2>3, <2>4, <3>2 DEF Progress
  <2>6. summary'.stage # "end" => i < Len(summary.calls)
    BY <2>3 DEF StageAfter
  <2>7. QED
    BY <1>1, <1>8, <2>1, <2>2, <2>3, <2>5, <2>6, ClaudeAdvances DEF InHand
<1>11. QED  BY <1>9, <1>10

LEMMA ClaudeEndsStep ==
  ASSUME ClaudeHas, NEW o \in SilentOutcome, ClaudeEnds(o), UNCHANGED inProcessVars
  PROVE  ClaudeHas'
<1> USE DEF ClaudeHas
<1> PICK p : p = summary.session
  OBVIOUS
<1> PICK S : S = onchain[p]
  OBVIOUS
<1> DEFINE T == [S EXCEPT !.status = "Completed"]
<1>1. /\ summary.stage = "end" /\ InHand /\ Settles(o) /\ ClaudeFrame /\ FilesAlone
      /\ EndSummary /\ atRisk' = atRisk
      /\ onchain' = IF Executed(o) THEN [onchain EXCEPT ![p].status = "Completed"] ELSE onchain
  BY DEF ClaudeEnds, InHand, ClaudeFrame, FilesAlone, inProcessVars, captureVars
<1>2. p \in DOMAIN onchain /\ S \in SessionState
  BY <1>1, InHandRecord
<1>3. faults' \in 0..MaxFaults /\ run' = run
  BY <1>1, SettleOK DEF ClaudeFrame
<1>4. T \in SessionState /\ T.calls = S.calls
  BY <1>2 DEF SessionState
<1>5. onchain' = onchain \/ onchain' = [onchain EXCEPT ![p] = T]
  BY <1>1, <1>2
<1> HIDE DEF T
<1>6. RunsOK' /\ DOMAIN onchain' = DOMAIN onchain /\ WritesItsCalls
  BY <1>1, <1>3, <1>4, <1>5, SameSessionCalls
<1>7. FilesOK' /\ BufferedCalls' = BufferedCalls
  BY <1>1 DEF FilesOK, BufferedCalls, FilesAlone, ClaudeFrame
<1>8. \A c : WithHooks(c) => Accounted(c)'
  BY <1>1, <1>7 DEF WithHooks, Accounted, UnderWay, FilesAlone
<1>9. SummaryFrame
  BY <1>1, <1>6, <1>7 DEF SummaryFrame, FilesAlone
<1>10. QED  BY <1>1, <1>6, <1>7, <1>8, <1>9, ClaudeSummaryEnds

LEMMA ClaudeKilledStep ==
  ASSUME ClaudeHas, SummaryKilled, UNCHANGED inProcessVars
  PROVE  ClaudeHas'
<1> USE DEF ClaudeHas
<1>1. /\ summary.stage # "none" /\ summary.stage # "cli"
  BY DEF SummaryKilled, ClaudeInv, ClaudeSummary, NoSummary
<1>2. /\ UNCHANGED <<onchain, run>> /\ ClaudeFrame /\ FilesAlone /\ EndSummary /\ Charge("lost")
      /\ IF InHand THEN Abandon ELSE atRisk' = atRisk
  BY <1>1 DEF SummaryKilled, ClaudeFrame, FilesAlone, inProcessVars, InHand, Abandon
<1>3. RunsOK' /\ WritesItsCalls
  <2>1. faults' \in 0..MaxFaults
    BY <1>2, ChargeOK DEF RunsOK
  <2>2. QED  BY <1>2, <2>1, ChainAlone
<1>4. CASE InHand
  BY <1>2, <1>3, <1>4, ClaudeAbandons
<1>5. CASE ~InHand
  <2>1. FilesOK' /\ BufferedCalls' = BufferedCalls
    BY <1>2, <1>5 DEF FilesOK, BufferedCalls, FilesAlone, ClaudeFrame
  <2>2. summary.stage \in {"controls", "client"}
    BY <1>1, <1>5 DEF ClaudeInv, ClaudeSummary, InHand, NoSummary
  <2>3. \A c : WithHooks(c) => Accounted(c)'
    BY <1>2, <2>1, <2>2 DEF WithHooks, Accounted, UnderWay, FilesAlone, ReadCalls
  <2>4. SummaryFrame
    BY <1>2, <1>5, <2>1 DEF SummaryFrame, FilesAlone
  <2>5. QED  BY <1>2, <1>3, <2>1, <2>3, <2>4, ClaudeSummaryEnds
<1>6. QED  BY <1>4, <1>5

\* SessionStart, and a hook that is killed there.
LEMMA ClaudeInjectStep ==
  ASSUME ClaudeHas, UNCHANGED inProcessVars,
         \/ \E p \in Run : InjectBegins(p) \/ InjectSaves(p)
         \/ \E p \in Run, o \in Outcome : InjectOpens(p, o)
         \/ InjectKilled
  PROVE  ClaudeHas'
<1> USE DEF ClaudeHas
<1>1. /\ ClaudeFrame /\ UNCHANGED <<captureVars, buffer, observing, summary>>
  BY DEF InjectBegins, InjectSaves, InjectOpens, InjectKilled, ClaudeFrame, captureVars, recorderVars
<1>2. /\ RunsOK' /\ SameCalls /\ DOMAIN onchain \subseteq DOMAIN onchain'
      /\ inject' \subseteq Run
      /\ state' = state \/ state' \subseteq DOMAIN onchain
  <2>1. CASE \E p \in Run : InjectBegins(p) \/ InjectSaves(p)
    BY <2>1 DEF InjectBegins, InjectSaves, recorderVars, RunsOK, SameCalls, Holds, FilesOK
  <2>2. ASSUME NEW p \in Run, NEW o \in Outcome, InjectOpens(p, o)
        PROVE  /\ RunsOK' /\ SameCalls /\ DOMAIN onchain \subseteq DOMAIN onchain'
               /\ inject' \subseteq Run /\ state' = state
    <3>1. p \notin DOMAIN onchain /\ run' = run /\ state' = state /\ inject' \subseteq inject
      BY <2>2 DEF InjectOpens
    <3>2. faults' \in 0..MaxFaults
      BY <2>2, ChargeOK DEF InjectOpens, RunsOK
    <3>3. CASE Executed(o)
      <4>1. onchain' = Put(onchain, p, [calls |-> <<>>, closed |-> {}, status |-> "Active"])
        BY <2>2, <3>3 DEF InjectOpens
      <4>2. QED  BY <3>1, <3>2, <4>1, SessionOpens DEF SameCalls, FilesOK
    <3>4. CASE ~Executed(o)
      BY <2>2, <3>1, <3>2, <3>4 DEF InjectOpens, RunsOK, SameCalls, Holds, FilesOK
    <3>5. QED  BY <3>3, <3>4
  <2>3. CASE InjectKilled
    <3>1. faults' \in 0..MaxFaults
      BY <2>3, ChargeOK DEF InjectKilled, RunsOK
    <3>2. QED  BY <2>3, <3>1 DEF InjectKilled, RunsOK, SameCalls, Holds
  <2>4. QED  BY <2>1, <2>2, <2>3
<1>3. state' \subseteq DOMAIN onchain'
  BY <1>2 DEF ClaudeInv
<1>4. QED  BY <1>1, <1>2, <1>3, ClaudeQuiet

LEMMA ClaudeStep ==
  ASSUME ClaudeHas, HookStep, UNCHANGED inProcessVars
  PROVE  ClaudeHas'
<1>1. ~Codex
  BY DEF ClaudeHas, Claude, Codex
<1>2. \/ \E p \in Run : InjectBegins(p) \/ InjectSaves(p)
      \/ \E p \in Run, o \in Outcome : InjectOpens(p, o)
      \/ InjectKilled
      \/ Observe
      \/ \E c \in observing, o \in Outcome : ObserveAppends(c, o)
      \/ ClaudeSummaryReads \/ ClaudeSummaryDisabled \/ ClaudeSummaryBegins
      \/ \E o \in {"ok", "refused"} : ClaudeDrains(o)
      \/ \E o \in Outcome : ClaudeAppends(o)
      \/ \E o \in SilentOutcome : ClaudeCloses(o) \/ ClaudeEnds(o)
      \/ SummaryKilled
  BY <1>1 DEF HookStep, Arm, ClaudeObserves, CodexObserves, StopBegins, StopReads, StopDisabled,
              StopEmpty, CliStep, StopReturns
<1>3. QED
  BY <1>2, ClaudeInjectStep, ClaudeObserveStep, ClaudeAppendStep, ClaudeReadsStep,
     ClaudeDisabledStep, ClaudeBeginsStep, ClaudeDrainsStep, ClaudeAppendsStep, ClaudeClosesStep,
     ClaudeEndsStep, ClaudeKilledStep

-----------------------------------------------------------------------------
(***************************************************************************)
(* Runs that begin, and runs that are killed.                              *)
(***************************************************************************)
LEMMA RunBegins ==
  ASSUME RecorderInv, NEW p \in Run, run[p].stage = "new", NEW calls \in Seq(Nat),
         NEW stage \in {"controls", "start"}, UNCHANGED onchain, faults' \in 0..MaxFaults,
         run' = [run EXCEPT ![p] = [stage |-> stage, calls |-> calls, done |-> 0, result |-> "none"]]
  PROVE  /\ RecorderInv'
         /\ run'[p].calls = calls /\ run'[p].stage # "new"
         /\ \A q \in Run \ {p} : run'[q] = run[q]
<1> DEFINE next == [stage |-> stage, calls |-> calls, done |-> 0, result |-> "none"]
<1>1. RunsOK /\ WhereItSays(p) /\ SessionsTellTheTruth
  BY DEF RecorderInv, RunIsWhereItSays
<1>2. next \in RunState /\ p \notin DOMAIN onchain
  BY <1>1 DEF RunState, WhereItSays
<1>3. run' \in [Run -> RunState] /\ run'[p] = next /\ \A q \in Run \ {p} : run'[q] = run[q]
  BY <1>1, <1>2 DEF RunsOK
<1>4. RunsOK'
  BY <1>1, <1>3 DEF RunsOK
<1>5. Others(p)
  BY <1>3 DEF Others
<1>6. WhereItSays(p)' /\ Truth(p)'
  BY <1>2, <1>3 DEF WhereItSays, Truth
<1>7. RecorderInv'
  BY <1>4, <1>5, <1>6, OneRun
<1>8. QED  BY <1>3, <1>7

LEMMA RunsKilled ==
  ASSUME RecorderInv, NEW K, UNCHANGED onchain, faults' \in 0..MaxFaults,
         run' = [q \in Run |-> IF q \in K /\ run[q].stage \notin {"new", "exit"}
                               THEN [run[q] EXCEPT !.stage = "exit", !.result = "killed"] ELSE run[q]]
  PROVE  /\ RecorderInv'
         /\ \A q \in Run : run'[q].calls = run[q].calls /\ (run'[q].stage = "new" <=> run[q].stage = "new")
         /\ \A q \in Run : run[q].stage \in {"new", "exit"} \/ q \notin K => run'[q] = run[q]
<1> USE DEF RecorderInv
<1>1. ASSUME NEW q \in Run
      PROVE  /\ run'[q] \in RunState /\ run'[q].calls = run[q].calls
             /\ \/ run'[q] = run[q]
                \/ /\ run[q].stage \notin {"new", "exit"} /\ q \in K
                   /\ run'[q].stage = "exit" /\ run'[q].result = "killed"
  <2>1. run[q] \in RunState
    BY DEF RunsOK
  <2>2. CASE q \in K /\ run[q].stage \notin {"new", "exit"}
    <3>1. run'[q] = [run[q] EXCEPT !.stage = "exit", !.result = "killed"]
      BY <2>2
    <3>2. QED  BY <2>1, <2>2, <3>1 DEF RunState
  <2>3. CASE ~(q \in K /\ run[q].stage \notin {"new", "exit"})
    BY <2>1, <2>3
  <2>4. QED  BY <2>2, <2>3
<1>2. RunsOK'
  BY <1>1 DEF RunsOK
<1>3. RunIsWhereItSays'
  <2>1. ASSUME NEW q \in Run PROVE WhereItSays(q)'
    <3>1. WhereItSays(q)
      BY DEF RunIsWhereItSays
    <3>2. QED  BY <1>1, <3>1 DEF WhereItSays
  <2>2. QED  BY <2>1 DEF RunIsWhereItSays
<1>4. SessionsTellTheTruth'
  <2>1. ASSUME NEW q \in DOMAIN onchain PROVE Truth(q)'
    <3>1. q \in Run /\ WhereItSays(q) /\ Truth(q)
      BY DEF RunsOK, RunIsWhereItSays, SessionsTellTheTruth, Truth
    <3>2. run[q].stage \in {"new", "controls", "start", "append", "close", "catch", "end", "exit"}
      BY <3>1 DEF RunsOK, RunState
    <3>3. CASE run'[q] = run[q]
      BY <3>1, <3>3 DEF Truth
    <3>4. CASE run[q].stage # "exit" /\ run'[q].result = "killed"
      BY <1>1, <3>1, <3>2, <3>4 DEF Truth, WhereItSays
    <3>5. QED  BY <1>1, <3>1, <3>3, <3>4
  <2>2. QED  BY <2>1 DEF SessionsTellTheTruth, Truth
<1>5. QED  BY <1>1, <1>2, <1>3, <1>4

LEMMA RunsAlone ==
  ASSUME RecorderInv, UNCHANGED <<onchain, run>>, faults' \in 0..MaxFaults
  PROVE  RecorderInv'
BY DEF RecorderInv, RunsOK, RunIsWhereItSays, WhereItSays, SessionsTellTheTruth

LEMMA RunsSendOn ==
  ASSUME RecorderInv, NEW p \in Run, RunStep(p)
  PROVE  /\ RecorderInv'
         /\ \A q \in Run : /\ run'[q].calls = run[q].calls
                           /\ run'[q].stage = "new" <=> run[q].stage = "new"
         /\ \A c : OnChain(c) => OnChain(c)'
<1>1. RecorderInv' /\ Others(p) /\ GoesOn(p)
  BY RunStepKeeps
<1>2. \A q \in Run : run'[q].calls = run[q].calls /\ (run'[q].stage = "new" <=> run[q].stage = "new")
  BY <1>1 DEF Others, GoesOn
<1>3. ASSUME NEW c, OnChain(c) PROVE OnChain(c)'
  <2>1. PICK q \in DOMAIN onchain : \E i \in DOMAIN onchain[q].calls : onchain[q].calls[i] = c
    BY <1>3 DEF OnChain, Holds, Elements
  <2>2. q \in DOMAIN onchain'
    BY <1>1 DEF Others
  <2>3. onchain'[q] = onchain[q] \/ q = p
    BY <1>1 DEF Others
  <2>4. \E i \in DOMAIN onchain'[q].calls : onchain'[q].calls[i] = c
    BY <1>1, <2>1, <2>2, <2>3 DEF GoesOn, IsBeginning
  <2>5. QED  BY <2>2, <2>4 DEF OnChain, Holds, Elements
<1>4. QED  BY <1>1, <1>2, <1>3

\* A call in a session is a call its run was given; the calls of a run that reports
\* success are all there.
LEMMA HeldIsSent ==
  ASSUME RecorderInv, NEW p, NEW c, Holds(p, c)
  PROVE  p \in Run /\ c \in Sent(p)
<1>1. p \in DOMAIN onchain /\ p \in Run /\ onchain[p] \in SessionState /\ run[p] \in RunState
  BY DEF Holds, RecorderInv, RunsOK
<1>2. IsBeginning(onchain[p].calls, run[p].calls)
  BY <1>1 DEF RecorderInv, SessionsTellTheTruth
<1>3. PICK i \in DOMAIN onchain[p].calls : onchain[p].calls[i] = c
  BY DEF Holds, Elements
<1>4. onchain[p].calls \in Seq(Nat) /\ run[p].calls \in Seq(Nat)
  BY <1>1 DEF SessionState, RunState
<1>5. i \in DOMAIN run[p].calls /\ run[p].calls[i] = c
  BY <1>2, <1>3, <1>4, BeginningIsShared
<1>6. QED  BY <1>1, <1>5 DEF Sent, Elements

LEMMA SuccessIsRecorded ==
  ASSUME RecorderInv, NEW p \in Run, run[p].result = "ok", NEW c \in Sent(p)
  PROVE  OnChain(c)
<1>1. p \in DOMAIN onchain
  BY DEF RecorderInv, RunIsWhereItSays, WhereItSays
<1>2. onchain[p].calls = run[p].calls
  BY <1>1 DEF RecorderInv, SessionsTellTheTruth
<1>3. QED  BY <1>1, <1>2 DEF OnChain, Holds, Sent

-----------------------------------------------------------------------------
(***************************************************************************)
(* Steps of Codex.                                                         *)
(***************************************************************************)
CodexFrame == UNCHANGED <<host, captured, observing, inject, inProcessVars>>

LEMMA CodexMoves ==
  ASSUME CodexHas, CodexFrame, FilesOK', RecorderInv', \A p \in Run : Sent(p)' \subseteq 1..captured,
         BufferedCalls' \subseteq BufferedCalls, ReadCalls', CodexSummary', Flushing', SentOnce',
         \A c : OnChain(c) => OnChain(c)', discarded \subseteq discarded', atRisk \subseteq atRisk',
         \A c \in BufferedCalls : Accounted(c)'
  PROVE  CodexHas'
<1> USE DEF CodexHas, CodexFrame
<1>1. UNCHANGED <<kept, flush, clientReady>>
  BY DEF inProcessVars
<1>2. CallsExist' /\ Apart'
  BY <1>1 DEF CallsExist, Apart
<1>3. LossHasCause'
  <2>1. ASSUME NEW c, WithHooks(c) PROVE c \in observing \/ c \in BufferedCalls
    BY <2>1 DEF WithHooks, CodexInv, CodexSummary, NoSummary
  <2>2. \A c : WithHooks(c) => Accounted(c)'
    BY <2>1 DEF Accounted, UnderWay
  <2>3. captured \in Nat
    BY DEF FilesOK
  <2>4. QED  BY <1>1, <2>2, <2>3, HooksAccount
<1>4. CodexInv'
  BY DEF CodexInv
<1>5. QED  BY <1>2, <1>3, <1>4 DEF Codex

\* A step that leaves the files alone.
LEMMA CodexFilesAlone ==
  ASSUME CodexHas, UNCHANGED <<captureVars, buffer, observing, inject, inProcessVars>>,
         state' \subseteq Run \cup {"armed"}, unconfirmed' \subseteq Run
  PROVE  /\ CodexFrame /\ FilesOK' /\ BufferedCalls' = BufferedCalls
         /\ discarded' = discarded /\ atRisk' = atRisk
         /\ \A c \in BufferedCalls : Accounted(c)'
<1>1. BufferedCalls' = BufferedCalls
  BY DEF BufferedCalls
<1>2. QED
  BY <1>1 DEF CodexHas, CodexFrame, FilesOK, captureVars, inProcessVars, Accounted, UnderWay

\* Runs as they are.
SameRuns == UNCHANGED <<onchain, run>>

LEMMA CodexRunsAlone ==
  ASSUME CodexHas, SameRuns, faults' \in 0..MaxFaults
  PROVE  /\ RecorderInv'
         /\ \A p \in Run : Sent(p)' = Sent(p) /\ Sent(p) \subseteq 1..captured
         /\ \A c : OnChain(c)' <=> OnChain(c)
BY RunsAlone DEF CodexHas, CodexInv, SameRuns, Sent, CallsExist, OnChain, Holds

LEMMA CodexArmStep ==
  ASSUME CodexHas, Arm, UNCHANGED inProcessVars
  PROVE  CodexHas'
<1> USE DEF CodexHas
<1>1. /\ UNCHANGED <<onchain, run, faults, captureVars, buffer, observing, inject, summary,
                     unconfirmed, inProcessVars>>
      /\ state' = {"armed"}
  BY DEF Arm, recorderVars
<1>2. /\ CodexFrame /\ FilesOK' /\ BufferedCalls' = BufferedCalls
      /\ discarded' = discarded /\ atRisk' = atRisk
      /\ \A c \in BufferedCalls : Accounted(c)'
  BY <1>1, CodexFilesAlone DEF FilesOK
<1>3. /\ RecorderInv'
      /\ \A p \in Run : Sent(p)' = Sent(p) /\ Sent(p) \subseteq 1..captured
      /\ \A c : OnChain(c)' <=> OnChain(c)
  BY <1>1, CodexRunsAlone DEF SameRuns, CodexInv, RecorderInv, RunsOK
<1>4. ReadCalls' /\ CodexSummary' /\ Flushing' /\ SentOnce'
  <2>1. ReadCalls' /\ CodexSummary'
    BY <1>1, <1>2 DEF CodexFrame, ReadCalls, CodexInv, CodexSummary, Codex
  <2>2. Flushing'
    BY <1>1, <1>2 DEF CodexInv, Flushing, Sent
  <2>3. SentOnce'
    BY <1>1, <1>2, <1>3 DEF CodexInv, SentOnce, Current
  <2>4. QED  BY <2>1, <2>2, <2>3
<1>5. QED  BY <1>1, <1>2, <1>3, <1>4, CodexMoves

LEMMA CodexObserveStep ==
  ASSUME CodexHas, Observe, UNCHANGED inProcessVars
  PROVE  CodexHas'
<1> USE DEF CodexHas
<1>1. /\ HookFiles'
      /\ captured \in Nat /\ captured' = captured + 1 /\ observing' = observing \cup {captured'}
      /\ UNCHANGED <<recorderVars, host, discarded, atRisk, state, buffer, summary, unconfirmed>>
      /\ UNCHANGED <<kept, flush>>
  BY ObserveKeeps DEF HookFiles, inProcessVars
<1>2. UNCHANGED <<onchain, run, faults>> /\ BufferedCalls' = BufferedCalls /\ inject' = inject
      /\ 1..captured \subseteq 1..captured' /\ captured' \notin 1..captured
      /\ (\A c : OnChain(c)' <=> OnChain(c)) /\ (\A p \in Run : Sent(p)' = Sent(p))
  BY <1>1 DEF recorderVars, BufferedCalls, OnChain, Holds, Sent, Observe
<1>3. RecorderInv'
  BY <1>2, RunsAlone DEF CodexInv, RecorderInv, RunsOK
<1>4. \A p \in Run : captured' \notin Sent(p)
  BY <1>2 DEF CallsExist
<1>5. SentOnce'
  BY <1>1, <1>2, <1>4 DEF CodexInv, SentOnce, Current
<1>6. CodexSummary' /\ Flushing'
  BY <1>1, <1>2 DEF CodexInv, CodexSummary, Flushing, Sent
<1>7. CodexInv'
  BY <1>2, <1>3, <1>5, <1>6 DEF CodexInv
<1>8. LossHasCause'
  <2>1. ASSUME NEW c \in 1..captured', c \notin 1..captured \/ WithHooks(c) PROVE Accounted(c)'
    BY <1>1, <1>2, <2>1 DEF WithHooks, Accounted, UnderWay
  <2>2. QED  BY <1>1, <1>2, <2>1, HooksAccount
<1>9. QED  BY <1>1, <1>7, <1>8 DEF HookFiles, Codex

LEMMA CodexAppendStep ==
  ASSUME CodexHas, NEW c \in observing, NEW o \in Outcome, ObserveAppends(c, o),
         UNCHANGED inProcessVars
  PROVE  CodexHas'
<1> USE DEF CodexHas
<1>1. /\ HookFiles'
      /\ faults' \in 0..MaxFaults
      /\ observing' = observing \ {c}
      /\ BufferedCalls \subseteq BufferedCalls' /\ BufferedCalls' \subseteq BufferedCalls \cup {c}
      /\ atRisk \subseteq atRisk'
      /\ c \in BufferedCalls' \/ <<c, "torn">> \in atRisk'
      /\ summary.stage # "none" => <<c, "overlap">> \in atRisk'
      /\ UNCHANGED <<onchain, run, host, captured, discarded, state, summary, unconfirmed>>
      /\ UNCHANGED <<kept, flush>>
  BY AppendKeeps DEF HookFiles, inProcessVars, CodexInv, RecorderInv, RunsOK
<1>2. /\ RecorderInv'
      /\ \A p \in Run : Sent(p)' = Sent(p) /\ Sent(p) \subseteq 1..captured
      /\ \A d : OnChain(d)' <=> OnChain(d)
      /\ inject' = inject
  BY <1>1, CodexRunsAlone DEF SameRuns, ObserveAppends
<1>3. SentOnce'
  BY <1>1, <1>2 DEF CodexInv, SentOnce, Current
<1>4. CodexSummary' /\ Flushing'
  BY <1>1, <1>2 DEF CodexInv, CodexSummary, Flushing, Sent
<1>5. CodexInv'
  BY <1>2, <1>3, <1>4 DEF CodexInv
<1>6. LossHasCause'
  <2>1. ASSUME NEW d \in 1..captured', WithHooks(d) PROVE Accounted(d)'
    <3>1. d = c => Accounted(d)'
      <4>1. "torn" \in MayBeLostTo'
        BY <1>1, Causes DEF MayBeLostTo, Claude, Codex, Sdk
      <4>2. QED  BY <1>1, <4>1 DEF Accounted, UnderWay
    <3>2. d # c => UnderWay(d)'
      BY <1>1, <2>1 DEF WithHooks, UnderWay
    <3>3. QED  BY <3>1, <3>2 DEF Accounted
  <2>2. captured \in Nat
    BY DEF FilesOK
  <2>3. QED  BY <1>1, <1>2, <2>1, <2>2, HooksAccount
<1>7. QED  BY <1>1, <1>5, <1>6 DEF HookFiles, Codex

LEMMA CodexReadsStep ==
  ASSUME CodexHas, StopReads, UNCHANGED inProcessVars
  PROVE  CodexHas'
<1> USE DEF CodexHas
<1>1. /\ UNCHANGED <<onchain, run, faults, captureVars, state, buffer, observing, inject,
                     unconfirmed, inProcessVars>>
      /\ summary.stage = "none"
      /\ summary' = [stage |-> "controls", calls |-> CodexReadable]
  BY DEF StopReads, recorderVars
<1>2. /\ CodexFrame /\ FilesOK' /\ BufferedCalls' = BufferedCalls
      /\ discarded' = discarded /\ atRisk' = atRisk
      /\ \A c \in BufferedCalls : Accounted(c)'
  BY <1>1, CodexFilesAlone DEF FilesOK
<1>3. /\ RecorderInv'
      /\ \A p \in Run : Sent(p)' = Sent(p) /\ Sent(p) \subseteq 1..captured
      /\ \A c : OnChain(c)' <=> OnChain(c)
  BY <1>1, CodexRunsAlone DEF SameRuns, CodexInv, RecorderInv, RunsOK
<1>4. CodexReadable \in Seq(Nat) /\ summary'.stage = "controls" /\ summary'.calls = CodexReadable
  BY <1>1 DEF CodexReadable, FilesOK
<1>5. CodexSummary' /\ Flushing'
  BY <1>1, <1>4 DEF CodexSummary, Flushing
<1>6. ReadCalls'
  BY <1>1, <1>2, <1>4, ElementsOfNone DEF ReadCalls, CodexReadable, BufferedCalls, Codex, CodexFrame
<1>7. SentOnce'
  BY <1>1, <1>2, <1>3, <1>4 DEF SentOnce, CodexInv, Current, CodexFrame
<1>8. QED  BY <1>1, <1>2, <1>3, <1>5, <1>6, <1>7, CodexMoves

\* Both files are removed and nothing is started.
LEMMA CodexForgetsStep ==
  ASSUME CodexHas, StopDisabled \/ StopEmpty, UNCHANGED inProcessVars
  PROVE  CodexHas'
<1> USE DEF CodexHas
<1>1. /\ UNCHANGED <<onchain, run, faults, host, captured, observing, inject, unconfirmed,
                     inProcessVars, clientReady>>
      /\ summary.stage = "controls" /\ EndSummary /\ ForgetSession
      /\ \/ discarded' = discarded \cup BufferedCalls /\ atRisk' = atRisk
         \/ /\ summary.calls = <<>> /\ discarded' = discarded
            /\ atRisk' = atRisk \cup ((IF buffer.bad THEN BufferedCalls ELSE {}) \X {"torn"})
  BY DEF StopDisabled, SummaryDisabled, StopEmpty, MayLose, recorderVars, inProcessVars
<1>2. /\ buffer' \in [calls : Seq(Nat), bad : BOOLEAN, cut : BOOLEAN]
      /\ BufferedCalls' = {} /\ state' = {}
  BY <1>1, Forgotten
<1>3. /\ discarded \subseteq discarded' /\ discarded' \subseteq 1..captured
      /\ atRisk \subseteq atRisk' /\ atRisk' \subseteq (1..captured) \X Reason
  BY <1>1 DEF FilesOK, Reason
<1>4. FilesOK'
  BY <1>1, <1>2, <1>3 DEF FilesOK
<1>5. /\ RecorderInv'
      /\ \A p \in Run : Sent(p)' = Sent(p) /\ Sent(p) \subseteq 1..captured
      /\ \A c : OnChain(c)' <=> OnChain(c)
  BY <1>1, CodexRunsAlone DEF SameRuns, CodexInv, RecorderInv, RunsOK
<1>6. summary' = NoSummary /\ summary'.stage = "none"
  BY <1>1 DEF EndSummary, NoSummary
<1>7. ReadCalls' /\ CodexSummary' /\ Flushing'
  BY <1>6 DEF ReadCalls, CodexSummary, Flushing
<1>8. SentOnce'
  BY <1>1, <1>2, <1>5, <1>6 DEF SentOnce, CodexInv, Current
<1>9. ASSUME NEW c \in BufferedCalls PROVE Accounted(c)'
  <2>1. {"overlap", "torn"} \subseteq MayBeLostTo'
    BY <1>1, Causes DEF MayBeLostTo, Claude, Codex, Sdk
  <2>2. CASE discarded' = discarded \cup BufferedCalls
    BY <2>2 DEF Accounted
  <2>3. CASE /\ summary.calls = <<>>
             /\ atRisk' = atRisk \cup ((IF buffer.bad THEN BufferedCalls ELSE {}) \X {"torn"})
    <3>1. buffer.bad \/ <<c, "overlap">> \in atRisk
      BY <1>1, <2>3, ElementsOfNone DEF ReadCalls
    <3>2. <<c, "torn">> \in atRisk' \/ <<c, "overlap">> \in atRisk'
      BY <2>3, <3>1
    <3>3. QED  BY <2>1, <3>2 DEF Accounted
  <2>4. QED  BY <1>1, <2>2, <2>3
<1>10. CodexFrame
  BY <1>1 DEF CodexFrame
<1>11. QED  BY <1>2, <1>3, <1>4, <1>5, <1>7, <1>8, <1>9, <1>10, CodexMoves

LEMMA CodexBeginsStep ==
  ASSUME CodexHas, NEW p \in Run, StopBegins(p), UNCHANGED inProcessVars
  PROVE  CodexHas'
<1> USE DEF CodexHas
<1>1. /\ UNCHANGED <<onchain, faults, captureVars, state, buffer, observing, inject,
                     unconfirmed, inProcessVars>>
      /\ summary.stage = "controls" /\ summary.calls # <<>> /\ run[p].stage = "new"
      /\ run' = [run EXCEPT ![p] = Started(summary.calls)]
      /\ summary' = [stage |-> "cli", session |-> p]
  BY DEF StopBegins
<1>2. /\ CodexFrame /\ FilesOK' /\ BufferedCalls' = BufferedCalls
      /\ discarded' = discarded /\ atRisk' = atRisk
      /\ \A c \in BufferedCalls : Accounted(c)'
  BY <1>1, CodexFilesAlone DEF FilesOK
<1>3. summary.calls \in Seq(Nat)
  BY <1>1 DEF CodexInv, CodexSummary, NoSummary
<1>4. PICK calls \in Seq(Nat) : calls = summary.calls
  BY <1>3
<1>5. /\ RecorderInv'
      /\ run'[p].calls = calls /\ run'[p].stage # "new"
      /\ \A q \in Run \ {p} : run'[q] = run[q]
  <2>1. run' = [run EXCEPT ![p] = [stage |-> "controls", calls |-> calls, done |-> 0,
                                   result |-> "none"]]
    BY <1>1, <1>4 DEF Started
  <2>2. faults' \in 0..MaxFaults /\ RecorderInv
    BY <1>1 DEF CodexInv, RecorderInv, RunsOK
  <2>3. QED  BY <1>1, <2>1, <2>2, RunBegins
<1>6. /\ Sent(p)' = Elements(calls) /\ \A q \in Run \ {p} : Sent(q)' = Sent(q)
      /\ Elements(calls) \subseteq BufferedCalls
      /\ \A c \in BufferedCalls : c \in Elements(calls) \/ <<c, "overlap">> \in atRisk
  BY <1>1, <1>4, <1>5 DEF Sent, ReadCalls
<1>7. summary'.stage = "cli" /\ summary'.session = p
  BY <1>1
<1>8. ReadCalls' /\ CodexSummary'
  BY <1>1, <1>7 DEF ReadCalls, CodexSummary
<1>9. Flushing'
  BY <1>2, <1>5, <1>6, <1>7 DEF Flushing
<1>10. SentOnce'
  <2>1. \A q \in Run : Sent(q)' \cap observing = {}
    BY <1>6 DEF CodexInv, SentOnce, Apart
  <2>2. \A q \in Run \ unconfirmed : q # p => Sent(q) \cap BufferedCalls = {}
    BY <1>1 DEF CodexInv, SentOnce, Current
  <2>3. \A q, r \in Run \ unconfirmed : q # r => Sent(q)' \cap Sent(r)' = {}
    BY <1>6, <2>2 DEF CodexInv, SentOnce
  <2>4. \A q \in Run \ unconfirmed : Current(q)' \/ Sent(q)' \cap BufferedCalls = {}
    BY <1>6, <1>7, <2>2 DEF Current
  <2>5. QED  BY <1>1, <1>2, <2>1, <2>3, <2>4 DEF SentOnce
<1>11. \A q \in Run : Sent(q)' \subseteq 1..captured
  BY <1>6 DEF CallsExist, FilesOK
<1>12. \A c : OnChain(c)' <=> OnChain(c)
  BY <1>1 DEF OnChain, Holds
<1>13. QED  BY <1>2, <1>5, <1>8, <1>9, <1>10, <1>11, <1>12, CodexMoves

LEMMA CodexCliStep ==
  ASSUME CodexHas, CliStep, UNCHANGED inProcessVars
  PROVE  CodexHas'
<1> USE DEF CodexHas
<1>1. /\ UNCHANGED <<captureVars, state, buffer, observing, inject, summary, unconfirmed,
                     inProcessVars>>
      /\ \E p \in Run : RunStep(p)
  BY DEF CliStep, hookVars
<1>2. /\ CodexFrame /\ FilesOK' /\ BufferedCalls' = BufferedCalls
      /\ discarded' = discarded /\ atRisk' = atRisk
      /\ \A c \in BufferedCalls : Accounted(c)'
  BY <1>1, CodexFilesAlone DEF FilesOK
<1>3. /\ RecorderInv'
      /\ \A q \in Run : /\ run'[q].calls = run[q].calls
                        /\ run'[q].stage = "new" <=> run[q].stage = "new"
      /\ \A c : OnChain(c) => OnChain(c)'
  BY <1>1, RunsSendOn DEF CodexInv
<1>4. \A q \in Run : Sent(q)' = Sent(q) /\ Sent(q) \subseteq 1..captured
  BY <1>3 DEF Sent, CallsExist
<1>5. ReadCalls' /\ CodexSummary'
  BY <1>1, <1>2 DEF ReadCalls, CodexInv, CodexSummary, CodexFrame, Codex
<1>6. Flushing'
  <2>1. summary.stage = "cli" => summary.session \in Run
    BY DEF CodexInv, CodexSummary, NoSummary
  <2>2. QED  BY <1>1, <1>2, <1>3, <1>4, <2>1 DEF CodexInv, Flushing
<1>7. SentOnce'
  BY <1>1, <1>2, <1>4 DEF CodexInv, SentOnce, Current, CodexFrame
<1>8. QED  BY <1>2, <1>3, <1>4, <1>5, <1>6, <1>7, CodexMoves

LEMMA CodexReturnsStep ==
  ASSUME CodexHas, StopReturns, UNCHANGED inProcessVars
  PROVE  CodexHas'
<1> USE DEF CodexHas
<1> PICK s : s = summary.session
  OBVIOUS
<1>1. /\ UNCHANGED <<onchain, run, faults, host, captured, atRisk, observing, inject,
                     inProcessVars, clientReady>>
      /\ summary.stage = "cli" /\ EndSummary
      /\ CASE run[s].result = "ok" -> ForgetSession /\ UNCHANGED <<discarded, unconfirmed>>
           [] run[s].result = "skipped" ->
                ForgetSession /\ discarded' = discarded \cup BufferedCalls /\ UNCHANGED unconfirmed
           [] OTHER -> unconfirmed' = unconfirmed \cup {s} /\ UNCHANGED <<state, buffer, discarded>>
  BY DEF StopReturns, recorderVars, inProcessVars
<1>2. \/ run[s].result = "ok" /\ ForgetSession /\ UNCHANGED <<discarded, unconfirmed>>
      \/ ForgetSession /\ discarded' = discarded \cup BufferedCalls /\ UNCHANGED unconfirmed
      \/ unconfirmed' = unconfirmed \cup {s} /\ UNCHANGED <<state, buffer, discarded>>
  BY <1>1
<1>3. s \in Run
  BY <1>1 DEF CodexInv, CodexSummary, NoSummary
<1>4. /\ RecorderInv'
      /\ \A p \in Run : Sent(p)' = Sent(p) /\ Sent(p) \subseteq 1..captured
      /\ \A c : OnChain(c)' <=> OnChain(c)
  BY <1>1, CodexRunsAlone DEF SameRuns, CodexInv, RecorderInv, RunsOK
<1>5. \/ /\ buffer' \in [calls : Seq(Nat), bad : BOOLEAN, cut : BOOLEAN]
         /\ BufferedCalls' = {} /\ state' = {} /\ unconfirmed' = unconfirmed
         /\ \/ run[s].result = "ok" /\ discarded' = discarded
            \/ discarded' = discarded \cup BufferedCalls
      \/ /\ buffer' = buffer /\ BufferedCalls' = BufferedCalls /\ state' = state
         /\ unconfirmed' = unconfirmed \cup {s} /\ discarded' = discarded
  BY <1>2, Forgotten DEF BufferedCalls
<1>6. FilesOK'
  BY <1>1, <1>3, <1>5 DEF FilesOK
<1>7. summary' = NoSummary /\ summary'.stage = "none"
  BY <1>1 DEF EndSummary, NoSummary
<1>8. ReadCalls' /\ CodexSummary' /\ Flushing'
  BY <1>7 DEF ReadCalls, CodexSummary, Flushing
<1>9. SentOnce'
  <2>1. \A p \in Run \ unconfirmed : p # s => Sent(p) \cap BufferedCalls = {}
    BY DEF CodexInv, SentOnce, Current
  <2>2. unconfirmed \subseteq unconfirmed'
    BY <1>5
  <2>3. \A p \in Run \ unconfirmed' : Sent(p)' \cap BufferedCalls' = {}
    BY <1>4, <1>5, <2>1
  <2>4. \A p \in Run : Sent(p)' \cap observing' = {}
    BY <1>1, <1>4 DEF CodexInv, SentOnce
  <2>5. \A p, q \in Run \ unconfirmed' : p # q => Sent(p)' \cap Sent(q)' = {}
    BY <1>4, <2>2 DEF CodexInv, SentOnce
  <2>6. QED  BY <2>3, <2>4, <2>5 DEF SentOnce
<1>10. ASSUME NEW c \in BufferedCalls PROVE Accounted(c)'
  <2>1. "overlap" \in MayBeLostTo'
    BY <1>1, Causes DEF MayBeLostTo, Claude, Codex, Sdk
  <2>2. CASE run[s].result = "ok"
    <3>1. c \in Sent(s) \/ <<c, "overlap">> \in atRisk
      BY <1>1 DEF CodexInv, Flushing
    <3>2. c \in Sent(s) => OnChain(c)
      BY <1>3, <2>2, SuccessIsRecorded DEF CodexInv
    <3>3. QED  BY <1>1, <1>4, <2>1, <3>1, <3>2 DEF Accounted
  <2>3. CASE run[s].result # "ok"
    BY <1>5, <2>3 DEF Accounted, UnderWay
  <2>4. QED  BY <2>2, <2>3
<1>11. CodexFrame /\ BufferedCalls' \subseteq BufferedCalls /\ discarded \subseteq discarded'
  BY <1>1, <1>5 DEF CodexFrame
<1>12. QED  BY <1>1, <1>4, <1>6, <1>8, <1>9, <1>10, <1>11, CodexMoves

LEMMA CodexKilledStep ==
  ASSUME CodexHas, SummaryKilled, UNCHANGED inProcessVars
  PROVE  CodexHas'
<1> USE DEF CodexHas
<1> PICK s : s = summary.session
  OBVIOUS
<1>1. summary.stage \in {"controls", "cli"}
  BY DEF SummaryKilled, CodexInv, CodexSummary, NoSummary
<1>2. /\ UNCHANGED <<onchain, captureVars, state, buffer, observing, inject, inProcessVars>>
      /\ EndSummary /\ Charge("lost")
      /\ \/ /\ summary.stage = "cli" /\ unconfirmed' = unconfirmed \cup {s}
            /\ run' = run \/ (run[s].stage # "exit" /\ Exit(s, "killed"))
         \/ summary.stage = "controls" /\ UNCHANGED <<run, unconfirmed>>
  BY <1>1 DEF SummaryKilled, captureVars
<1>3. summary.stage = "cli" => s \in Run /\ run[s].stage # "new"
  BY DEF CodexInv, CodexSummary, Flushing, NoSummary
<1>4. faults' \in 0..MaxFaults /\ RecorderInv
  BY <1>2, ChargeOK DEF CodexInv, RecorderInv, RunsOK
<1>5. RecorderInv' /\ \A p \in Run : Sent(p)' = Sent(p)
  <2>1. CASE run' = run
    BY <1>2, <1>4, <2>1, RunsAlone DEF Sent
  <2>2. CASE summary.stage = "cli" /\ run[s].stage # "exit" /\ Exit(s, "killed")
    <3>1. run' = [q \in Run |-> IF q \in {s} /\ run[q].stage \notin {"new", "exit"}
                                THEN [run[q] EXCEPT !.stage = "exit", !.result = "killed"]
                                ELSE run[q]]
      BY <1>3, <1>4, <2>2 DEF Exit, RecorderInv, RunsOK
    <3>2. RecorderInv' /\ \A q \in Run : run'[q].calls = run[q].calls
      BY <1>2, <1>4, <3>1, RunsKilled
    <3>3. QED  BY <3>2 DEF Sent
  <2>3. QED  BY <1>2, <2>1, <2>2
<1>6. unconfirmed' \subseteq Run /\ unconfirmed \subseteq unconfirmed'
  BY <1>2, <1>3 DEF FilesOK
<1>7. /\ CodexFrame /\ FilesOK' /\ BufferedCalls' = BufferedCalls
      /\ discarded' = discarded /\ atRisk' = atRisk
      /\ \A c \in BufferedCalls : Accounted(c)'
  BY <1>2, <1>6, CodexFilesAlone DEF FilesOK
<1>8. summary' = NoSummary /\ summary'.stage = "none"
  BY <1>2 DEF EndSummary, NoSummary
<1>9. ReadCalls' /\ CodexSummary' /\ Flushing'
  BY <1>8 DEF ReadCalls, CodexSummary, Flushing
<1>10. SentOnce'
  <2>1. \A p \in Run \ unconfirmed' : Sent(p) \cap BufferedCalls = {}
    BY <1>2, <1>6 DEF CodexInv, SentOnce, Current
  <2>2. QED  BY <1>2, <1>5, <1>6, <1>7, <2>1 DEF CodexInv, SentOnce
<1>11. (\A p \in Run : Sent(p)' \subseteq 1..captured) /\ \A c : OnChain(c)' <=> OnChain(c)
  BY <1>2, <1>5 DEF CallsExist, OnChain, Holds
<1>12. QED  BY <1>5, <1>7, <1>9, <1>10, <1>11, CodexMoves

LEMMA CodexStep ==
  ASSUME CodexHas, HookStep, UNCHANGED inProcessVars
  PROVE  CodexHas'
<1>1. ~Claude
  BY DEF CodexHas, Claude, Codex
<1>2. inject = {}
  BY DEF CodexHas, CodexInv
<1>3. \/ Arm \/ Observe
      \/ \E p \in Run : StopBegins(p)
      \/ \E c \in observing, o \in Outcome : ObserveAppends(c, o)
      \/ StopReads \/ StopDisabled \/ StopEmpty \/ CliStep \/ StopReturns \/ SummaryKilled
  BY <1>1, <1>2 DEF HookStep, InjectBegins, InjectSaves, InjectOpens, InjectKilled, ClaudeObserves,
                    CodexObserves, ClaudeSummaryReads, ClaudeSummaryDisabled, ClaudeSummaryBegins,
                    ClaudeDrains, ClaudeAppends, ClaudeCloses, ClaudeEnds
<1>4. QED
  BY <1>3, CodexArmStep, CodexObserveStep, CodexAppendStep, CodexReadsStep, CodexForgetsStep,
     CodexBeginsStep, CodexCliStep, CodexReturnsStep, CodexKilledStep

-----------------------------------------------------------------------------
(***************************************************************************)
(* Steps of the recorders in memory.                                       *)
(***************************************************************************)
\* What the hooks use is not theirs.
HookFrame == UNCHANGED <<host, state, buffer, observing, inject, summary, unconfirmed>>

WithMemory(c) ==
  \/ \E k \in Slot : c \in Elements(kept[k])
  \/ \E f \in Run : flush[f].stage \notin {"done", "dead"} /\ c \in Elements(flush[f].calls)

LEMMA MemoryMoves ==
  ASSUME MemoryHas, HookFrame, captured' \in 0..MaxCalls[host], captured <= captured',
         discarded' \subseteq 1..captured', atRisk' \subseteq (1..captured') \X Reason,
         clientReady' \subseteq Proc, CallsExist', MemoryInv',
         \A c : OnChain(c) => OnChain(c)', discarded \subseteq discarded', atRisk \subseteq atRisk',
         \A c \in 1..captured' : c \notin 1..captured \/ WithMemory(c) => Accounted(c)'
  PROVE  MemoryHas'
<1> USE DEF MemoryHas, HookFrame
<1>1. captured \in Nat /\ captured' \in Nat /\ 1..captured \subseteq 1..captured'
  BY CapturedCallsAreBounded DEF FilesOK
<1>2. BufferedCalls' = BufferedCalls
  BY DEF BufferedCalls
<1>3. FilesOK'
  BY <1>1, <1>2 DEF FilesOK
<1>4. MayBeLostTo' = MayBeLostTo
  BY DEF MayBeLostTo, Claude, Codex, Sdk
<1>5. LossHasCause'
  <2>1. ASSUME NEW c \in 1..captured' PROVE Accounted(c)'
    <3>1. CASE c \notin 1..captured \/ WithMemory(c)
      BY <3>1
    <3>2. CASE c \in 1..captured /\ ~WithMemory(c)
      <4>1. UnderWay(c) => UnderWay(c)'
        BY <1>2, <3>2 DEF UnderWay, WithMemory
      <4>2. Accounted(c)
        BY <3>2 DEF LossHasCause, Accounted
      <4>3. QED  BY <1>4, <4>1, <4>2 DEF Accounted
    <3>3. QED  BY <3>1, <3>2
  <2>2. QED  BY <2>1 DEF LossHasCause, Accounted
<1>6. QED  BY <1>3, <1>5 DEF Claude, Codex

\* A flush that gives up: its calls are abandoned.
GivenUp(f) == \A c \in Elements(flush[f].calls) : <<c, "abandoned">> \in atRisk'

LEMMA GivesUp ==
  ASSUME MemoryHas, captured' = captured, NEW S, S \subseteq 1..captured,
         atRisk' = atRisk \cup (S \X {"abandoned"})
  PROVE  /\ atRisk' \subseteq (1..captured') \X Reason /\ atRisk \subseteq atRisk'
         /\ \A c \in S : <<c, "abandoned">> \in atRisk'
BY DEF MemoryHas, FilesOK, Reason

LEMMA MemoryCauses ==
  ASSUME MemoryHas, host' = host
  PROVE  "abandoned" \in MayBeLostTo'
BY Causes DEF MemoryHas, MayBeLostTo, Claude, Codex, Sdk

\* A step of one flush, that takes its calls along or is done with them.
LEMMA FlushGoes ==
  ASSUME MemoryHas, HookFrame, NEW f \in Run, UNCHANGED <<captured, discarded, kept>>,
         clientReady' \subseteq Proc,
         RecorderInv', \A g \in Run : run'[g].calls = run[g].calls \/ g = f,
         \A g \in Run \ {f} : run'[g].stage = "new" <=> run[g].stage = "new",
         Sent(f)' \subseteq 1..captured,
         \A g \in Run \ {f} : flush'[g] = flush[g],
         flush'[f].calls = flush[f].calls,
         FlushRun(f)',
         \A c : OnChain(c) => OnChain(c)',
         atRisk' \subseteq (1..captured) \X Reason, atRisk \subseteq atRisk',
         \/ flush'[f].stage \notin {"done", "dead"}
         \/ \A c \in Elements(flush[f].calls) : OnChain(c)' \/ <<c, "abandoned">> \in atRisk'
  PROVE  MemoryHas'
<1> USE DEF MemoryHas, HookFrame
<1>1. \A g \in Run : flush'[g].calls = flush[g].calls
  OBVIOUS
<1>2. CallsExist'
  BY <1>1 DEF CallsExist, Sent
<1>3. \A g \in Run : FlushRun(g)'
  BY DEF MemoryInv, FlushRun
<1>4. InMemoryOnce'
  BY <1>1 DEF MemoryInv, InMemoryOnce
<1>5. MemoryInv'
  BY <1>3, <1>4 DEF MemoryInv
<1>6. ASSUME NEW c, WithMemory(c) PROVE Accounted(c)'
  <2>1. CASE \E k \in Slot : c \in Elements(kept[k])
    BY <2>1 DEF Accounted, UnderWay
  <2>2. ASSUME NEW g \in Run, flush[g].stage \notin {"done", "dead"}, c \in Elements(flush[g].calls)
        PROVE  Accounted(c)'
    <3>1. CASE flush'[g].stage \notin {"done", "dead"}
      BY <1>1, <2>2, <3>1 DEF Accounted, UnderWay
    <3>2. CASE flush'[g].stage \in {"done", "dead"}
      <4>1. g = f
        BY <2>2, <3>2
      <4>2. OnChain(c)' \/ <<c, "abandoned">> \in atRisk'
        BY <2>2, <3>2, <4>1
      <4>3. QED  BY <4>2, MemoryCauses DEF Accounted
    <3>3. QED  BY <3>1, <3>2
  <2>3. QED  BY <1>6, <2>1, <2>2 DEF WithMemory
<1>7. captured \in Nat /\ captured' \in 0..MaxCalls[host]
  BY DEF FilesOK
<1>8. discarded' \subseteq 1..captured'
  BY DEF FilesOK
<1>9. QED  BY <1>2, <1>5, <1>6, <1>7, <1>8, MemoryMoves

LEMMA FlushStageSet ==
  ASSUME Typed, NEW f \in Run, NEW stage, flush' = [flush EXCEPT ![f].stage = stage]
  PROVE  /\ \A g \in Run \ {f} : flush'[g] = flush[g]
         /\ flush'[f].stage = stage /\ flush'[f].calls = flush[f].calls
BY DEF Typed, FlushState

\* Getting the client and the target, or failing to.
LEMMA MemoryResolvesStep ==
  ASSUME MemoryHas, Typed, NEW f \in Run, UNCHANGED hookVars,
         \/ \E o \in {"ok", "refused"} : GetClient(f, o)
         \/ \E a \in Attempt : GetTarget(f, a)
         \/ TargetFails(f)
  PROVE  MemoryHas'
<1> USE DEF MemoryHas
<1>1. /\ UNCHANGED <<onchain, run, host, captured, discarded, kept>>
      /\ flush[f].stage \in {"client", "target", "await"}
      /\ faults' = faults \/ \E o : Charge(o)
  BY DEF GetClient, GetTarget, TargetFails, recorderVars, captureVars
<1>2. HookFrame
  BY <1>1 DEF HookFrame, hookVars
<1>3. clientReady' \subseteq Proc
  <2>1. flush[f].proc \subseteq Proc
    BY DEF Typed, FlushState, Single
  <2>2. clientReady' = clientReady \/ clientReady' = clientReady \cup flush[f].proc
    BY DEF GetClient, GetTarget, TargetFails
  <2>3. QED  BY <2>1, <2>2 DEF FilesOK
<1>4. RecorderInv'
  <2>1. faults' \in 0..MaxFaults
    BY <1>1, ChargeOK DEF MemoryInv, RecorderInv, RunsOK
  <2>2. QED  BY <1>1, <2>1, RunsAlone DEF MemoryInv
<1>5. \/ /\ flush' = [flush EXCEPT ![f].stage = "done"]
         /\ atRisk' = atRisk \cup (Elements(flush[f].calls) \X {"abandoned"})
      \/ flush' = [flush EXCEPT ![f].stage = "target"] /\ atRisk' = atRisk
      \/ /\ \E a \in Attempt : flush' = [flush EXCEPT ![f].stage = "await", ![f].attempt = {a}]
         /\ atRisk' = atRisk
  BY DEF GetClient, GetTarget, TargetFails, GiveUp, MayLose, captureVars
<1>6. /\ \A g \in Run \ {f} : flush'[g] = flush[g]
      /\ flush'[f].calls = flush[f].calls
      /\ flush'[f].stage \in {"done", "target", "await"}
  BY <1>5 DEF Typed, FlushState
<1>7. /\ atRisk' \subseteq (1..captured) \X Reason /\ atRisk \subseteq atRisk'
      /\ \/ flush'[f].stage \notin {"done", "dead"}
         \/ \A c \in Elements(flush[f].calls) : <<c, "abandoned">> \in atRisk'
  <2>1. CASE atRisk' = atRisk /\ flush'[f].stage \in {"target", "await"}
    BY <2>1 DEF FilesOK
  <2>2. CASE atRisk' = atRisk \cup (Elements(flush[f].calls) \X {"abandoned"})
    <3>1. PICK S : S = Elements(flush[f].calls)
      OBVIOUS
    <3>2. S \subseteq 1..captured
      BY <3>1 DEF CallsExist
    <3>3. /\ atRisk' \subseteq (1..captured) \X Reason /\ atRisk \subseteq atRisk'
          /\ \A c \in S : <<c, "abandoned">> \in atRisk'
      BY <1>1, <2>2, <3>1, <3>2, GivesUp
    <3>4. QED  BY <3>1, <3>3
  <2>3. QED  BY <1>5, <1>6, <2>1, <2>2 DEF Typed, FlushState
<1>8. run[f].stage = "new" /\ FlushRun(f)'
  <2>1. FlushRun(f)
    BY DEF MemoryInv
  <2>2. QED  BY <1>1, <1>6, <2>1 DEF FlushRun
<1>9. Sent(f)' \subseteq 1..captured /\ \A c : OnChain(c) => OnChain(c)'
  BY <1>1 DEF Sent, CallsExist, OnChain, Holds
<1>10. QED  BY <1>1, <1>2, <1>3, <1>4, <1>6, <1>7, <1>8, <1>9, FlushGoes

LEMMA MemoryStartsStep ==
  ASSUME MemoryHas, Typed, NEW f \in Run, UNCHANGED hookVars, TargetResolves(f)
  PROVE  MemoryHas'
<1> USE DEF MemoryHas
<1>1. /\ UNCHANGED <<onchain, faults, host, captured, discarded, atRisk, kept, clientReady>>
      /\ flush[f].stage = "await" /\ flush' = [flush EXCEPT ![f].stage = "record"]
      /\ run' = [run EXCEPT ![f] = [Started(flush[f].calls) EXCEPT !.stage = "start"]]
  BY DEF TargetResolves, captureVars
<1>2. HookFrame
  BY <1>1 DEF HookFrame, hookVars
<1>3. PICK calls \in Seq(Nat) : calls = flush[f].calls
  BY DEF Typed, FlushState
<1>4. FlushRun(f) /\ run[f].stage = "new"
  BY <1>1 DEF MemoryInv, FlushRun
<1>5. /\ RecorderInv'
      /\ run'[f].calls = calls /\ run'[f].stage # "new"
      /\ \A g \in Run \ {f} : run'[g] = run[g]
  <2>1. run' = [run EXCEPT ![f] = [stage |-> "start", calls |-> calls, done |-> 0, result |-> "none"]]
    <3>1. [Started(calls) EXCEPT !.stage = "start"]
            = [stage |-> "start", calls |-> calls, done |-> 0, result |-> "none"]
      BY DEF Started
    <3>2. QED  BY <1>1, <1>3, <3>1
  <2>2. faults' \in 0..MaxFaults
    BY <1>1 DEF MemoryInv, RecorderInv, RunsOK
  <2>3. QED  BY <1>1, <1>4, <2>1, <2>2, RunBegins DEF MemoryInv
<1>6. /\ \A g \in Run \ {f} : flush'[g] = flush[g]
      /\ flush'[f].stage = "record" /\ flush'[f].calls = flush[f].calls
  BY <1>1, FlushStageSet
<1>7. FlushRun(f)'
  BY <1>3, <1>5, <1>6 DEF FlushRun
<1>8. Sent(f)' \subseteq 1..captured /\ \A c : OnChain(c) => OnChain(c)'
  BY <1>1, <1>3, <1>5 DEF Sent, CallsExist, OnChain, Holds
<1>9. atRisk' \subseteq (1..captured) \X Reason /\ clientReady' \subseteq Proc
  BY <1>1 DEF FilesOK
<1>10. QED  BY <1>1, <1>2, <1>5, <1>6, <1>7, <1>8, <1>9, FlushGoes

LEMMA MemoryRecordsStep ==
  ASSUME MemoryHas, Typed, NEW f \in Run, UNCHANGED hookVars, RecordStep(f)
  PROVE  MemoryHas'
<1> USE DEF MemoryHas
<1>1. /\ UNCHANGED <<host, captured, discarded, atRisk, kept, clientReady, flush>>
      /\ flush[f].stage = "record" /\ RunStep(f)
  BY DEF RecordStep, captureVars, inProcessVars
<1>2. HookFrame
  BY <1>1 DEF HookFrame, hookVars
<1>3. /\ RecorderInv'
      /\ \A q \in Run : /\ run'[q].calls = run[q].calls
                        /\ run'[q].stage = "new" <=> run[q].stage = "new"
      /\ \A c : OnChain(c) => OnChain(c)'
  BY <1>1, RunsSendOn DEF MemoryInv
<1>4. FlushRun(f)'
  BY <1>1, <1>3 DEF MemoryInv, FlushRun
<1>5. Sent(f)' \subseteq 1..captured
  BY <1>3 DEF Sent, CallsExist
<1>6. atRisk' \subseteq (1..captured) \X Reason /\ clientReady' \subseteq Proc
  BY <1>1 DEF FilesOK
<1>7. QED  BY <1>1, <1>2, <1>3, <1>4, <1>5, <1>6, FlushGoes

LEMMA MemoryReturnsStep ==
  ASSUME MemoryHas, Typed, NEW f \in Run, UNCHANGED hookVars, RecordReturns(f)
  PROVE  MemoryHas'
<1> USE DEF MemoryHas
<1>1. /\ UNCHANGED <<onchain, run, faults, host, captured, discarded, kept, clientReady>>
      /\ flush[f].stage = "record" /\ flush' = [flush EXCEPT ![f].stage = "done"]
      /\ \/ run[f].result = "ok" /\ atRisk' = atRisk
         \/ atRisk' = atRisk \cup (Elements(flush[f].calls) \X {"abandoned"})
  BY DEF RecordReturns, recorderVars, GiveUp, MayLose
<1>2. HookFrame
  BY <1>1 DEF HookFrame, hookVars
<1>3. RecorderInv'
  BY <1>1, RunsAlone DEF MemoryInv, RecorderInv, RunsOK
<1>4. /\ \A g \in Run \ {f} : flush'[g] = flush[g]
      /\ flush'[f].stage = "done" /\ flush'[f].calls = flush[f].calls
  BY <1>1, FlushStageSet
<1>5. FlushRun(f) /\ run[f].calls = flush[f].calls
  BY <1>1 DEF MemoryInv, FlushRun
<1>6. FlushRun(f)'
  BY <1>1, <1>4, <1>5 DEF FlushRun
<1>7. \A c : OnChain(c)' <=> OnChain(c)
  BY <1>1 DEF OnChain, Holds
<1>8. /\ atRisk' \subseteq (1..captured) \X Reason /\ atRisk \subseteq atRisk'
      /\ \A c \in Elements(flush[f].calls) : OnChain(c)' \/ <<c, "abandoned">> \in atRisk'
  <2>1. CASE run[f].result = "ok" /\ atRisk' = atRisk
    <3>1. \A c \in Sent(f) : OnChain(c)
      BY <2>1, SuccessIsRecorded DEF MemoryInv
    <3>2. QED  BY <1>5, <1>7, <2>1, <3>1 DEF Sent, FilesOK
  <2>2. CASE atRisk' = atRisk \cup (Elements(flush[f].calls) \X {"abandoned"})
    <3>1. PICK S : S = Elements(flush[f].calls)
      OBVIOUS
    <3>2. S \subseteq 1..captured
      BY <3>1 DEF CallsExist
    <3>3. /\ atRisk' \subseteq (1..captured) \X Reason /\ atRisk \subseteq atRisk'
          /\ \A c \in S : <<c, "abandoned">> \in atRisk'
      BY <1>1, <2>2, <3>1, <3>2, GivesUp
    <3>4. QED  BY <3>1, <3>3
  <2>3. QED  BY <1>1, <2>1, <2>2
<1>9. Sent(f)' \subseteq 1..captured /\ clientReady' \subseteq Proc
  BY <1>1 DEF Sent, CallsExist, FilesOK
<1>10. QED  BY <1>1, <1>2, <1>3, <1>4, <1>6, <1>7, <1>8, <1>9, FlushGoes

\* The wallet and the namespace: nothing of the calls moves.
LEMMA MemoryProvisionsStep ==
  ASSUME MemoryHas, UNCHANGED hookVars, UNCHANGED <<captureVars, inProcessVars>>,
         \/ \E w \in Proc : ReadWallet(w) \/ SaveWallet(w)
         \/ \E a \in Attempt, o \in Outcome : CreateNamespace(a, o) \/ ShareReadWrite(a, o)
         \/ \E a \in Attempt : SaveTarget(a)
  PROVE  MemoryHas'
<1> USE DEF MemoryHas
<1>1. /\ UNCHANGED <<onchain, run>>
      /\ faults' = faults \/ \E o : Charge(o)
  BY DEF ReadWallet, SaveWallet, CreateNamespace, ShareReadWrite, SaveTarget, recorderVars
<1>2. UNCHANGED <<host, captured, discarded, atRisk, kept, clientReady, flush>> /\ HookFrame
  BY DEF captureVars, inProcessVars, HookFrame, hookVars
<1>3. RecorderInv'
  <2>1. faults' \in 0..MaxFaults
    BY <1>1, ChargeOK DEF MemoryInv, RecorderInv, RunsOK
  <2>2. QED  BY <1>1, <2>1, RunsAlone DEF MemoryInv
<1>4. MemoryInv'
  BY <1>1, <1>2, <1>3 DEF MemoryInv, FlushRun, InMemoryOnce
<1>5. CallsExist' /\ \A c : OnChain(c)' <=> OnChain(c)
  BY <1>1, <1>2 DEF CallsExist, Sent, OnChain, Holds
<1>6. \A c : WithMemory(c) => Accounted(c)'
  BY <1>2 DEF WithMemory, Accounted, UnderWay
<1>7. captured \in Nat /\ captured' \in 0..MaxCalls[host] /\ discarded' \subseteq 1..captured'
      /\ atRisk' \subseteq (1..captured') \X Reason /\ clientReady' \subseteq Proc
  BY <1>2 DEF FilesOK
<1>8. QED  BY <1>2, <1>4, <1>5, <1>6, <1>7, MemoryMoves

\* Calls are captured, and what a context has of them stays with it (K) or leaves it (A),
\* for a flush or because the controls say so.
LEMMA MemoryPasses ==
  ASSUME MemoryHas, HookFrame, UNCHANGED <<onchain, run, faults, atRisk, clientReady>>,
         captured' \in 0..MaxCalls[host], captured <= captured',
         NEW k \in Slot, NEW K, NEW A, K \cap A = {}, Elements(kept'[k]) = K,
         \A j \in Slot \ {k} : kept'[j] = kept[j],
         K \cup A = Elements(kept[k]) \cup ((1..captured') \ (1..captured)),
         \/ flush' = flush /\ discarded' = discarded \cup A
         \/ \E f \in Run :
              /\ flush[f].stage = "none" /\ flush'[f].stage = "client"
              /\ Elements(flush'[f].calls) = A
              /\ \A g \in Run \ {f} : flush'[g] = flush[g]
              /\ discarded' = discarded
  PROVE  MemoryHas'
<1> USE DEF MemoryHas
<1> PICK N : N = 1..captured'
  OBVIOUS
<1>1. captured \in Nat /\ captured' \in Nat /\ 1..captured \subseteq N
  BY DEF FilesOK
<1>2. /\ \A j \in Slot : Elements(kept[j]) \subseteq 1..captured
      /\ \A f \in Run : Elements(flush[f].calls) \subseteq 1..captured
      /\ K \subseteq N /\ A \subseteq N
  BY <1>1 DEF CallsExist
<1>3. \A f \in Run : flush[f].stage = "none" => Elements(flush[f].calls) = {}
  BY ElementsOfNone DEF MemoryInv, FlushRun
<1>4. \A f \in Run : Elements(flush'[f].calls) = Elements(flush[f].calls)
                     \/ (Elements(flush[f].calls) = {} /\ Elements(flush'[f].calls) = A)
  BY <1>3
<1>5. CallsExist'
  <2>1. \A j \in Slot : Elements(kept'[j]) \subseteq N
    BY <1>1, <1>2
  <2>2. \A f \in Run : Elements(flush'[f].calls) \subseteq N
    BY <1>1, <1>2, <1>4
  <2>3. \A p \in Run : Sent(p)' \subseteq N
    BY <1>1 DEF CallsExist, Sent
  <2>4. QED  BY <2>1, <2>2, <2>3 DEF CallsExist
<1>6. MemoryInv'
  <2>1. RecorderInv'
    <3>1. faults' \in 0..MaxFaults
      BY DEF MemoryInv, RecorderInv, RunsOK
    <3>2. QED  BY <3>1, RunsAlone DEF MemoryInv
  <2>2. ASSUME NEW g \in Run PROVE FlushRun(g)'
    <3>1. FlushRun(g)
      BY DEF MemoryInv
    <3>2. flush'[g] = flush[g] \/ (flush[g].stage = "none" /\ flush'[g].stage = "client")
      OBVIOUS
    <3>3. QED  BY <3>1, <3>2 DEF FlushRun
  <2>3. /\ \A g \in Run, j \in Slot : Elements(flush[g].calls) \cap Elements(kept[j]) = {}
        /\ \A i, j \in Slot : i # j => Elements(kept[i]) \cap Elements(kept[j]) = {}
        /\ \A g, h \in Run : g # h => Elements(flush[g].calls) \cap Elements(flush[h].calls) = {}
    BY DEF MemoryInv, InMemoryOnce
  <2>4. K \cup A \subseteq Elements(kept[k]) \cup (N \ (1..captured))
    OBVIOUS
  <2>5. \A i, j \in Slot : i # j => Elements(kept'[i]) \cap Elements(kept'[j]) = {}
    BY <1>2, <2>3, <2>4
  <2>6. \A g \in Run : Elements(flush[g].calls) \cap (K \cup A) = {}
    BY <1>2, <2>3, <2>4
  <2>7. \A g, h \in Run : g # h => Elements(flush'[g].calls) \cap Elements(flush'[h].calls) = {}
    <3>1. CASE flush' = flush
      BY <2>3, <3>1
    <3>2. ASSUME NEW f \in Run, Elements(flush'[f].calls) = A,
                 \A g \in Run \ {f} : flush'[g] = flush[g]
          PROVE  \A g, h \in Run : g # h => Elements(flush'[g].calls) \cap Elements(flush'[h].calls) = {}
      BY <2>3, <2>6, <3>2
    <3>3. QED  BY <3>1, <3>2
  <2>8. \A g \in Run, j \in Slot : Elements(flush'[g].calls) \cap Elements(kept'[j]) = {}
    <3>1. \A j \in Slot \ {k} : A \cap Elements(kept[j]) = {}
      BY <1>2, <2>3, <2>4
    <3>2. QED  BY <1>4, <2>3, <2>6, <3>1
  <2>9. QED  BY <2>1, <2>2, <2>5, <2>7, <2>8 DEF MemoryInv, InMemoryOnce
<1>7. ASSUME NEW c \in N, c \notin 1..captured \/ WithMemory(c) PROVE Accounted(c)'
  <2>1. ASSUME NEW j \in Slot, c \in Elements(kept'[j]) PROVE Accounted(c)'
    BY <2>1 DEF Accounted, UnderWay
  <2>2. ASSUME NEW g \in Run, flush'[g].stage \notin {"done", "dead"}, c \in Elements(flush'[g].calls)
        PROVE  Accounted(c)'
    BY <2>2 DEF Accounted, UnderWay
  <2>3. CASE c \in K
    BY <2>1, <2>3
  <2>4. CASE c \in A
    <3>1. CASE flush' = flush /\ discarded' = discarded \cup A
      BY <2>4, <3>1 DEF Accounted
    <3>2. ASSUME NEW f \in Run, flush'[f].stage = "client", Elements(flush'[f].calls) = A
          PROVE  Accounted(c)'
      BY <2>2, <2>4, <3>2
    <3>3. QED  BY <3>1, <3>2
  <2>5. CASE \E j \in Slot \ {k} : c \in Elements(kept[j])
    BY <2>1, <2>5
  <2>6. ASSUME NEW g \in Run, flush[g].stage \notin {"done", "dead"}, c \in Elements(flush[g].calls)
        PROVE  Accounted(c)'
    <3>1. flush'[g] = flush[g]
      BY <1>3, <2>6
    <3>2. QED  BY <2>2, <2>6, <3>1
  <2>7. CASE \E g \in Run : flush[g].stage \notin {"done", "dead"} /\ c \in Elements(flush[g].calls)
    BY <2>6, <2>7
  <2>8. c \in K \/ c \in A \/ (WithMemory(c) /\ c \notin Elements(kept[k]))
    BY <1>7
  <2>9. QED  BY <2>3, <2>4, <2>5, <2>7, <2>8 DEF WithMemory
<1>8. \A c : OnChain(c)' <=> OnChain(c)
  BY DEF OnChain, Holds
<1>9. discarded \subseteq 1..captured /\ atRisk \subseteq (1..captured) \X Reason /\ clientReady \subseteq Proc
  BY DEF FilesOK
<1>10. discarded' \subseteq N /\ discarded \subseteq discarded'
  BY <1>1, <1>2, <1>9
<1>11. atRisk' \subseteq N \X Reason
  BY <1>1, <1>9
<1>12. QED  BY <1>5, <1>6, <1>7, <1>8, <1>9, <1>10, <1>11, MemoryMoves

LEMMA MemoryKeepsStep ==
  ASSUME MemoryHas, Typed, NEW w \in Proc, NEW x \in Context, UNCHANGED hookVars,
         RecordOpenClaw(w, x) \/ ToolStarts(w, x)
  PROVE  MemoryHas'
<1> USE DEF MemoryHas
<1> PICK k \in Slot : k = <<w, x>>
  BY DEF Slot
<1>1. /\ UNCHANGED <<onchain, run, faults, host, discarded, atRisk, clientReady, flush>>
      /\ captured < MaxCalls[host] /\ captured' = captured + 1
      /\ kept' = [kept EXCEPT ![k] = Append(@, captured + 1)]
  BY DEF RecordOpenClaw, ToolStarts, Keep, recorderVars
<1>2. HookFrame
  BY <1>1 DEF HookFrame, hookVars
<1>3. captured \in Nat /\ captured + 1 \in Nat /\ kept[k] \in Seq(Nat)
  BY DEF Typed
<1>4. captured' \in 0..MaxCalls[host] /\ captured <= captured'
  BY <1>1, <1>3, CapturedCallsAreBounded DEF FilesOK
<1> PICK K : K = Elements(kept[k]) \cup {captured + 1}
  OBVIOUS
<1>5. Elements(kept'[k]) = K /\ \A j \in Slot \ {k} : kept'[j] = kept[j]
  <2>1. kept'[k] = Append(kept[k], captured + 1) /\ \A j \in Slot \ {k} : kept'[j] = kept[j]
    BY <1>1 DEF Typed
  <2>2. Elements(Append(kept[k], captured + 1)) = K
    BY <1>3, ElementsOfAppend
  <2>3. QED  BY <2>1, <2>2
<1>6. (1..captured') \ (1..captured) = {captured + 1}
  BY <1>1, <1>3
<1> PICK A : A = {}
  OBVIOUS
<1>7. flush' = flush /\ discarded' = discarded \cup A
  BY <1>1
<1>8. K \cap A = {} /\ K \cup A = Elements(kept[k]) \cup ((1..captured') \ (1..captured))
  BY <1>6
<1>9. UNCHANGED <<onchain, run, faults, atRisk, clientReady>>
  BY <1>1
<1>10. QED  BY <1>2, <1>4, <1>5, <1>7, <1>8, <1>9, MemoryPasses

LEMMA MemoryTakesStep ==
  ASSUME MemoryHas, Typed, NEW f \in Run, NEW w \in Proc, NEW x \in Context, UNCHANGED hookVars,
         \/ EndOpenClaw(f, w, x) \/ AgentEnds(f, w, x)
         \/ ModelAnswers(f, w)
  PROVE  MemoryHas'
<1> USE DEF MemoryHas
<1> PICK k \in Slot : k = <<w, x>>
  BY DEF Slot
<1>1. captured \in Nat /\ captured + 1 \in Nat /\ kept[k] \in Seq(Nat) /\ kept \in [Slot -> Seq(Nat)]
  BY DEF Typed
<1>2. Elements(kept[k]) \subseteq 1..captured /\ captured + 1 \notin Elements(kept[k])
  BY <1>1 DEF CallsExist
<1>3. (1..captured + 1) \ (1..captured) = {captured + 1}
  BY <1>1
<1>4. \E calls, K, A :
        /\ calls \in Seq(Nat)
        /\ Takes(f, w, calls) /\ Elements(calls) = A /\ Elements(kept'[k]) = K /\ K \cap A = {}
        /\ K \cup A = Elements(kept[k]) \cup ((1..captured') \ (1..captured))
        /\ captured' \in 0..MaxCalls[host] /\ captured <= captured'
        /\ \A j \in Slot \ {k} : kept'[j] = kept[j]
  <2>1. CASE EndOpenClaw(f, w, x)
    <3>1. /\ Takes(f, w, kept[k]) /\ kept' = [kept EXCEPT ![k] = <<>>] /\ captured' = captured
          /\ captured \in 0..MaxCalls[host]
      BY <2>1 DEF EndOpenClaw, FilesOK
    <3>2. /\ Elements(kept'[k]) = {} /\ \A j \in Slot \ {k} : kept'[j] = kept[j]
          /\ (1..captured') \ (1..captured) = {}
      BY <1>1, <3>1, ElementsOfNone
    <3>3. QED  BY <1>1, <3>1, <3>2
  <2>2. CASE AgentEnds(f, w, x)
    <3>1. /\ Takes(f, w, Append(kept[k], captured + 1)) /\ kept' = [kept EXCEPT ![k] = <<>>]
          /\ captured' = captured + 1 /\ captured < MaxCalls[host]
      BY <2>2 DEF AgentEnds
    <3>2. Elements(kept'[k]) = {} /\ \A j \in Slot \ {k} : kept'[j] = kept[j]
      BY <1>1, <3>1, ElementsOfNone
    <3>3. /\ Append(kept[k], captured + 1) \in Seq(Nat)
          /\ Elements(Append(kept[k], captured + 1)) = Elements(kept[k]) \cup {captured + 1}
      BY <1>1, ElementsOfAppend
    <3>4. captured' \in 0..MaxCalls[host] /\ captured <= captured'
      BY <1>1, <3>1, CapturedCallsAreBounded DEF FilesOK
    <3> PICK calls : calls = Append(kept[k], captured + 1)
      OBVIOUS
    <3> PICK A : A = Elements(calls)
      OBVIOUS
    <3>5. A = Elements(kept[k]) \cup ((1..captured') \ (1..captured))
      BY <1>3, <3>1, <3>3
    <3>6. {} \cap A = {} /\ {} \cup A = Elements(kept[k]) \cup ((1..captured') \ (1..captured))
      BY <3>5
    <3>7. Takes(f, w, calls) /\ calls \in Seq(Nat)
      BY <3>1, <3>3
    <3>8. QED  BY <3>2, <3>4, <3>6, <3>7
  <2>3. CASE ModelAnswers(f, w)
    <3>1. /\ Takes(f, w, <<captured + 1>>) /\ kept' = kept
          /\ captured' = captured + 1 /\ captured < MaxCalls[host]
      BY <2>3 DEF ModelAnswers
    <3>2. <<captured + 1>> \in Seq(Nat) /\ Elements(<<captured + 1>>) = {captured + 1}
      <4>1. captured + 1 \in Nat
        BY <1>1
      <4>2. QED  BY <4>1, ElementsOfOne
    <3>3. captured' \in 0..MaxCalls[host] /\ captured <= captured'
      BY <1>1, <3>1, CapturedCallsAreBounded DEF FilesOK
    <3>4. QED  BY <1>2, <1>3, <3>1, <3>2, <3>3
  <2>4. QED  BY <2>1, <2>2, <2>3
<1>5. PICK calls, K, A :
        /\ calls \in Seq(Nat)
        /\ Takes(f, w, calls) /\ Elements(calls) = A /\ Elements(kept'[k]) = K /\ K \cap A = {}
        /\ K \cup A = Elements(kept[k]) \cup ((1..captured') \ (1..captured))
        /\ captured' \in 0..MaxCalls[host] /\ captured <= captured'
        /\ \A j \in Slot \ {k} : kept'[j] = kept[j]
  BY <1>4
<1>6. /\ UNCHANGED <<onchain, run, faults, host, atRisk, clientReady>>
      /\ flush[f].stage = "none"
      /\ \/ flush' = flush /\ discarded' = discarded \cup Elements(calls)
         \/ /\ flush' = [flush EXCEPT ![f] = [stage |-> "client", proc |-> {w}, calls |-> calls,
                                              attempt |-> {}]]
            /\ discarded' = discarded
  BY <1>5 DEF Takes, recorderVars
<1>7. HookFrame
  BY <1>6 DEF HookFrame, hookVars
<1>8. \/ flush' = flush /\ discarded' = discarded \cup A
      \/ /\ flush[f].stage = "none" /\ flush'[f].stage = "client"
         /\ Elements(flush'[f].calls) = A
         /\ \A g \in Run \ {f} : flush'[g] = flush[g]
         /\ discarded' = discarded
  <2>1. CASE flush' = flush /\ discarded' = discarded \cup Elements(calls)
    BY <1>5, <2>1
  <2>2. CASE /\ flush' = [flush EXCEPT ![f] = [stage |-> "client", proc |-> {w}, calls |-> calls,
                                               attempt |-> {}]]
             /\ discarded' = discarded
    <3>1. /\ flush'[f] = [stage |-> "client", proc |-> {w}, calls |-> calls, attempt |-> {}]
          /\ \A g \in Run \ {f} : flush'[g] = flush[g]
      BY <2>2 DEF Typed
    <3>2. flush'[f].stage = "client" /\ flush'[f].calls = calls
      BY <3>1
    <3>3. QED  BY <1>5, <1>6, <2>2, <3>1, <3>2
  <2>3. QED  BY <1>6, <2>1, <2>2
<1>9. \/ flush' = flush /\ discarded' = discarded \cup A
      \/ \E g \in Run :
           /\ flush[g].stage = "none" /\ flush'[g].stage = "client"
           /\ Elements(flush'[g].calls) = A
           /\ \A h \in Run \ {g} : flush'[h] = flush[h]
           /\ discarded' = discarded
  BY <1>8
<1>10. UNCHANGED <<onchain, run, faults, atRisk, clientReady>>
  BY <1>6
<1>11. /\ captured' \in 0..MaxCalls[host] /\ captured <= captured'
       /\ Elements(kept'[k]) = K /\ K \cap A = {}
       /\ K \cup A = Elements(kept[k]) \cup ((1..captured') \ (1..captured))
       /\ \A j \in Slot \ {k} : kept'[j] = kept[j]
  BY <1>5
<1>12. QED  BY <1>7, <1>9, <1>10, <1>11, MemoryPasses

LEMMA MemoryCrashStep ==
  ASSUME MemoryHas, Typed, NEW w \in Proc, UNCHANGED hookVars, Crash(w)
  PROVE  MemoryHas'
<1> USE DEF MemoryHas
<1> PICK D : D = {f \in Run : w \in flush[f].proc}
  OBVIOUS
<1> PICK S : S = KeptBy(w) \cup UNION {Elements(flush[f].calls) : f \in D}
  OBVIOUS
<1>1. /\ UNCHANGED <<onchain, host, captured, discarded>> /\ Charge("lost")
      /\ kept' = [k \in Slot |-> IF k[1] = w THEN <<>> ELSE kept[k]]
      /\ clientReady' = clientReady \ {w}
      /\ flush' = [f \in Run |-> IF f \in D THEN [flush[f] EXCEPT !.stage = "dead"] ELSE flush[f]]
      /\ run' = [f \in Run |-> IF f \in D /\ run[f].stage \notin {"new", "exit"}
                               THEN [run[f] EXCEPT !.stage = "exit", !.result = "killed"] ELSE run[f]]
      /\ atRisk' = atRisk \cup (S \X {"abandoned"})
  BY DEF Crash, MayLose
<1>2. HookFrame
  BY <1>1 DEF HookFrame, hookVars
<1>3. S \subseteq 1..captured
  BY DEF CallsExist, KeptBy, Slot
<1>4. /\ atRisk' \subseteq (1..captured') \X Reason /\ atRisk \subseteq atRisk'
      /\ \A c \in S : <<c, "abandoned">> \in atRisk'
  BY <1>1, <1>3, GivesUp
<1>5. faults' \in 0..MaxFaults /\ RecorderInv
  BY <1>1, ChargeOK DEF MemoryInv, RecorderInv, RunsOK
<1>6. /\ RecorderInv'
      /\ \A q \in Run : run'[q].calls = run[q].calls /\ (run'[q].stage = "new" <=> run[q].stage = "new")
  BY <1>1, <1>5, RunsKilled
<1>7. \A k \in Slot : /\ Elements(kept'[k]) \subseteq Elements(kept[k])
                      /\ kept'[k] = kept[k] \/ Elements(kept[k]) \subseteq S
  <2> TAKE k \in Slot
  <2>1. CASE k[1] = w
    <3>1. kept'[k] = <<>>
      BY <1>1, <2>1
    <3>2. PICK x \in Context : k = <<w, x>>
      BY <2>1 DEF Slot
    <3>3. Elements(kept[k]) \subseteq KeptBy(w)
      BY <3>2 DEF KeptBy
    <3>4. QED  BY <3>1, <3>3, ElementsOfNone
  <2>2. CASE k[1] # w
    BY <1>1, <2>2
  <2>3. QED  BY <2>1, <2>2
<1>8. \A f \in Run : /\ flush'[f].calls = flush[f].calls
                     /\ f \in D => flush'[f].stage = "dead"
                     /\ f \notin D => flush'[f] = flush[f]
  <2> TAKE f \in Run
  <2>1. flush[f] \in FlushState
    BY DEF Typed
  <2>2. CASE f \in D
    <3>1. flush'[f] = [flush[f] EXCEPT !.stage = "dead"]
      BY <1>1, <2>2
    <3>2. QED  BY <2>1, <2>2, <3>1 DEF FlushState
  <2>3. CASE f \notin D
    BY <1>1, <2>3
  <2>4. QED  BY <2>2, <2>3
<1>9. CallsExist'
  BY <1>1, <1>6, <1>7, <1>8 DEF CallsExist, Sent
<1>10. MemoryInv'
  <2>1. ASSUME NEW f \in Run PROVE FlushRun(f)'
    <3>1. FlushRun(f)
      BY DEF MemoryInv
    <3>2. QED  BY <1>6, <1>8, <3>1 DEF FlushRun
  <2>2. InMemoryOnce'
    BY <1>7, <1>8 DEF MemoryInv, InMemoryOnce
  <2>3. QED  BY <1>6, <2>1, <2>2 DEF MemoryInv
<1>11. ASSUME NEW c, WithMemory(c) PROVE Accounted(c)'
  <2>1. CASE c \in S
    BY <1>1, <1>4, <2>1, MemoryCauses DEF Accounted
  <2>2. ASSUME NEW k \in Slot, c \in Elements(kept[k]), c \notin S PROVE Accounted(c)'
    <3>1. kept'[k] = kept[k]
      BY <1>7, <2>2
    <3>2. QED  BY <2>2, <3>1 DEF Accounted, UnderWay
  <2>3. ASSUME NEW f \in Run, flush[f].stage \notin {"done", "dead"}, c \in Elements(flush[f].calls),
               c \notin S
        PROVE  Accounted(c)'
    <3>1. flush'[f] = flush[f]
      BY <1>8, <2>3
    <3>2. QED  BY <2>3, <3>1 DEF Accounted, UnderWay
  <2>4. QED  BY <1>11, <2>1, <2>2, <2>3 DEF WithMemory
<1>12. \A c : OnChain(c)' <=> OnChain(c)
  BY <1>1 DEF OnChain, Holds
<1>13. captured \in Nat /\ captured' \in 0..MaxCalls[host] /\ discarded' \subseteq 1..captured'
       /\ clientReady' \subseteq Proc
  <2>1. /\ captured' = captured /\ discarded' = discarded /\ host' = host
        /\ clientReady' \subseteq clientReady
    BY <1>1
  <2>2. QED  BY <2>1 DEF FilesOK
<1>14. captured <= captured' /\ discarded \subseteq discarded'
  <2>1. captured' = captured /\ discarded' = discarded
    BY <1>1
  <2>2. captured \in Nat
    BY <1>13
  <2>3. QED  BY <2>1, <2>2
<1>15. \A c \in 1..captured' : c \notin 1..captured \/ WithMemory(c) => Accounted(c)'
  <2>1. captured' = captured
    BY <1>1
  <2>2. SUFFICES ASSUME NEW c \in 1..captured', c \notin 1..captured \/ WithMemory(c)
                 PROVE  Accounted(c)'
    OBVIOUS
  <2>3. WithMemory(c)
    BY <2>1, <2>2
  <2>4. QED  BY <1>11, <2>3
<1>16. QED  BY <1>2, <1>4, <1>9, <1>10, <1>12, <1>13, <1>14, <1>15, MemoryMoves

\* A run that throws: what its context has is gone, for the reason Sdk admits.
LEMMA MemoryErrorsStep ==
  ASSUME MemoryHas, Typed, NEW w \in Proc, NEW x \in Context, UNCHANGED hookVars, RunErrors(w, x)
  PROVE  MemoryHas'
<1> USE DEF MemoryHas
<1> PICK k \in Slot : k = <<w, x>>
  BY DEF Slot
<1> PICK S : S = Elements(kept[k])
  OBVIOUS
<1>1. /\ UNCHANGED <<onchain, run, faults, host, captured, discarded, clientReady, flush>>
      /\ kept' = [kept EXCEPT ![k] = <<>>]
      /\ atRisk' = atRisk \cup (S \X {"errored"})
      /\ Sdk
  BY DEF RunErrors, MayLose, recorderVars
<1>2. HookFrame
  BY <1>1 DEF HookFrame, hookVars
<1>3. S \subseteq 1..captured
  BY DEF CallsExist
<1>4. /\ Elements(kept'[k]) = {} /\ \A j \in Slot \ {k} : kept'[j] = kept[j]
      /\ \A j \in Slot : Elements(kept'[j]) \subseteq Elements(kept[j])
  BY <1>1, ElementsOfNone DEF Typed
<1>5. /\ atRisk' \subseteq (1..captured') \X Reason /\ atRisk \subseteq atRisk'
      /\ \A c \in S : <<c, "errored">> \in atRisk'
  BY <1>1, <1>3 DEF FilesOK, Reason
<1>6. "errored" \in MayBeLostTo'
  <2>1. ~Claude' /\ ~Codex' /\ Sdk'
    BY <1>1 DEF Claude, Codex, Sdk
  <2>2. QED  BY <2>1 DEF MayBeLostTo
<1>7. CallsExist'
  BY <1>1, <1>4 DEF CallsExist, Sent
<1>8. MemoryInv'
  <2>1. RecorderInv'
    <3>1. faults' \in 0..MaxFaults
      BY <1>1 DEF MemoryInv, RecorderInv, RunsOK
    <3>2. QED  BY <1>1, <3>1, RunsAlone DEF MemoryInv
  <2>2. \A f \in Run : FlushRun(f)'
    BY <1>1 DEF MemoryInv, FlushRun
  <2>3. InMemoryOnce'
    BY <1>1, <1>4 DEF MemoryInv, InMemoryOnce
  <2>4. QED  BY <2>1, <2>2, <2>3 DEF MemoryInv
<1>9. ASSUME NEW c, WithMemory(c) PROVE Accounted(c)'
  <2>1. CASE c \in S
    BY <1>5, <1>6, <2>1 DEF Accounted
  <2>2. ASSUME NEW j \in Slot, c \in Elements(kept[j]), c \notin S PROVE Accounted(c)'
    <3>1. kept'[j] = kept[j]
      BY <1>4, <2>2
    <3>2. QED  BY <2>2, <3>1 DEF Accounted, UnderWay
  <2>3. CASE \E f \in Run : flush[f].stage \notin {"done", "dead"} /\ c \in Elements(flush[f].calls)
    BY <1>1, <2>3 DEF Accounted, UnderWay
  <2>4. QED  BY <1>9, <2>1, <2>2, <2>3 DEF WithMemory
<1>10. \A c : OnChain(c)' <=> OnChain(c)
  BY <1>1 DEF OnChain, Holds
<1>11. /\ captured \in Nat /\ captured' \in 0..MaxCalls[host] /\ discarded' \subseteq 1..captured'
       /\ clientReady' \subseteq Proc
  BY <1>1 DEF FilesOK
<1>12. captured <= captured' /\ discarded \subseteq discarded'
  BY <1>1, <1>11
<1>13. \A c \in 1..captured' : c \notin 1..captured \/ WithMemory(c) => Accounted(c)'
  BY <1>1, <1>9
<1>14. QED  BY <1>2, <1>5, <1>7, <1>8, <1>10, <1>11, <1>12, <1>13, MemoryMoves

LEMMA MemoryStep ==
  ASSUME MemoryHas, Typed, InProcessStep, UNCHANGED hookVars
  PROVE  MemoryHas'
<1>1. CASE \E w \in Proc, x \in Context : RecordOpenClaw(w, x) \/ ToolStarts(w, x)
  BY <1>1, MemoryKeepsStep
<1>2. CASE \E w \in Proc : Crash(w)
  BY <1>2, MemoryCrashStep
<1>3. CASE \/ \E f \in Run, w \in Proc, x \in Context : EndOpenClaw(f, w, x) \/ AgentEnds(f, w, x)
           \/ \E f \in Run, w \in Proc : ModelAnswers(f, w)
  BY <1>3, ContextsExist, MemoryTakesStep
<1>4. CASE \/ \E f \in Run, o \in {"ok", "refused"} : GetClient(f, o)
           \/ \E f \in Run, a \in Attempt : GetTarget(f, a)
           \/ \E f \in Run : TargetFails(f)
  BY <1>4, MemoryResolvesStep
<1>5. CASE \E f \in Run : TargetResolves(f)
  BY <1>5, MemoryStartsStep
<1>6. CASE \E f \in Run : RecordStep(f)
  BY <1>6, MemoryRecordsStep
<1>7. CASE \E f \in Run : RecordReturns(f)
  BY <1>7, MemoryReturnsStep
<1>8. CASE /\ \/ \E w \in Proc : ReadWallet(w) \/ SaveWallet(w)
              \/ \E a \in Attempt, o \in Outcome : CreateNamespace(a, o) \/ ShareReadWrite(a, o)
              \/ \E a \in Attempt : SaveTarget(a)
           /\ UNCHANGED <<captureVars, inProcessVars>>
  BY <1>8, MemoryProvisionsStep
<1>9. CASE \E w \in Proc, x \in Context : RunErrors(w, x)
  BY <1>9, MemoryErrorsStep
<1>10. QED  BY <1>1, <1>2, <1>3, <1>4, <1>5, <1>6, <1>7, <1>8, <1>9 DEF InProcessStep

-----------------------------------------------------------------------------
(***************************************************************************)
(* All recorders.                                                          *)
(***************************************************************************)
LEMMA CallsStay ==
  ASSUME ClaudeHas \/ CodexHas \/ MemoryHas,
         UNCHANGED <<recorderVars, captureVars, hookVars, inProcessVars>>
  PROVE  ClaudeHas' \/ CodexHas' \/ MemoryHas'
<1>1. UNCHANGED <<onchain, run, faults, host, captured, discarded, atRisk, state, buffer, observing,
                  inject, summary, unconfirmed, kept, clientReady, memo, flush>>
  BY DEF recorderVars, captureVars, hookVars, inProcessVars
<1>2. /\ BufferedCalls' = BufferedCalls
      /\ \A p, c : Holds(p, c)' <=> Holds(p, c)
      /\ \A c : OnChain(c)' <=> OnChain(c)
      /\ \A p \in Run : Sent(p)' = Sent(p)
  BY <1>1 DEF BufferedCalls, Holds, OnChain, Sent
<1>3. LossHasCause => LossHasCause'
  BY <1>1, <1>2 DEF LossHasCause, UnderWay, MayBeLostTo, Claude, Codex, Sdk
<1>4. (FilesOK => FilesOK') /\ (CallsExist => CallsExist')
  BY <1>1, <1>2 DEF FilesOK, CallsExist
<1>5. (ReadCalls => ReadCalls') /\ (Apart => Apart')
  BY <1>1, <1>2 DEF ReadCalls, Apart, Codex
<1>6. RunsOK => RunsOK'
  BY <1>1 DEF RunsOK
<1>7. RecorderInv => RecorderInv'
  BY <1>1, RunsAlone DEF RecorderInv, RunsOK
<1>8. ClaudeInv => ClaudeInv'
  <2>1. ClaudeSummary => ClaudeSummary'
    BY <1>1 DEF ClaudeSummary
  <2>2. Progress => Progress'
    BY <1>1, <1>2 DEF Progress, InHand, Written
  <2>3. (Fresh => Fresh') /\ (Once => Once') /\ (ChainIsCaptured => ChainIsCaptured')
    BY <1>1, <1>2 DEF Fresh, Once, ChainIsCaptured
  <2>4. QED  BY <1>1, <2>1, <2>2, <2>3 DEF ClaudeInv
<1>9. CodexInv => CodexInv'
  <2>1. CodexSummary => CodexSummary'
    BY <1>1 DEF CodexSummary
  <2>2. (Flushing => Flushing') /\ (SentOnce => SentOnce')
    BY <1>1, <1>2 DEF Flushing, SentOnce, Current, Sent
  <2>3. QED  BY <1>1, <1>7, <2>1, <2>2 DEF CodexInv
<1>10. MemoryInv => MemoryInv'
  BY <1>1, <1>7 DEF MemoryInv, FlushRun, InMemoryOnce
<1>11. (Claude' <=> Claude) /\ (Codex' <=> Codex)
  BY <1>1 DEF Claude, Codex
<1>12. QED
  BY <1>3, <1>4, <1>5, <1>6, <1>8, <1>9, <1>10, <1>11 DEF ClaudeHas, CodexHas, MemoryHas

LEMMA LossStepInv == LossInv /\ [Next]_vars => LossInv'
<1> SUFFICES ASSUME LossInv, [Next]_vars PROVE LossInv'
  OBVIOUS
<1>1. LocalInv'
  BY LocalStepInv DEF LossInv
<1>2. CASE EditControls \/ UNCHANGED vars
  <2>1. UNCHANGED <<recorderVars, captureVars, hookVars, inProcessVars>>
    BY <1>2 DEF EditControls, vars
  <2>2. QED  BY <1>1, <2>1, CallsStay DEF LossInv
<1>3. CASE HooksOfHost
  <2>1. (Claude \/ Codex) /\ HookStep /\ UNCHANGED inProcessVars
    BY <1>3 DEF HooksOfHost
  <2>2. ClaudeHas \/ CodexHas
    BY <2>1 DEF LossInv, MemoryHas
  <2>3. QED  BY <1>1, <2>1, <2>2, ClaudeStep, CodexStep DEF LossInv
<1>4. CASE InProcessOfHost
  <2>1. (OpenClaw \/ Sdk) /\ InProcessStep /\ UNCHANGED hookVars
    BY <1>4 DEF InProcessOfHost
  <2>2. MemoryHas
    BY <2>1 DEF LossInv, ClaudeHas, CodexHas, Claude, Codex, OpenClaw, Sdk
  <2>3. QED  BY <1>1, <2>1, <2>2, MemoryStep DEF LossInv, LocalInv
<1>5. QED  BY <1>2, <1>3, <1>4 DEF Next

LEMMA LossAlways == Spec => []LossInv
BY LossInitInv, LossStepInv, PTL DEF Spec

\* The controls' file stays one as long as the host has an entry in it.
LEMMA ControlsStay ==
  ASSUME ControlsTypeOK, host \in Host, [Next]_vars
  PROVE  ControlsTypeOK'
<1> USE DEF ControlsTypeOK
<1>1. CASE UNCHANGED controlVars
  BY <1>1 DEF controlVars
<1>2. ASSUME NEW e \in Edit, NEW w \in Process, NEW patch \in HostPatch, BeginEdit(e, w, host, patch)
      PROVE  ControlsTypeOK'
  <2> PICK r : r = host
    OBVIOUS
  <2>1. r \in Runtime /\ patch \in Patch
    BY HostsAreRuntimes, HostPatchIsPatch
  <2>2. /\ UNCHANGED <<controls, intended, raced>>
        /\ \/ edit' = [edit EXCEPT ![e] = [stage |-> "read", process |-> w, runtime |-> r,
                                           patch |-> patch, seen |-> controls.runtimes]]
           \/ edit' = [edit EXCEPT ![e] = [stage |-> "failed", process |-> w, runtime |-> r,
                                           patch |-> patch]]
    BY <1>2 DEF BeginEdit
  <2>3. controls.runtimes \in [Runtime -> Control]
    OBVIOUS
  <2>4. [stage |-> "read", process |-> w, runtime |-> r, patch |-> patch,
         seen |-> controls.runtimes] \in EditState
    BY <2>1, <2>3 DEF EditState
  <2>5. [stage |-> "failed", process |-> w, runtime |-> r, patch |-> patch] \in EditState
    BY <2>1 DEF EditState
  <2>6. edit' \in [Edit -> EditState]
    BY <2>2, <2>4, <2>5
  <2>7. QED  BY <2>2, <2>6
<1>3. ASSUME NEW e \in Edit, CommitEdit(e) PROVE ControlsTypeOK'
  <2> PICK d : d = edit[e]
    OBVIOUS
  <2>1. /\ d.stage = "read" /\ d.process \in Process /\ d.runtime \in Runtime /\ d.patch \in Patch
        /\ d.seen \in [Runtime -> Control]
    BY <1>3 DEF CommitEdit, EditState, NoEdit
  <2> PICK next : next = Patched(d.seen[d.runtime], d.patch)
    OBVIOUS
  <2>2. ASSUME NEW c \in Control PROVE Patched(c, d.patch) \in Control
    BY <2>1 DEF Patched, Control, Patch
  <2>3. next \in Control
    BY <2>1, <2>2
  <2>4. /\ controls' = [readable |-> TRUE, runtimes |-> [d.seen EXCEPT ![d.runtime] = next]]
        /\ edit' = [edit EXCEPT ![e] = [stage |-> "done", process |-> d.process,
                                        runtime |-> d.runtime, patch |-> d.patch, answer |-> next]]
        /\ intended' = [intended EXCEPT ![d.runtime] = Patched(@, d.patch)]
        /\ raced' = raced \cup {g \in Edit \ {e} : edit[g].stage = "read"}
    BY <1>3 DEF CommitEdit
  <2>5. controls' \in [readable : BOOLEAN, runtimes : [Runtime -> Control]]
    BY <2>1, <2>3, <2>4
  <2>6. [stage |-> "done", process |-> d.process, runtime |-> d.runtime, patch |-> d.patch,
         answer |-> next] \in EditState
    BY <2>1, <2>3 DEF EditState
  <2>7. edit' \in [Edit -> EditState]
    BY <2>4, <2>6
  <2>8. intended' \in [Runtime -> Control]
    BY <2>1, <2>2, <2>4
  <2>9. QED  BY <2>4, <2>5, <2>7, <2>8
<1>4. CASE BreakFile
  BY <1>4 DEF BreakFile
<1>5. ASSUME NEW e \in Edit, FailEdit(e) PROVE ControlsTypeOK'
  <2>1. [stage |-> "failed", process |-> edit[e].process, runtime |-> edit[e].runtime,
         patch |-> edit[e].patch] \in EditState
    BY <1>5 DEF FailEdit, EditState, NoEdit
  <2>2. QED  BY <1>5, <2>1 DEF FailEdit
<1>6. CASE EditControls
  BY <1>2, <1>3, <1>4, <1>5, <1>6 DEF EditControls
<1>7. HooksOfHost => UNCHANGED controlVars
  BY DEF HooksOfHost, HookStep, Arm, InjectBegins, InjectSaves, StopBegins, InjectOpens,
         ClaudeObserves, CodexObserves, Observe, ObserveAppends, ClaudeSummaryReads,
         ClaudeSummaryDisabled, ClaudeSummaryBegins, StopReads, ClaudeDrains, ClaudeAppends,
         ClaudeCloses, ClaudeEnds, StopDisabled, SummaryDisabled, StopEmpty, CliStep, StopReturns,
         InjectKilled, SummaryKilled
<1>8. InProcessOfHost => UNCHANGED controlVars
  BY DEF InProcessOfHost, InProcessStep, RecordOpenClaw, ToolStarts, Keep, RunErrors, Crash,
         EndOpenClaw, AgentEnds, ModelAnswers, Takes, GetClient, GetTarget, TargetFails,
         TargetResolves, RecordStep, RecordReturns
<1>9. QED  BY <1>1, <1>6, <1>7, <1>8 DEF Next, vars

-----------------------------------------------------------------------------
\* For any number of hooks, flushes, edits, failures and kills, a captured call is under
\* way, on chain, discarded by the controls, or its recorder ran a hazard it is known for:
\* an append while a summary ran, a line not whole, or a flush that failed or was killed
\* (summarize.js 22-97 of both plugins, onemem-trace.ts 137-181, runtime.ts 369-396).
THEOREM CallsAreAccounted == Spec => []LossHasCause
<1>1. LossInv => LossHasCause
  BY DEF LossInv, ClaudeHas, CodexHas, MemoryHas
<1>2. QED  BY <1>1, LossAlways, PTL

\* For any number of sessions, a call is in two of them only if Codex ran the CLI again
\* after a run it had not seen succeed (summarize.js 82-85 of plugin-codex).
THEOREM NothingTwice == Spec => []RecordedOnce
<1>1. LossInv => RecordedOnce
  <2> SUFFICES ASSUME LossInv, NEW p \in Run, NEW q \in Run, NEW c \in 1..captured,
                      Holds(p, c), Holds(q, c), p # q
               PROVE  Codex /\ (p \in unconfirmed \/ q \in unconfirmed)
    BY DEF RecordedOnce
  <2>1. ~ClaudeHas
    BY DEF ClaudeHas, ClaudeInv, Once
  <2>2. CASE CodexHas
    <3>1. c \in Sent(p) /\ c \in Sent(q)
      BY <2>2, HeldIsSent DEF CodexHas, CodexInv
    <3>2. QED  BY <2>2, <3>1 DEF CodexHas, CodexInv, SentOnce
  <2>3. ~MemoryHas
    <3> SUFFICES ASSUME MemoryHas PROVE FALSE
      OBVIOUS
    <3>1. RecorderInv /\ c \in Sent(p) /\ c \in Sent(q)
      BY HeldIsSent DEF MemoryHas, MemoryInv
    <3>2. \A r \in Run : r \in DOMAIN onchain => run[r].stage # "new"
      BY <3>1 DEF RecorderInv, RunIsWhereItSays, WhereItSays
    <3>3. run[p].stage # "new" /\ run[q].stage # "new"
      BY <3>2 DEF Holds
    <3>4. run[p].calls = flush[p].calls /\ run[q].calls = flush[q].calls
      BY <3>3 DEF MemoryHas, MemoryInv, FlushRun
    <3>5. QED  BY <3>1, <3>4 DEF MemoryHas, MemoryInv, InMemoryOnce, Sent
  <2>4. QED  BY <2>1, <2>2, <2>3 DEF LossInv
<1>2. QED  BY <1>1, LossAlways, PTL

\* For any host, the session files, the calls in memory, the runs and the controls are
\* what their readers take them for (onemem-lib.mjs, onemem-trace.ts, runtime.ts,
\* runtime-controls.ts).
THEOREM LocalTypes == Spec => []LocalTypeOK
<1>1. Init => ControlsTypeOK
  <2> SUFFICES ASSUME Init PROVE ControlsTypeOK
    OBVIOUS
  <2>1. Defaults \in [Runtime -> Control]
    BY DEF Defaults, DefaultControl, Control
  <2>2. NoEdit \in EditState
    BY DEF EditState
  <2>3. QED  BY <2>1, <2>2 DEF Init, ControlsInit, ControlsTypeOK
<1>2. LossInv => host \in Host
  BY DEF LossInv, ClaudeHas, CodexHas, MemoryHas, FilesOK
<1>3. ControlsTypeOK /\ LossInv /\ [Next]_vars => ControlsTypeOK'
  BY <1>2, ControlsStay
<1>4. LossInv /\ ControlsTypeOK => LocalTypeOK
  <2> SUFFICES ASSUME LossInv, ControlsTypeOK PROVE LocalTypeOK
    OBVIOUS
  <2>1. FilesOK /\ RunsOK /\ CallsExist /\ Typed
    BY DEF LossInv, ClaudeHas, CodexHas, CodexInv, MemoryHas, MemoryInv, RecorderInv, LocalInv
  <2>2. buffer \in [calls : Seq(1..captured), bad : BOOLEAN, cut : BOOLEAN]
    <3>1. buffer.calls \in Seq(Nat) /\ Elements(buffer.calls) \subseteq 1..captured
      BY <2>1 DEF FilesOK, BufferedCalls
    <3>2. buffer.calls \in Seq(1..captured)
      BY <3>1, OfElements
    <3>3. QED  BY <2>1, <3>2 DEF FilesOK
  <2>3. kept \in [Slot -> Seq(1..captured)]
    <3>1. ASSUME NEW k \in Slot PROVE kept[k] \in Seq(1..captured)
      BY <2>1, OfElements DEF CallsExist, Typed
    <3>2. QED  BY <2>1, <3>1 DEF Typed
  <2>4. ProvisioningTypeOK
    <3>1. AttemptState \subseteq [stage : {"none", "create", "share", "save", "ready", "failed"},
                                  proc : SUBSET Proc, result : SUBSET Attempt]
      BY DEF AttemptState, Single
    <3>2. capOwner \in [Attempt -> SUBSET Proc]
      BY <2>1 DEF Typed, Single
    <3>3. QED  BY <2>1, <3>1, <3>2 DEF Typed, Single, ProvisioningTypeOK
  <2>5. /\ run \in [Run -> RunState] /\ faults \in 0..MaxFaults
        /\ DOMAIN onchain \subseteq Run /\ \A p \in DOMAIN onchain : onchain[p] \in SessionState
    BY <2>1 DEF RunsOK
  <2>6. memo \in [Proc -> {{}} \cup {{a} : a \in Attempt}]
    BY <2>1 DEF Typed
  <2>7. QED  BY <2>1, <2>2, <2>3, <2>4, <2>5, <2>6 DEF FilesOK, LocalTypeOK
<1>5. QED  BY <1>1, <1>3, <1>4, LossAlways, PTL DEF Spec
=============================================================================
