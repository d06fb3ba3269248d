------------------------ MODULE HostedOnboardingProofs ------------------------
(*****************************************************************************)
(* Proofs about the hosted onboarding and the CLI's login, for any number of *)
(* accounts, runs of the onboarding, approvals, switches and failures.       *)
(*                                                                           *)
(* RememberedIsComplete rests on the order of the two transactions: the      *)
(* ReadWrite capability is the last thing a run makes (FlowsOnChain).        *)
(* CredentialsAreTrue rests on the page loading the namespace for the        *)
(* account it looks up (PageIsCurrent), PairedMeansSettled on every callback *)
(* that lost being known to have lost (CallbacksCounted).                    *)
(*****************************************************************************)
EXTENDS HostedOnboarding, TLAPS

FlowState == [stage : Stages \cup {"done", "failed"}, sender : OneAccount, action : Actions]
ApprovalState ==
  [stage : {"register", "post", "posted", "accepted", "rejected", "done", "failed"},
   suiAddress : OneAccount, accountId : OneAccount, namespace : SUBSET Flow]

\* Before the user turns to the login page, nothing of a login has happened.
NothingYet ==
  ~open =>
    /\ lookup = {} /\ looking = {} /\ hosted = {} /\ creating = {} /\ registered = {}
    /\ validating = {} /\ beaten = {} /\ claimed = {}
    /\ approval = [d \in Delegate |-> NoApproval]
    /\ cli = [server |-> "open", settled |-> {}]
    /\ file = "missing"

\* A run that may still go on has not made its ReadWrite capability, and one that is about
\* to has made its namespace.
FlowsOnChain ==
  /\ open => flow = [f \in Flow |-> NoFlow]
  /\ ~open => \A f \in Flow :
       /\ flow[f].stage \in Stages \cup {"none"} => rwOwner[f] = {}
       /\ Running(f) /\ flow[f].action = "rw-cap-mint" => nsAdmin[f] = flow[f].sender

RememberedOnChain ==
  \A s \in remembered :
    nsAdmin[s.namespace] = s.suiAddress /\ rwOwner[s.namespace] = s.suiAddress

\* What the login page shows is one lookup, made for the account connected now or over; and
\* the namespace next to an address is that address's.
PageIsCurrent ==
  /\ \A l, m \in lookup : l = m
  /\ open => looking \in {{}, account}
  /\ \A n \in hosted : rwOwner[n] = account
  /\ \A d \in Delegate : approval[d].stage # "none" =>
       \A n \in approval[d].namespace : rwOwner[n] = approval[d].suiAddress

\* Every callback is under validation, or has settled the login, or was beaten to it.
CallbacksCounted ==
  /\ \A d \in validating : approval[d].stage = "posted"
  /\ \A d \in Delegate : approval[d].stage = "accepted" => d \in cli.settled \cup beaten
  /\ claimed \subseteq cli.settled \cup beaten
  /\ cli.server = "closed" => validating \subseteq beaten
  /\ cli.settled # {} => cli.server = "closed"
  /\ file # "missing" => cli.settled # {}

SettledIsValid ==
  /\ \A c, d \in cli.settled : c = d
  /\ \A d \in cli.settled : approval[d].stage # "none" /\ Valid(d)
  /\ \A r \in registered : r.sender = r.accountId

HostedInv == /\ HostedTypeOK
             /\ NothingYet
             /\ FlowsOnChain
             /\ RememberedOnChain
             /\ PageIsCurrent
             /\ CallbacksCounted
             /\ SettledIsValid

LEMMA HostedInitInv == Init => HostedInv
<1> SUFFICES ASSUME Init PROVE HostedInv
  OBVIOUS
<1> USE DEF Init, ProvisionInit, LoginInit
<1>1. HostedTypeOK
  <2>1. ProvisionTypeOK
    BY SwitchesAndFailuresAreBounded DEF ProvisionTypeOK, OptionalAccount
  <2>2. approval \in [Delegate -> {NoApproval} \cup ApprovalState]
    OBVIOUS
  <2>3. QED  BY <2>1, <2>2 DEF HostedTypeOK, ApprovalState, OptionalAccount
<1>2. NothingYet
  BY DEF NothingYet
<1>3. FlowsOnChain /\ RememberedOnChain
  BY DEF FlowsOnChain, RememberedOnChain, Running, Stages, NoFlow
<1>4. PageIsCurrent /\ CallbacksCounted /\ SettledIsValid
  BY DEF PageIsCurrent, CallbacksCounted, SettledIsValid, NoApproval
<1>5. QED  BY <1>1, <1>2, <1>3, <1>4 DEF HostedInv

-----------------------------------------------------------------------------
(***************************************************************************)
(* Onboarding.                                                             *)
(***************************************************************************)
\* A run under way is one that was started, with a sender and an action.
LEMMA RunningIsTyped ==
  ASSUME ProvisionTypeOK, NEW f \in Flow, Running(f)
  PROVE  flow[f] \in FlowState
BY DEF ProvisionTypeOK, Running, FlowState, NoFlow, Stages

\* What a run posts is a request the server takes and its limits allow, to its sender.
LEMMA PostedIsTaken ==
  ASSUME NEW f \in Flow, flow[f] \in FlowState
  PROVE  /\ ValidRequest(Posted(f)) /\ RequestFits(Posted(f))
         /\ MoveCall(Posted(f)).to = flow[f].sender
<1> DEFINE input == Posted(f)
<1>1. flow[f].sender # {} /\ flow[f].action \in Actions
  BY DEF FlowState, OneAccount
<1>2. CASE flow[f].action = "namespace-create"
  <2>1. input = [action |-> "namespace-create", sender |-> flow[f].sender, recipient |-> {},
                 namespaceId |-> {}, adminCapId |-> {}, capId |-> {}, capKind |-> {}]
    BY <1>2 DEF Posted
  <2>2. ValidRequest(input)
    BY <1>1, <2>1 DEF ValidRequest, SponsoredAction, Minting
  <2>3. MoveCall(input) = [function |-> "create", object |-> {}, to |-> flow[f].sender]
    BY <2>1 DEF MoveCall
  <2>4. RequestFits(input)
    <3>1. MoveTarget(input.action) = "create"
      BY <2>1 DEF MoveTarget
    <3>2. ExpectedTypes(input.action) = CreatedTypes("create")
      BY <2>1 DEF ExpectedTypes, CreatedTypes
    <3>3. Limits(input).targets = {"create"} /\ flow[f].sender \subseteq Limits(input).addresses
      BY <2>1, <3>1 DEF Limits
    <3>4. /\ MoveCall(input).function = "create"
          /\ MoveCall(input).to = flow[f].sender /\ MoveCall(input).object = {}
      BY <2>3
    <3>5. QED  BY <3>2, <3>3, <3>4 DEF RequestFits, FindsCreated
  <2>5. QED  BY <2>2, <2>3, <2>4
<1>3. CASE flow[f].action = "rw-cap-mint"
  <2>1. input = [action |-> "rw-cap-mint", sender |-> flow[f].sender, recipient |-> {},
                 namespaceId |-> {f}, adminCapId |-> {f}, capId |-> {}, capKind |-> {}]
    BY <1>3 DEF Posted
  <2>2. ValidRequest(input)
    BY <1>1, <2>1 DEF ValidRequest, SponsoredAction, Minting
  <2>3. MoveCall(input) = [function |-> "mint_capability_readwrite", object |-> {f},
                           to |-> flow[f].sender]
    BY <2>1 DEF MoveCall, CapabilityMintFunction, RecipientOf
  <2>4. RequestFits(input)
    <3>1. MoveTarget(input.action) = "mint_capability_readwrite"
      BY <2>1 DEF MoveTarget, CapabilityMintFunction
    <3>2. ExpectedTypes(input.action) = CreatedTypes("mint_capability_readwrite")
      BY <2>1 DEF ExpectedTypes, CreatedTypes, ActionKind
    <3>3. Limits(input).targets = {"mint_capability_readwrite"} /\ flow[f].sender \subseteq Limits(input).addresses
      BY <2>1, <3>1 DEF Limits
    <3>4. /\ MoveCall(input).function = "mint_capability_readwrite"
          /\ MoveCall(input).to = flow[f].sender /\ MoveCall(input).object = {f}
      BY <2>3
    <3>5. QED  BY <3>2, <3>3, <3>4 DEF RequestFits, FindsCreated
  <2>5. QED  BY <2>2, <2>3, <2>4
<1>4. QED  BY <1>1, <1>2, <1>3 DEF Actions

LEMMA InvMeansComplete == HostedInv => RememberedIsComplete
<1> SUFFICES ASSUME HostedInv PROVE RememberedIsComplete
  OBVIOUS
<1>1. ASSUME NEW f \in Flow, Running(f)
      PROVE  /\ ValidRequest(Posted(f)) /\ RequestFits(Posted(f))
             /\ MoveCall(Posted(f)).to = flow[f].sender
  BY <1>1, RunningIsTyped, PostedIsTaken DEF HostedInv, HostedTypeOK
<1>2. QED  BY <1>1 DEF RememberedIsComplete, HostedInv, RememberedOnChain

\* The parts of the invariant about the login, as long as there is none.
LEMMA NoLoginYet ==
  ASSUME HostedInv, ~open, UNCHANGED loginVars, ProvisionTypeOK', FlowsOnChain',
         RememberedOnChain'
  PROVE  HostedInv'
<1> USE DEF loginVars
<1>1. NothingYet'
  BY DEF HostedInv, NothingYet
<1>2. HostedTypeOK'
  BY DEF HostedInv, HostedTypeOK
<1>3. PageIsCurrent'
  BY <1>1 DEF NothingYet, PageIsCurrent, NoApproval
<1>4. CallbacksCounted' /\ SettledIsValid'
  BY <1>1 DEF NothingYet, CallbacksCounted, SettledIsValid, NoApproval
<1>5. QED  BY <1>1, <1>2, <1>3, <1>4 DEF HostedInv

\* A step of one run that puts it in another state and makes nothing on chain.
LEMMA FlowMoves ==
  ASSUME HostedInv, ~open, UNCHANGED loginVars, NEW f \in Flow, NEW s \in FlowState,
         flow' = [flow EXCEPT ![f] = s],
         s.stage \in Stages => flow[f].stage \in Stages \cup {"none"},
         s.stage \in Stages /\ s.action = "rw-cap-mint" =>
           flow[f].stage \in Stages /\ flow[f].action = "rw-cap-mint" /\ flow[f].sender = s.sender,
         account' \in OptionalAccount, mounted' \subseteq Flow,
         switches' \in 0..MaxSwitches, failures' \in 0..MaxFailures,
         UNCHANGED <<nsAdmin, rwOwner, remembered>>
  PROVE  HostedInv'
<1>1. ProvisionTypeOK'
  BY DEF HostedInv, HostedTypeOK, ProvisionTypeOK, FlowState
<1>2. s.stage # "none"
  BY DEF FlowState, Stages
<1>3. flow'[f] = s /\ \A g \in Flow \ {f} : flow'[g] = flow[g]
  BY DEF HostedInv, HostedTypeOK, ProvisionTypeOK
<1>4. FlowsOnChain'
  BY <1>2, <1>3 DEF HostedInv, FlowsOnChain, Running, loginVars
<1>5. RememberedOnChain'
  BY DEF HostedInv, RememberedOnChain
<1>6. QED  BY <1>1, <1>4, <1>5, NoLoginYet

\* A transaction of one run is executed.
LEMMA FlowExecutes ==
  ASSUME HostedInv, ~open, UNCHANGED loginVars, NEW f \in Flow, NEW s \in FlowState,
         flow[f].stage = "executing", OnChainEffect(f),
         flow' = [flow EXCEPT ![f] = s],
         s.stage \in Stages => flow[f].action = "namespace-create" /\ s.sender = flow[f].sender,
         UNCHANGED <<account, mounted>>,
         switches' \in 0..MaxSwitches, failures' \in 0..MaxFailures,
         \/ UNCHANGED remembered
         \/ /\ flow[f].action = "rw-cap-mint"
            /\ remembered' = {[suiAddress |-> flow[f].sender, namespace |-> f]}
  PROVE  HostedInv'
<1>1. Running(f) /\ flow[f] \in FlowState /\ rwOwner[f] = {}
  BY RunningIsTyped DEF HostedInv, HostedTypeOK, Running, Stages, FlowsOnChain
<1>2. flow[f].sender \in OneAccount /\ flow[f].action \in Actions /\ s.stage # "none"
  BY <1>1 DEF FlowState, Stages
<1>3. flow'[f] = s /\ \A g \in Flow \ {f} : flow'[g] = flow[g]
  BY DEF HostedInv, HostedTypeOK, ProvisionTypeOK
<1>4. /\ nsAdmin \in [Flow -> OptionalAccount] /\ rwOwner \in [Flow -> OptionalAccount]
      /\ remembered \subseteq [suiAddress : OneAccount, namespace : Flow]
  BY DEF HostedInv, HostedTypeOK, ProvisionTypeOK
<1>5. \A r \in remembered : r.namespace \in Flow /\ r.namespace # f
  BY <1>1, <1>4 DEF HostedInv, RememberedOnChain, OneAccount
<1>6. CASE flow[f].action = "namespace-create"
  <2>1. nsAdmin' = [nsAdmin EXCEPT ![f] = flow[f].sender] /\ UNCHANGED rwOwner
    BY <1>6 DEF OnChainEffect
  <2>2. UNCHANGED remembered
    BY <1>6
  <2>3. ProvisionTypeOK'
    BY <1>2, <2>1, <2>2 DEF HostedInv, HostedTypeOK, ProvisionTypeOK, FlowState, OptionalAccount
  <2>4. FlowsOnChain'
    BY <1>1, <1>2, <1>3, <1>4, <2>1 DEF HostedInv, FlowsOnChain, Running, loginVars
  <2>5. RememberedOnChain'
    BY <1>4, <1>5, <2>1, <2>2 DEF HostedInv, RememberedOnChain
  <2>6. QED  BY <2>3, <2>4, <2>5, NoLoginYet
<1>7. CASE flow[f].action = "rw-cap-mint"
  <2>1. rwOwner' = [rwOwner EXCEPT ![f] = flow[f].sender] /\ UNCHANGED nsAdmin
    BY <1>1, <1>4, <1>7 DEF OnChainEffect
  <2>2. nsAdmin[f] = flow[f].sender /\ s.stage \notin Stages
    BY <1>1, <1>7 DEF HostedInv, FlowsOnChain
  <2>3. ProvisionTypeOK'
    BY <1>2, <2>1 DEF HostedInv, HostedTypeOK, ProvisionTypeOK, FlowState, OptionalAccount
  <2>4. FlowsOnChain'
    BY <1>2, <1>3, <1>4, <2>1, <2>2 DEF HostedInv, FlowsOnChain, Running, loginVars
  <2>5. RememberedOnChain'
    BY <1>4, <1>5, <2>1, <2>2 DEF HostedInv, RememberedOnChain
  <2>6. QED  BY <2>3, <2>4, <2>5, NoLoginYet
<1>8. QED  BY <1>2, <1>6, <1>7 DEF Actions
LEMMA OnboardingKeepsInv == ASSUME HostedInv, Onboarding PROVE HostedInv'
<1> USE DEF Onboarding, bounds
<1>1. /\ account \in OptionalAccount /\ mounted \subseteq Flow
      /\ switches \in 0..MaxSwitches /\ failures \in 0..MaxFailures
  BY DEF HostedInv, HostedTypeOK, ProvisionTypeOK
<1>2. ASSUME NEW f \in Flow, Running(f) PROVE flow[f] \in FlowState
  BY <1>2, RunningIsTyped DEF HostedInv, HostedTypeOK
<1>3. Failing => failures' \in 0..MaxFailures /\ switches' \in 0..MaxSwitches
  BY <1>1, SwitchesAndFailuresAreBounded DEF Failing
<1>4. CASE \E x \in OptionalAccount : SwitchAccount(x)
  <2>1. ProvisionTypeOK'
    BY <1>1, <1>4, SwitchesAndFailuresAreBounded
    DEF HostedInv, HostedTypeOK, ProvisionTypeOK, SwitchAccount, Switching
  <2>2. FlowsOnChain' /\ RememberedOnChain'
    BY <1>4 DEF HostedInv, FlowsOnChain, RememberedOnChain, SwitchAccount, Running, loginVars
  <2>3. QED  BY <2>1, <2>2, NoLoginYet
<1>5. CASE LeaveStep
  <2>1. ProvisionTypeOK' /\ FlowsOnChain' /\ RememberedOnChain'
    BY <1>5 DEF HostedInv, HostedTypeOK, ProvisionTypeOK, FlowsOnChain, RememberedOnChain,
                LeaveStep, Running, loginVars
  <2>2. QED  BY <2>1, NoLoginYet
<1>6. ASSUME NEW f \in Flow, Provision(f) PROVE HostedInv'
  <2> DEFINE s == [stage |-> "preparing", sender |-> account, action |-> "namespace-create"]
  <2>1. s \in FlowState
    BY <1>1, <1>6 DEF Provision, FlowState, Stages, Actions, OptionalAccount
  <2>2. flow' = [flow EXCEPT ![f] = s] /\ flow[f].stage = "none"
    BY <1>6 DEF Provision
  <2>3. mounted' \subseteq Flow /\ UNCHANGED <<account, nsAdmin, rwOwner, remembered, bounds>>
    BY <1>6 DEF Provision
  <2>4. QED  BY <1>1, <2>1, <2>2, <2>3, FlowMoves
<1>7. ASSUME NEW f \in Flow, Stops(f) PROVE HostedInv'
  <2> DEFINE s == [flow[f] EXCEPT !.stage = "failed"]
  <2>1. s \in FlowState /\ s.stage \notin Stages
    BY <1>2, <1>7 DEF Stops, FlowState, Stages
  <2>2. flow' = [flow EXCEPT ![f] = s]
    BY <1>7 DEF Stops
  <2>3. QED  BY <1>1, <1>3, <1>7, <2>1, <2>2, FlowMoves DEF Stops
<1>8. ASSUME NEW f \in Flow, Prepared(f) \/ Signed(f) PROVE HostedInv'
  <2> DEFINE s == [flow[f] EXCEPT !.stage = IF flow[f].stage = "preparing" THEN "signing"
                                                                         ELSE "executing"]
  <2>1. flow[f].stage \in Stages
    BY <1>8 DEF Prepared, Signed, Stages
  <2>2. s \in FlowState /\ s.sender = flow[f].sender /\ s.action = flow[f].action
    BY <1>2, <2>1 DEF FlowState, Stages, Running
  <2>3. flow' = [flow EXCEPT ![f] = s]
    BY <1>8 DEF Prepared, Signed
  <2>4. QED  BY <1>1, <1>8, <2>1, <2>2, <2>3, FlowMoves DEF Prepared, Signed
<1>9. ASSUME NEW f \in Flow, SignedByAnother(f) PROVE HostedInv'
  <2> DEFINE s == [flow[f] EXCEPT !.stage = "failed"]
  <2>1. s \in FlowState /\ s.stage \notin Stages
    BY <1>2, <1>9 DEF SignedByAnother, FlowState, Stages, Running
  <2>2. flow' = [flow EXCEPT ![f] = s]
    BY <1>9 DEF SignedByAnother
  <2>3. QED  BY <1>1, <1>9, <2>1, <2>2, FlowMoves DEF SignedByAnother
<1>10. ASSUME NEW f \in Flow, ExecutedUnseen(f) PROVE HostedInv'
  <2> DEFINE s == [flow[f] EXCEPT !.stage = "failed"]
  <2>1. s \in FlowState /\ s.stage \notin Stages
    BY <1>2, <1>10 DEF ExecutedUnseen, FlowState, Stages, Running
  <2>2. flow' = [flow EXCEPT ![f] = s]
    BY <1>10 DEF ExecutedUnseen
  <2>3. QED  BY <1>1, <1>3, <1>10, <2>1, <2>2, FlowExecutes DEF ExecutedUnseen
<1>11. ASSUME NEW f \in Flow, NamespaceCreated(f) PROVE HostedInv'
  <2> DEFINE s == [flow[f] EXCEPT !.stage = "preparing", !.action = "rw-cap-mint"]
  <2>1. s \in FlowState /\ s.sender = flow[f].sender
    BY <1>2, <1>11 DEF NamespaceCreated, FlowState, Stages, Running, Actions
  <2>2. flow' = [flow EXCEPT ![f] = s]
    BY <1>11 DEF NamespaceCreated
  <2>3. QED  BY <1>1, <1>11, <2>1, <2>2, FlowExecutes DEF NamespaceCreated
<1>12. ASSUME NEW f \in Flow, Minted(f) PROVE HostedInv'
  <2> DEFINE s == [flow[f] EXCEPT !.stage = "done"]
  <2>1. s \in FlowState /\ s.stage \notin Stages
    BY <1>2, <1>12 DEF Minted, FlowState, Stages, Running
  <2>2. flow' = [flow EXCEPT ![f] = s]
    BY <1>12 DEF Minted
  <2>3. QED  BY <1>1, <1>12, <2>1, <2>2, FlowExecutes DEF Minted
<1>13. QED
  BY <1>4, <1>5, <1>6, <1>7, <1>8, <1>9, <1>10, <1>11, <1>12 DEF ProvisionStep
-----------------------------------------------------------------------------
(***************************************************************************)
(* The login.                                                              *)
(***************************************************************************)
LoginTypeOK ==
  /\ lookup \in SUBSET [owner : OneAccount, accountId : OptionalAccount]
  /\ looking \in OptionalAccount
  /\ hosted \in SUBSET Flow
  /\ status \in {"idle", "loading-account", "creating-account", "pairing", "paired"}
  /\ creating \in SUBSET [signer : OneAccount, owner : OneAccount]
  /\ approval \in [Delegate -> {NoApproval} \cup ApprovalState]
  /\ memwal \subseteq Account
  /\ registered \in SUBSET [delegate : Delegate, accountId : OneAccount, sender : OneAccount]
  /\ cli \in [server : {"open", "closed"}, settled : SUBSET Delegate]
  /\ validating \cup beaten \cup claimed \subseteq Delegate
  /\ file \in {"missing", "torn", "saved"}
  /\ expired \in BOOLEAN

\* The parts of the invariant that a step of the login page or of the CLI can disturb.
LoginInv == LoginTypeOK /\ PageIsCurrent /\ CallbacksCounted /\ SettledIsValid

LEMMA LoginInvSuffices ==
  ASSUME HostedInv, open', flow' = [f \in Flow |-> NoFlow], mounted' \subseteq Flow,
         UNCHANGED <<nsAdmin, rwOwner, remembered>>, account' \in OptionalAccount,
         switches' \in 0..MaxSwitches, failures' \in 0..MaxFailures, LoginInv', open' \in BOOLEAN
  PROVE  HostedInv'
<1>1. ProvisionTypeOK'
  BY DEF HostedInv, HostedTypeOK, ProvisionTypeOK
<1>2. HostedTypeOK'
  BY <1>1 DEF LoginInv, LoginTypeOK, HostedTypeOK, ApprovalState
<1>3. NothingYet' /\ FlowsOnChain' /\ RememberedOnChain'
  BY DEF HostedInv, NothingYet, FlowsOnChain, RememberedOnChain
<1>4. QED  BY <1>2, <1>3 DEF LoginInv, HostedInv

LEMMA HostedInvMeansLoginInv == ASSUME HostedInv PROVE LoginInv
BY DEF HostedInv, HostedTypeOK, LoginInv, LoginTypeOK, ApprovalState

LEMMA TurnToLoginKeepsInv == ASSUME HostedInv, TurnToLogin PROVE HostedInv'
<1> USE DEF TurnToLogin, OpenLogin
<1>1. /\ UNCHANGED <<account, lookup, hosted, creating, approval, memwal, registered, claimed,
                      expired, cli, validating, beaten, file>>
      /\ looking' = account /\ open' = TRUE
  BY DEF cliVars
<1>2. LoginTypeOK'
  BY <1>1, HostedInvMeansLoginInv DEF HostedInv, HostedTypeOK, ProvisionTypeOK, LoginInv, LoginTypeOK
<1>3. PageIsCurrent' /\ CallbacksCounted' /\ SettledIsValid'
  BY <1>1 DEF HostedInv, PageIsCurrent, CallbacksCounted, SettledIsValid, Valid
<1>4. QED  BY <1>1, <1>2, <1>3, LoginInvSuffices
           DEF HostedInv, HostedTypeOK, ProvisionTypeOK, LoginInv, bounds

\* Nothing but add_delegate_key touches registered, and it only adds to it.
LEMMA StillValid ==
  ASSUME SettledIsValid, LoginTypeOK, registered \subseteq registered', UNCHANGED cli,
         \A r \in registered' : r.sender = r.accountId,
         \A d \in cli.settled : /\ approval'[d].stage # "none"
                                /\ approval'[d].accountId = approval[d].accountId
                                /\ approval'[d].suiAddress = approval[d].suiAddress
  PROVE  SettledIsValid'
BY DEF SettledIsValid, Valid

\* An approval past its click moves on, and keeps what it was clicked with.
LEMMA ApprovalMoves ==
  ASSUME LoginTypeOK, NEW d \in Delegate, approval[d].stage # "none",
         NEW next \in {"register", "post", "posted", "accepted", "rejected", "done", "failed"},
         approval' = [approval EXCEPT ![d].stage = next]
  PROVE  /\ approval' \in [Delegate -> {NoApproval} \cup ApprovalState]
         /\ approval'[d].stage = next
         /\ approval'[d].accountId = approval[d].accountId
         /\ approval'[d].suiAddress = approval[d].suiAddress
         /\ approval'[d].namespace = approval[d].namespace
         /\ \A e \in Delegate \ {d} : approval'[e] = approval[e]
<1>1. approval[d] \in ApprovalState
  BY DEF LoginTypeOK, NoApproval
<1>2. approval'[d] = [approval[d] EXCEPT !.stage = next]
  BY DEF LoginTypeOK
<1>3. [approval[d] EXCEPT !.stage = next] \in ApprovalState
  BY <1>1 DEF ApprovalState
<1>4. QED  BY <1>1, <1>2, <1>3 DEF LoginTypeOK, ApprovalState

\* The page looks an account up, creates one, or turns to another; the CLI times out or
\* saves; the credentials expire.
LEMMA PageStepKeepsInv ==
  ASSUME LoginInv, open, account \in OptionalAccount, UNCHANGED rwOwner,
         \A r \in remembered : r.namespace \in Flow /\ rwOwner[r.namespace] = r.suiAddress,
         \/ \E x \in OptionalAccount : Connect(x)
         \/ LookupAnswers \/ LookupIsStale \/ LookupFails
         \/ CreateMemWal
         \/ \E c \in creating : \/ MemWalCreated(c) \/ MemWalExists(c)
                                \/ MemWalRefused(c) \/ MemWalCreatedUnseen(c)
  PROVE  LoginInv' /\ open' /\ account' \in OptionalAccount
<1> USE DEF LoginInv
<1>1. UNCHANGED <<open, approval, registered, cli, validating, beaten, file, claimed, expired>>
  BY DEF Connect, LookupAnswers, LookupIsStale, Answered, LookupFails, CreateMemWal, MemWalCreated,
         MemWalExists, MemWalRefused, MemWalCreatedUnseen, NotCreated, cliVars, pageVars
<1>2. CallbacksCounted' /\ SettledIsValid'
  BY <1>1 DEF CallbacksCounted, SettledIsValid, Valid
<1>3. CASE \E x \in OptionalAccount : Connect(x)
  <2>1. LoginTypeOK' /\ account' \in OptionalAccount
    BY <1>1, <1>3 DEF Connect, LoginTypeOK
  <2>2. PageIsCurrent'
    BY <1>1, <1>3 DEF Connect, PageIsCurrent
  <2>3. QED  BY <1>1, <1>2, <2>1, <2>2
<1>4. CASE LookupAnswers \/ LookupIsStale
  <2>1. PICK found \in OptionalAccount : Answered(found)
    BY <1>4 DEF LookupAnswers, LookupIsStale, LoginTypeOK, OptionalAccount, OneAccount
  <2>2. looking = account /\ looking \in OneAccount
    BY <2>1 DEF Answered, PageIsCurrent, LoginTypeOK, OptionalAccount
  <2>3. hosted' \subseteq Flow /\ \A n \in hosted' : rwOwner[n] = account
    BY <2>1, <2>2 DEF Answered, Load
  <2>4. lookup' = {[owner |-> looking, accountId |-> found]}
    BY <2>1 DEF Answered
  <2>5. LoginTypeOK'
    BY <1>1, <2>1, <2>2, <2>3, <2>4 DEF Answered, LoginTypeOK, OptionalAccount
  <2>6. PageIsCurrent' /\ account' \in OptionalAccount
    BY <1>1, <2>1, <2>3, <2>4 DEF Answered, PageIsCurrent
  <2>7. QED  BY <1>1, <1>2, <2>5, <2>6
<1>5. CASE LookupFails
  <2>1. LoginTypeOK' /\ PageIsCurrent' /\ account' \in OptionalAccount
    BY <1>1, <1>5 DEF LookupFails, LoginTypeOK, PageIsCurrent, OptionalAccount
  <2>2. QED  BY <1>1, <1>2, <2>1
<1>6. CASE CreateMemWal
  <2>1. PICK l \in lookup : creating' = creating \cup {[signer |-> account, owner |-> l.owner]}
    BY <1>6 DEF CreateMemWal
  <2>2. account \in OneAccount /\ l.owner \in OneAccount
    BY <1>6 DEF CreateMemWal, LoginTypeOK, OptionalAccount
  <2>3. LoginTypeOK' /\ account' \in OptionalAccount
    BY <1>1, <1>6, <2>1, <2>2 DEF CreateMemWal, LoginTypeOK, pageVars
  <2>4. PageIsCurrent'
    BY <1>1, <1>6 DEF CreateMemWal, PageIsCurrent, pageVars
  <2>5. QED  BY <1>1, <1>2, <2>3, <2>4
<1>7. ASSUME NEW c \in creating, MemWalCreated(c)
      PROVE  LoginInv' /\ open' /\ account' \in OptionalAccount
  <2>1. c.signer \in OneAccount /\ c.owner \in OneAccount /\ c.signer \subseteq Account
    BY DEF LoginTypeOK, OneAccount
  <2>2. LoginTypeOK' /\ account' \in OptionalAccount
    BY <1>1, <1>7, <2>1 DEF MemWalCreated, LoginTypeOK, OptionalAccount
  <2>3. PageIsCurrent'
    BY <1>1, <1>7 DEF MemWalCreated, PageIsCurrent
  <2>4. QED  BY <1>1, <1>2, <2>2, <2>3
<1>8. ASSUME NEW c \in creating, MemWalExists(c) \/ MemWalRefused(c) \/ MemWalCreatedUnseen(c)
      PROVE  LoginInv' /\ open' /\ account' \in OptionalAccount
  <2>1. c.signer \subseteq Account
    BY DEF LoginTypeOK, OneAccount
  <2>2. UNCHANGED <<account, lookup, looking, hosted>>
    BY <1>8 DEF MemWalExists, MemWalRefused, MemWalCreatedUnseen, NotCreated, pageVars
  <2>3. LoginTypeOK'
    BY <1>1, <1>8, <2>1, <2>2
    DEF MemWalExists, MemWalRefused, MemWalCreatedUnseen, NotCreated, LoginTypeOK
  <2>4. PageIsCurrent'
    BY <1>1, <2>2 DEF PageIsCurrent
  <2>5. QED  BY <1>1, <1>2, <2>2, <2>3, <2>4
<1>9. QED  BY <1>3, <1>4, <1>5, <1>6, <1>7, <1>8

LEMMA CliStepKeepsInv ==
  ASSUME LoginInv, open, account \in OptionalAccount, UNCHANGED rwOwner,
         Timeout \/ BeginSave \/ EndSave \/ Expire
  PROVE  LoginInv' /\ open' /\ account' \in OptionalAccount
<1> USE DEF LoginInv
<1>1. /\ UNCHANGED <<account, open, lookup, looking, hosted, approval, memwal, creating, status,
                     registered, validating, claimed>>
      /\ cli'.settled = cli.settled
  BY DEF Timeout, BeginSave, EndSave, Expire, pageVars, cliVars, LoginTypeOK
<1>2. LoginTypeOK'
  BY <1>1 DEF LoginTypeOK, Timeout, BeginSave, EndSave, Expire, cliVars
<1>3. PageIsCurrent' /\ SettledIsValid'
  BY <1>1 DEF PageIsCurrent, SettledIsValid, Valid
<1>4. CallbacksCounted'
  BY <1>1 DEF CallbacksCounted, LoginTypeOK, Timeout, BeginSave, EndSave, Expire, cliVars
<1>5. QED  BY <1>1, <1>2, <1>3, <1>4

-----------------------------------------------------------------------------
LEMMA ApproveKeepsInv ==
  ASSUME LoginInv, open, account \in OptionalAccount, UNCHANGED rwOwner,
         NEW d \in Delegate, Approve(d)
  PROVE  LoginInv' /\ open' /\ account' \in OptionalAccount
<1> USE DEF LoginInv
<1>1. UNCHANGED <<account, open, lookup, looking, hosted, creating, memwal, registered, cli,
                  validating, beaten, file, claimed, expired>>
  BY DEF Approve, pageVars, cliVars
<1>2. PICK l \in lookup :
        approval' = [approval EXCEPT ![d] =
                       [stage |-> "register", suiAddress |-> account, accountId |-> l.accountId,
                        namespace |-> hosted]]
  BY DEF Approve
<1>3. account \in OneAccount /\ l.accountId \in OneAccount
  BY DEF Approve, CanPair, LoginTypeOK, PageIsCurrent, OptionalAccount
<1>4. approval[d].stage = "none"
  BY DEF Approve
<1>5. /\ approval' \in [Delegate -> {NoApproval} \cup ApprovalState]
      /\ approval'[d] = [stage |-> "register", suiAddress |-> account, accountId |-> l.accountId,
                         namespace |-> hosted]
      /\ \A e \in Delegate \ {d} : approval'[e] = approval[e]
  BY <1>2, <1>3 DEF LoginTypeOK, ApprovalState
<1>6. LoginTypeOK'
  BY <1>1, <1>5 DEF Approve, LoginTypeOK
<1>7. PageIsCurrent'
  BY <1>1, <1>5 DEF PageIsCurrent
<1>8. d \notin cli.settled /\ d \notin validating
  BY <1>4 DEF SettledIsValid, CallbacksCounted
<1>9. CallbacksCounted'
  BY <1>1, <1>5, <1>8 DEF CallbacksCounted, LoginTypeOK
<1>10. SettledIsValid'
  BY <1>1, <1>5, <1>8 DEF SettledIsValid, Valid, LoginTypeOK
<1>11. QED  BY <1>1, <1>6, <1>7, <1>9, <1>10

\* A step of an approval under way that leaves the CLI alone.
LEMMA ApprovalGoesOn ==
  ASSUME LoginInv, open, account \in OptionalAccount, UNCHANGED rwOwner,
         NEW d \in Delegate, approval[d].stage \notin {"none", "posted"},
         NEW next \in {"post", "done", "failed"},
         approval' = [approval EXCEPT ![d].stage = next],
         status' \in {"idle", "loading-account", "creating-account", "pairing", "paired"},
         UNCHANGED <<pageVars, creating, memwal, cliVars, expired>>,
         \/ UNCHANGED registered
         \/ /\ account \in OneAccount
            /\ registered' = registered \cup
                 {[delegate |-> d, accountId |-> account, sender |-> account]},
         \/ UNCHANGED claimed
         \/ approval[d].stage = "accepted" /\ claimed' = claimed \cup {d}
  PROVE  LoginInv' /\ open' /\ account' \in OptionalAccount
<1> USE DEF LoginInv, pageVars, cliVars
<1>1. /\ approval' \in [Delegate -> {NoApproval} \cup ApprovalState]
      /\ approval'[d].stage = next
      /\ approval'[d].accountId = approval[d].accountId
      /\ approval'[d].suiAddress = approval[d].suiAddress
      /\ approval'[d].namespace = approval[d].namespace
      /\ \A e \in Delegate \ {d} : approval'[e] = approval[e]
  BY ApprovalMoves
<1>2. LoginTypeOK'
  BY <1>1 DEF LoginTypeOK
<1>3. PageIsCurrent'
  BY <1>1 DEF PageIsCurrent
<1>4. CallbacksCounted'
  BY <1>1 DEF CallbacksCounted, LoginTypeOK
<1>5. SettledIsValid'
  <2>1. cli.settled \subseteq Delegate
    BY DEF LoginTypeOK
  <2>2. registered \subseteq registered' /\ \A r \in registered' : r.sender = r.accountId
    BY DEF SettledIsValid
  <2>3. \A e \in cli.settled : /\ approval'[e].stage # "none"
                               /\ approval'[e].accountId = approval[e].accountId
                               /\ approval'[e].suiAddress = approval[e].suiAddress
    BY <1>1, <2>1 DEF SettledIsValid
  <2>4. QED  BY <2>2, <2>3, StillValid
<1>6. QED  BY <1>2, <1>3, <1>4, <1>5

LEMMA ApprovalStepKeepsInv ==
  ASSUME LoginInv, open, account \in OptionalAccount, UNCHANGED rwOwner, NEW d \in Delegate,
         \/ Registered(d) \/ RegisteredUnseen(d) \/ NotRegistered(d) \/ SignedByNonOwner(d)
         \/ CallbackAnswered(d)
  PROVE  LoginInv' /\ open' /\ account' \in OptionalAccount
<1>1. CASE Registered(d) \/ RegisteredUnseen(d)
  <2>1. PICK next \in {"post", "failed"} : approval' = [approval EXCEPT ![d].stage = next]
    BY <1>1 DEF Registered, RegisteredUnseen, PairingFails
  <2>2. Registers(d) /\ status' \in {"idle", "pairing"}
    BY <1>1 DEF Registered, RegisteredUnseen, PairingFails
  <2>3. approval[d] \in ApprovalState
    BY <2>2 DEF Registers, LoginInv, LoginTypeOK, NoApproval
  <2>4. account \in OneAccount
    BY <2>2, <2>3 DEF Registers, ApprovalState
  <2>5. QED  BY <2>1, <2>2, <2>4, ApprovalGoesOn DEF Registers
<1>2. CASE NotRegistered(d) \/ SignedByNonOwner(d)
  <2>1. NotRegistered(d)
    BY <1>2 DEF SignedByNonOwner
  <2>2. QED  BY <2>1, ApprovalGoesOn DEF NotRegistered, PairingFails
<1>3. CASE CallbackAnswered(d)
  <2>1. CASE approval[d].stage = "accepted"
    BY <1>3, <2>1, ApprovalGoesOn DEF CallbackAnswered
  <2>2. CASE approval[d].stage = "rejected"
    BY <1>3, <2>2, ApprovalGoesOn DEF CallbackAnswered, PairingFails
  <2>3. QED  BY <1>3, <2>1, <2>2 DEF CallbackAnswered
<1>4. QED  BY <1>1, <1>2, <1>3
-----------------------------------------------------------------------------
(***************************************************************************)
(* Callbacks.                                                              *)
(***************************************************************************)
LEMMA PostKeepsInv ==
  ASSUME LoginInv, open, account \in OptionalAccount, UNCHANGED rwOwner,
         NEW d \in Delegate, PostCallback(d)
  PROVE  LoginInv' /\ open' /\ account' \in OptionalAccount
<1> USE DEF LoginInv
<1>1. CASE cli.server = "open"
  <2>1. /\ approval[d].stage = "post" /\ validating' = validating \cup {d}
        /\ approval' = [approval EXCEPT ![d].stage = "posted"]
        /\ status' = "pairing"
        /\ UNCHANGED <<pageVars, creating, memwal, registered, cli, beaten, claimed, file, expired>>
    BY <1>1 DEF PostCallback
  <2>2. /\ approval' \in [Delegate -> {NoApproval} \cup ApprovalState]
        /\ approval'[d].stage = "posted"
        /\ approval'[d].accountId = approval[d].accountId
        /\ approval'[d].suiAddress = approval[d].suiAddress
        /\ approval'[d].namespace = approval[d].namespace
        /\ \A e \in Delegate \ {d} : approval'[e] = approval[e]
    BY <2>1, ApprovalMoves
  <2>3. LoginTypeOK'
    BY <2>1, <2>2 DEF LoginTypeOK, pageVars
  <2>4. PageIsCurrent'
    BY <2>1, <2>2 DEF PageIsCurrent, pageVars
  <2>5. CallbacksCounted'
    BY <1>1, <2>1, <2>2 DEF CallbacksCounted, LoginTypeOK
  <2>6. cli.settled = {}
    BY <1>1 DEF CallbacksCounted
  <2>7. SettledIsValid'
    BY <2>1, <2>6 DEF SettledIsValid
  <2>8. QED  BY <2>1, <2>3, <2>4, <2>5, <2>7 DEF pageVars
<1>2. CASE cli.server # "open"
  BY <1>2, ApprovalGoesOn DEF PostCallback, PairingFails, cliVars
<1>3. QED  BY <1>1, <1>2

\* What is validated was posted, and what settles the login is the first that is valid.
LEMMA ValidationKeepsInv ==
  ASSUME LoginInv, open, account \in OptionalAccount, UNCHANGED rwOwner,
         NEW d \in Delegate, Validated(d) \/ ValidationFails(d)
  PROVE  LoginInv' /\ open' /\ account' \in OptionalAccount
<1> USE DEF LoginInv
<1>1. d \in validating /\ validating' = validating \ {d} /\ approval[d].stage = "posted"
  BY DEF Validated, ValidationFails, CallbacksCounted
<1>2. UNCHANGED <<account, open, lookup, looking, hosted, status, creating, memwal, registered,
                  claimed, file, expired>>
  BY DEF Validated, ValidationFails, pageVars
<1>3. PICK next \in {"accepted", "rejected"} :
        /\ approval' = [approval EXCEPT ![d].stage = next]
        /\ \/ next = "accepted" /\ Valid(d) /\ Settle(d)
           \/ next = "rejected" /\ UNCHANGED <<cli, beaten>>
  BY DEF Validated, ValidationFails
<1>4. /\ approval' \in [Delegate -> {NoApproval} \cup ApprovalState]
      /\ approval'[d].stage = next
      /\ approval'[d].accountId = approval[d].accountId
      /\ approval'[d].suiAddress = approval[d].suiAddress
      /\ approval'[d].namespace = approval[d].namespace
      /\ \A e \in Delegate \ {d} : approval'[e] = approval[e]
  BY <1>1, <1>3, ApprovalMoves
<1>5. PageIsCurrent'
  BY <1>1, <1>2, <1>4 DEF PageIsCurrent
<1>6. \A e \in Delegate : Valid(e)' <=> Valid(e)
  BY <1>2, <1>4 DEF Valid
<1>7. CASE UNCHANGED <<cli, beaten>> /\ next = "rejected"
  <2>1. LoginTypeOK'
    BY <1>1, <1>2, <1>4, <1>7 DEF LoginTypeOK
  <2>2. CallbacksCounted'
    BY <1>1, <1>2, <1>4, <1>7 DEF CallbacksCounted, LoginTypeOK
  <2>3. SettledIsValid'
    BY <1>2, <1>4, <1>6, <1>7 DEF SettledIsValid, LoginTypeOK
  <2>4. QED  BY <1>2, <1>5, <2>1, <2>2, <2>3
<1>8. CASE cli.server = "open" /\ next = "accepted"
  <2>1. cli.settled = {} /\ file = "missing"
    BY <1>8 DEF CallbacksCounted, LoginTypeOK
  <2>2. /\ cli' = [server |-> "closed", settled |-> {d}]
        /\ beaten' = beaten \cup (validating \ {d}) /\ Valid(d)
    BY <1>3, <1>8, <2>1 DEF Settle
  <2>3. LoginTypeOK'
    BY <1>1, <1>2, <1>4, <2>2 DEF LoginTypeOK
  <2>4. CallbacksCounted'
    BY <1>1, <1>2, <1>4, <1>8, <2>1, <2>2 DEF CallbacksCounted, LoginTypeOK
  <2>5. SettledIsValid'
    BY <1>2, <1>4, <1>6, <1>8, <2>2 DEF SettledIsValid
  <2>6. QED  BY <1>2, <1>5, <2>3, <2>4, <2>5
<1>9. CASE cli.server = "closed" /\ next = "accepted"
  <2>1. cli' = cli /\ beaten' = beaten
    BY <1>3, <1>9 DEF Settle, LoginTypeOK
  <2>2. d \in beaten
    BY <1>1, <1>9 DEF CallbacksCounted
  <2>3. LoginTypeOK'
    BY <1>1, <1>2, <1>4, <2>1 DEF LoginTypeOK
  <2>4. CallbacksCounted'
    BY <1>1, <1>2, <1>4, <1>9, <2>1, <2>2 DEF CallbacksCounted, LoginTypeOK
  <2>5. SettledIsValid'
    BY <1>2, <1>4, <1>6, <1>9, <2>1 DEF SettledIsValid, LoginTypeOK
  <2>6. QED  BY <1>2, <1>5, <2>3, <2>4, <2>5
<1>10. QED  BY <1>3, <1>7, <1>8, <1>9 DEF LoginTypeOK

LEMMA LoginKeepsInv == ASSUME HostedInv, Login PROVE HostedInv'
<1>1. LoginInv /\ open /\ account \in OptionalAccount /\ UNCHANGED rwOwner
  BY HostedInvMeansLoginInv DEF HostedInv, HostedTypeOK, ProvisionTypeOK, Login
<1>2. \A r \in remembered : r.namespace \in Flow /\ rwOwner[r.namespace] = r.suiAddress
  BY DEF HostedInv, HostedTypeOK, ProvisionTypeOK, RememberedOnChain
<1>3. LoginInv' /\ open' /\ account' \in OptionalAccount
  <2>1. ASSUME NEW d \in Delegate,
               \/ Approve(d) \/ Registered(d) \/ SignedByNonOwner(d) \/ PostCallback(d)
               \/ CallbackAnswered(d) \/ Validated(d)
               \/ RegisteredUnseen(d) \/ NotRegistered(d) \/ ValidationFails(d)
        PROVE  LoginInv' /\ open' /\ account' \in OptionalAccount
    BY <1>1, <2>1, ApproveKeepsInv, ApprovalStepKeepsInv, PostKeepsInv, ValidationKeepsInv
  <2>2. ASSUME \/ \E x \in OptionalAccount : Connect(x)
               \/ LookupAnswers \/ LookupIsStale \/ LookupFails
               \/ CreateMemWal
               \/ \E c \in creating : \/ MemWalCreated(c) \/ MemWalExists(c)
                                      \/ MemWalRefused(c) \/ MemWalCreatedUnseen(c)
        PROVE  LoginInv' /\ open' /\ account' \in OptionalAccount
    BY <1>1, <1>2, <2>2, PageStepKeepsInv
  <2>3. ASSUME Timeout \/ BeginSave \/ EndSave \/ Expire
        PROVE  LoginInv' /\ open' /\ account' \in OptionalAccount
    BY <1>1, <2>3, CliStepKeepsInv
  <2>4. QED  BY <2>1, <2>2, <2>3 DEF Login, LoginStep
<1>4. switches' \in 0..MaxSwitches /\ failures' \in 0..MaxFailures
  BY SwitchesAndFailuresAreBounded
  DEF HostedInv, HostedTypeOK, ProvisionTypeOK, Login, LoginStep, Failing, Switching, bounds
<1>5. open' \in BOOLEAN
  <2>1. open = TRUE
    BY <1>1 DEF HostedInv, HostedTypeOK
  <2>2. open' = open
    BY DEF Login, LoginStep, Connect, LookupAnswers, LookupIsStale, Answered, LookupFails,
           CreateMemWal, MemWalCreated, MemWalExists, MemWalRefused, MemWalCreatedUnseen,
           NotCreated, Approve, Registered, Registers, RegisteredUnseen, NotRegistered,
           SignedByNonOwner, PostCallback, CallbackAnswered, Validated, ValidationFails, Timeout,
           BeginSave, EndSave, Expire, pageVars
  <2>3. QED  BY <2>1, <2>2
<1>6. /\ flow' = [f \in Flow |-> NoFlow] /\ mounted' \subseteq Flow
      /\ UNCHANGED <<nsAdmin, rwOwner, remembered>>
  BY <1>1 DEF Login, HostedInv, HostedTypeOK, ProvisionTypeOK, FlowsOnChain
<1>7. QED  BY <1>3, <1>4, <1>5, <1>6, LoginInvSuffices

-----------------------------------------------------------------------------
\* The invariant holds in every behaviour (SponsoredProvisioning.tsx 103-161,
\* cli-login/page.tsx 83-224, login.ts 85-215).
THEOREM HostedInvariant == Spec => []HostedInv
<1>1. HostedInv /\ [Next]_vars => HostedInv'
  <2> SUFFICES ASSUME HostedInv, [Next]_vars PROVE HostedInv'
    OBVIOUS
  <2>1. CASE Onboarding
    BY <2>1, OnboardingKeepsInv
  <2>2. CASE TurnToLogin
    BY <2>2, TurnToLoginKeepsInv
  <2>3. CASE Login
    BY <2>3, LoginKeepsInv
  <2>4. CASE UNCHANGED vars
    <3>1. UNCHANGED <<account, mounted, flow, nsAdmin, rwOwner, remembered, switches, failures>>
      BY <2>4 DEF vars, provisionVars, bounds
    <3>2. UNCHANGED loginVars
      BY <2>4 DEF vars
    <3>3. HostedTypeOK' /\ NothingYet' /\ FlowsOnChain' /\ RememberedOnChain'
      BY <3>1, <3>2 DEF HostedInv, HostedTypeOK, ProvisionTypeOK, NothingYet, FlowsOnChain,
                        RememberedOnChain, Running, loginVars
    <3>4. PageIsCurrent' /\ CallbacksCounted' /\ SettledIsValid'
      BY <3>1, <3>2 DEF HostedInv, PageIsCurrent, CallbacksCounted, SettledIsValid, Valid, loginVars
    <3>5. QED  BY <3>3, <3>4 DEF HostedInv
  <2>5. QED  BY <2>1, <2>2, <2>3, <2>4 DEF Next
<1>2. QED  BY HostedInitInv, <1>1, PTL DEF Spec

\* Type correctness of the two pages, the CLI and the chain; in particular a transaction is
\* only ever under way for a connected account (SponsoredProvisioning.tsx 103-161).
THEOREM HostedTypes == Spec => []HostedTypeOK
<1>1. HostedInv => HostedTypeOK
  BY DEF HostedInv
<1>2. QED  BY <1>1, HostedInvariant, PTL

\* What the browser remembers is owned, whole, by the address it is remembered for, and what
\* the page posts is taken (page.tsx 33-40, sponsored-provisioning.ts 84-180).
THEOREM RememberedCompletely == Spec => []RememberedIsComplete
BY HostedInvariant, InvMeansComplete, PTL

\* The CLI only ever settles with credentials that are true of the chain
\* (login-validation.ts 153-290).
THEOREM OnlyTrueCredentials == Spec => []CredentialsAreTrue
<1>1. HostedInv => CredentialsAreTrue
  <2> SUFFICES ASSUME HostedInv, NEW d \in cli.settled
               PROVE  /\ approval[d].accountId = approval[d].suiAddress
                      /\ Valid(d)
                      /\ \A n \in approval[d].namespace : rwOwner[n] = approval[d].suiAddress
    BY DEF CredentialsAreTrue, Valid
  <2>1. d \in Delegate /\ Valid(d) /\ approval[d].stage # "none"
    BY DEF HostedInv, HostedTypeOK, SettledIsValid
  <2>2. QED  BY <2>1 DEF HostedInv, SettledIsValid, PageIsCurrent, Valid
<1>2. QED  BY <1>1, HostedInvariant, PTL

\* "Pairing complete" means settled, or beaten to it (login.ts 103-134).
THEOREM PairedOrBeaten == Spec => []PairedMeansSettled
<1>1. HostedInv => PairedMeansSettled
  BY DEF HostedInv, CallbacksCounted, PairedMeansSettled
<1>2. QED  BY <1>1, HostedInvariant, PTL

\* What is resolved from the file works, and the dashboard's summary says so
\* (credentials.ts 114-168, local-credentials.ts 86-158); for every environment.
THEOREM ResolvedConfigWorks == Spec => []ConfigWorks
<1>1. HostedInv => ConfigWorks
  <2> SUFFICES ASSUME HostedInv, NEW env \in EnvChoice
               PROVE  /\ \A c \in Config(env) :
                           /\ env.delegate = {} \/ env.accountId = {} => file = "saved" /\ ~expired
                           /\ env.delegate = {} /\ env.accountId = {} =>
                                \E r \in registered :
                                  {r.delegate} = c.delegate /\ r.accountId = c.accountId
                      /\ CredentialSummary(env) = "configured" => Config(env) # {}
                      /\ CredentialSummary(env) = "partial" => ~expired /\ Config(env) = {}
                      /\ file = "saved" /\ Config(env) = {} =>
                           CredentialSummary(env) \in {"expired", "partial"}
    BY DEF ConfigWorks
  <2>1. file \in {"missing", "torn", "saved"} /\ expired \in BOOLEAN
    BY DEF HostedInv, HostedTypeOK
  <2>2. ASSUME NEW c \in Config(env), env.delegate = {} \/ env.accountId = {}
        PROVE  file = "saved" /\ ~expired
    BY <2>2 DEF Config, Or
  <2>3. ASSUME NEW c \in Config(env), env.delegate = {}, env.accountId = {}
        PROVE  \E r \in registered : {r.delegate} = c.delegate /\ r.accountId = c.accountId
    <3>1. c.delegate = cli.settled /\ c.accountId = SavedAccount /\ c.delegate # {}
      BY <2>2, <2>3 DEF Config, Or
    <3>2. PICK d \in Delegate : cli.settled = {d} /\ Valid(d)
      BY <3>1 DEF HostedInv, HostedTypeOK, SettledIsValid
    <3>3. SavedAccount = approval[d].accountId
      BY <3>2 DEF SavedAccount
    <3>4. QED  BY <3>1, <3>2, <3>3 DEF Valid
  <2>4. file = "missing" => CredentialSummary(env) = "missing"
    BY DEF CredentialSummary
  <2>5. file = "torn" => CredentialSummary(env) = "error"
    BY DEF CredentialSummary
  <2>6. ASSUME file = "saved", Config(env) # {}, env.memwalPackageId \/ ~expired
        PROVE  CredentialSummary(env) = "configured"
    BY <2>6 DEF CredentialSummary
  <2>7. ASSUME file = "saved", ~(Config(env) # {} /\ (env.memwalPackageId \/ ~expired))
        PROVE  CredentialSummary(env) = IF expired THEN "expired" ELSE "partial"
    BY <2>7 DEF CredentialSummary
  <2>8. CASE file = "saved"
    <3>1. CASE Config(env) # {} /\ (env.memwalPackageId \/ ~expired)
      BY <2>2, <2>3, <2>6, <2>8, <3>1
    <3>2. CASE ~(Config(env) # {} /\ (env.memwalPackageId \/ ~expired))
      BY <2>1, <2>2, <2>3, <2>7, <2>8, <3>2
    <3>3. QED  BY <3>1, <3>2
  <2>9. QED  BY <2>1, <2>2, <2>3, <2>4, <2>5, <2>8
<1>2. QED  BY <1>1, HostedInvariant, PTL
=============================================================================
