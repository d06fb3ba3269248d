------------------------- MODULE SponsoredProvisioning -------------------------
(******************************************************************************)
(* Onboarding of the hosted dashboard: a namespace and a ReadWrite capability *)
(* made by two sponsored transactions.  For each the server prepares the      *)
(* bytes for one sender, the browser's wallet signs them, and the server has  *)
(* them executed; between any two of these steps the user may switch the      *)
(* account, leave the step and come back, or a request may fail or have its   *)
(* answer lost.  What succeeds is remembered in the browser's local storage,  *)
(* under one key for all accounts.                                            *)
(******************************************************************************)
EXTENDS Naturals, SponsoredRequest

CONSTANTS
  Account,        \* accounts of the user's wallet
  Flow,           \* runs of provision(); also the namespaces they create
  MaxSwitches,    \* bound: switches of account
  MaxFailures     \* bound: requests that fail or lose their answer

ASSUME SwitchesAndFailuresAreBounded == MaxSwitches \in Nat /\ MaxFailures \in Nat

VARIABLES
  account,        \* the account connected to the page: {} or one
  mounted,        \* the run the mounted SponsoredProvisioning shows: {} or one
  flow,           \* the state of each run
  nsAdmin,        \* on chain: the owner of each namespace's Admin capability
  rwOwner,        \* on chain: the owners of its ReadWrite capabilities
  remembered,     \* onemem.hosted.provisioning.v1: {} or the state saved
  switches,       \* switches of account so far
  failures        \* failures so far

provisionVars == <<account, mounted, flow, nsAdmin, rwOwner, remembered>>
bounds == <<switches, failures>>

OneAccount == {{a} : a \in Account}
OptionalAccount == {{}} \cup OneAccount

NoFlow == [stage |-> "none", sender |-> {}]
Actions == {"namespace-create", "rw-cap-mint"}
Stages == {"preparing", "signing", "executing"}
Running(f) == flow[f].stage \in Stages

-----------------------------------------------------------------------------
ProvisionInit ==
  /\ account \in OptionalAccount
  /\ switches = 0
  /\ failures = 0
  /\ mounted = {}
  /\ flow = [f \in Flow |-> NoFlow]
  /\ nsAdmin = [f \in Flow |-> {}]
  /\ rwOwner = [f \in Flow |-> {}]
  /\ remembered = {}

Switching == switches < MaxSwitches /\ switches' = switches + 1 /\ UNCHANGED failures
Failing == failures < MaxFailures /\ failures' = failures + 1 /\ UNCHANGED switches

SwitchAccount(x) ==
  /\ x # account
  /\ Switching
  /\ account' = x
  /\ UNCHANGED <<mounted, flow, nsAdmin, rwOwner, remembered>>

\* Back and Continue are never disabled: the component is mounted afresh, idle, and
\* a run that was under way goes on without it.
LeaveStep ==
  /\ mounted # {}
  /\ mounted' = {}
  /\ UNCHANGED <<account, flow, nsAdmin, rwOwner, remembered, bounds>>

\* provision, with the button's guard.
Provision_AnySender(f) ==                                           \* mutant
  /\ flow[f].stage = "none"
  /\ \A g \in mounted : ~Running(g)
  /\ flow' = [flow EXCEPT ![f] = [stage |-> "preparing", sender |-> account,
                                  action |-> "namespace-create"]]
  /\ mounted' = {f}
  /\ UNCHANGED <<account, nsAdmin, rwOwner, remembered, bounds>>

Provision(f) ==
  /\ account # {}
  /\ flow[f].stage = "none"
  /\ \A g \in mounted : ~Running(g)
  /\ flow' = [flow EXCEPT ![f] = [stage |-> "preparing", sender |-> account,
                                  action |-> "namespace-create"]]
  /\ mounted' = {f}
  /\ UNCHANGED <<account, nsAdmin, rwOwner, remembered, bounds>>

\* The server is not configured, refuses the request, or cannot build, sponsor or
\* execute it; or the wallet does not sign.
Stops(f) ==
  /\ Failing
  /\ Running(f)
  /\ flow' = [flow EXCEPT ![f].stage = "failed"]
  /\ UNCHANGED <<account, mounted, nsAdmin, rwOwner, remembered>>

\* What provision() posts for the transaction of a run that comes next: for the mint with
\* the ids of the first answer, a namespace and its Admin capability.
Posted(f) ==
  LET made == IF flow[f].action = "rw-cap-mint" THEN {f} ELSE {} IN
  [action |-> flow[f].action, sender |-> flow[f].sender, recipient |-> {},
   namespaceId |-> made, adminCapId |-> made, capId |-> {}, capKind |-> {}]

\* prepareSponsoredProvisioning: the bytes are for the sender of the request.
Prepared(f) ==
  /\ flow[f].stage = "preparing"
  /\ ValidRequest(Posted(f))
  /\ flow' = [flow EXCEPT ![f].stage = "signing"]
  /\ UNCHANGED <<account, mounted, nsAdmin, rwOwner, remembered, bounds>>

\* signTransaction signs with the account connected now; a signature of another
\* account than the bytes' sender is refused at execution.
Signed(f) ==
  /\ flow[f].stage = "signing"
  /\ account = flow[f].sender
  /\ flow' = [flow EXCEPT ![f].stage = "executing"]
  /\ UNCHANGED <<account, mounted, nsAdmin, rwOwner, remembered, bounds>>

SignedByAnother(f) ==
  /\ flow[f].stage = "signing"
  /\ account # flow[f].sender
  /\ flow' = [flow EXCEPT ![f].stage = "failed"]
  /\ UNCHANGED <<account, mounted, nsAdmin, rwOwner, remembered, bounds>>

\* executeSponsoredProvisioning: the transaction is on chain.
OnChainEffect(f) ==
  CASE flow[f].action = "namespace-create" ->
         nsAdmin' = [nsAdmin EXCEPT ![f] = flow[f].sender] /\ UNCHANGED rwOwner
    [] OTHER ->
         rwOwner' = [rwOwner EXCEPT ![f] = @ \cup flow[f].sender] /\ UNCHANGED nsAdmin

\* The answer is lost: the page stops, with an error and without the ids.
ExecutedUnseen(f) ==
  /\ Failing
  /\ flow[f].stage = "executing"
  /\ OnChainEffect(f)
  /\ flow' = [flow EXCEPT ![f].stage = "failed"]
  /\ UNCHANGED <<account, mounted, remembered>>

NamespaceCreated(f) ==
  /\ flow[f].stage = "executing"
  /\ flow[f].action = "namespace-create"
  /\ OnChainEffect(f)
  /\ flow' = [flow EXCEPT ![f].stage = "preparing", ![f].action = "rw-cap-mint"]
  /\ UNCHANGED <<account, mounted, remembered, bounds>>

\* rememberProvisioning saves for the account that was connected at the click.
Minted_ForCurrentAccount(f) ==                                      \* mutant
  /\ flow[f].stage = "executing"
  /\ flow[f].action = "rw-cap-mint"
  /\ OnChainEffect(f)
  /\ flow' = [flow EXCEPT ![f].stage = "done"]
  /\ remembered' = IF account = {} THEN remembered ELSE {[suiAddress |-> account, namespace |-> f]}
  /\ UNCHANGED <<account, mounted, bounds>>

Minted(f) ==
  /\ flow[f].stage = "executing"
  /\ flow[f].action = "rw-cap-mint"
  /\ OnChainEffect(f)
  /\ flow' = [flow EXCEPT ![f].stage = "done"]
  /\ remembered' = {[suiAddress |-> flow[f].sender, namespace |-> f]}
  /\ UNCHANGED <<account, mounted, bounds>>

\* loadHostedProvisioningState.
Load(a) == {s.namespace : s \in {r \in remembered : r.suiAddress = a}}

ProvisionStep ==
  \/ \E x \in OptionalAccount : SwitchAccount(x)
  \/ LeaveStep
  \/ \E f \in Flow :
       Provision(f) \/ Stops(f) \/ Prepared(f) \/ Signed(f) \/ SignedByAnother(f) \/ ExecutedUnseen(f)
         \/ NamespaceCreated(f) \/ Minted(f)

-----------------------------------------------------------------------------
ProvisionTypeOK ==
  /\ account \in OptionalAccount
  /\ switches \in 0..MaxSwitches
  /\ failures \in 0..MaxFailures
  /\ mounted \subseteq Flow
  /\ flow \in [Flow -> {NoFlow} \cup [stage : Stages \cup {"done", "failed"},
                                      sender : OneAccount, action : Actions]]
  /\ nsAdmin \in [Flow -> OptionalAccount]
  /\ rwOwner \in [Flow -> OptionalAccount]
  /\ remembered \in SUBSET [suiAddress : OneAccount, namespace : Flow]

\* What the browser remembers for an address is a namespace that address owns, with
\* its Admin and a ReadWrite capability: whatever account is connected when the
\* answers arrive, and however many runs are under way after leaving the step and
\* coming back (page.tsx 33-40, SponsoredProvisioning.tsx 103-161).  And what a run
\* posts is a request the server takes and its own limits allow, for the account of the
\* click alone (sponsored-provisioning.ts 84-180).
RememberedIsComplete ==
  /\ \A s \in remembered :
       nsAdmin[s.namespace] = s.suiAddress /\ rwOwner[s.namespace] = s.suiAddress
  /\ \A f \in Flow : Running(f) =>
       /\ ValidRequest(Posted(f)) /\ RequestFits(Posted(f))
       /\ MoveCall(Posted(f)).to = flow[f].sender
=============================================================================
