----------------------------- MODULE Provisioning -----------------------------
(*****************************************************************************)
(* resolveSigner and ensureNamespace of sdk-ts (runtime.ts): a process that  *)
(* records without configuration finds, or creates and saves, a wallet and a *)
(* namespace with a ReadWrite capability.  The wallet and the target are two *)
(* files of the user's home, shared by all processes and locked by none.     *)
(*****************************************************************************)
EXTENDS Recorder

CONSTANTS
  Proc,           \* processes; also the keys they generate
  Attempt         \* calls of ensureNamespace; also the namespaces they create

VARIABLES
  wallet,         \* wallet.key: {} or the key it holds
  signer,         \* the key each process signs with, if it has one
  generating,     \* processes that found no wallet and have not saved theirs yet
  walletRaced,    \* two processes generated a wallet at the same time
  target,         \* <label>.<network>.json: {} or the namespace it names
  capOwner,       \* on chain: the keys that own the ReadWrite capability of a namespace
  attempt         \* the state of each call of ensureNamespace

provisioningVars ==
  <<wallet, signer, generating, walletRaced, target, capOwner, attempt>>

NoAttempt == [stage |-> "none", proc |-> {}, result |-> {}]

-----------------------------------------------------------------------------
ProvisioningInit ==
  /\ wallet = {}
  /\ signer = [w \in Proc |-> {}]
  /\ generating = {}
  /\ walletRaced = FALSE
  /\ target = {}
  /\ capOwner = [a \in Attempt |-> {}]
  /\ attempt = [a \in Attempt |-> NoAttempt]

\* resolveSigner: the saved wallet, or a new key ...
ReadWallet(w) ==
  /\ signer[w] = {}
  /\ w \notin generating
  /\ IF wallet # {}
     THEN signer' = [signer EXCEPT ![w] = wallet] /\ UNCHANGED <<generating, walletRaced>>
     ELSE /\ generating' = generating \cup {w}
          /\ walletRaced' = (walletRaced \/ generating # {})
          /\ UNCHANGED signer
  /\ UNCHANGED <<recorderVars, wallet, target, capOwner, attempt>>

\* ... which is saved before it is used, over whatever is there by now.
SaveWallet(w) ==
  /\ w \in generating
  /\ generating' = generating \ {w}
  /\ signer' = [signer EXCEPT ![w] = {w}]
  /\ wallet' = {w}
  /\ UNCHANGED <<recorderVars, walletRaced, target, capOwner, attempt>>

SetAttempt(a, stage) == attempt' = [attempt EXCEPT ![a].stage = stage]

\* ensureNamespace, up to its first await: the saved target, if there is one.
BeginAttempt(a, w) ==
  /\ attempt[a].stage = "none"
  /\ attempt' = [attempt EXCEPT ![a] =
                   IF target # {} THEN [stage |-> "ready", proc |-> {w}, result |-> target]
                   ELSE [stage |-> "create", proc |-> {w}, result |-> {}]]

\* namespaces.create: with ensureGas before it, which never fails.
CreateNamespace(a, o) ==
  /\ attempt[a].stage = "create"
  /\ Charge(o)
  /\ SetAttempt(a, IF Throws(o) THEN "failed" ELSE "share")
  /\ UNCHANGED <<onchain, run, wallet, signer, generating, walletRaced, target, capOwner>>

ShareReadWrite(a, o) ==
  /\ attempt[a].stage = "share"
  /\ Charge(o)
  /\ capOwner' = IF Executed(o) THEN [capOwner EXCEPT ![a] = signer[CHOOSE w \in attempt[a].proc : TRUE]]
                 ELSE capOwner
  /\ SetAttempt(a, IF Throws(o) THEN "failed" ELSE "save")
  /\ UNCHANGED <<onchain, run, wallet, signer, generating, walletRaced, target>>

\* writeJsonAtomic: the later rename wins.
SaveTarget_Early(a) ==                                              \* mutant
  /\ attempt[a].stage \in {"share", "save"}
  /\ target' = {a}
  /\ attempt' = [attempt EXCEPT ![a].stage = "ready", ![a].result = {a}]
  /\ UNCHANGED <<recorderVars, wallet, signer, generating, walletRaced, capOwner>>

SaveTarget(a) ==
  /\ attempt[a].stage = "save"
  /\ target' = {a}
  /\ attempt' = [attempt EXCEPT ![a].stage = "ready", ![a].result = {a}]
  /\ UNCHANGED <<recorderVars, wallet, signer, generating, walletRaced, capOwner>>

InFlight(a) == attempt[a].stage \in {"create", "share", "save"}

ProvisioningStep ==
  \/ \E w \in Proc : ReadWallet(w) \/ SaveWallet(w)
  \/ \E a \in Attempt, o \in Outcome : CreateNamespace(a, o) \/ ShareReadWrite(a, o)
  \/ \E a \in Attempt : SaveTarget(a)

-----------------------------------------------------------------------------
ProvisioningTypeOK ==
  /\ wallet \in {{}} \cup {{w} : w \in Proc}
  /\ signer \in [Proc -> {{}} \cup {{w} : w \in Proc}]
  /\ generating \subseteq Proc
  /\ walletRaced \in BOOLEAN
  /\ target \in SUBSET Attempt
  /\ capOwner \in [Attempt -> SUBSET Proc]
  /\ attempt \in [Attempt -> [stage : {"none", "create", "share", "save", "ready", "failed"},
                              proc : SUBSET Proc, result : SUBSET Attempt]]

\* The saved target is usable: it names a namespace whose ReadWrite capability the
\* saved wallet owns, whatever fails, and crashes, between creating the namespace
\* and saving it.  Only two processes that generated a wallet at the same time can
\* leave a target of the key that lost; nothing compares the address saved with
\* it (runtime.ts 112-133, 171-208).
SavedTargetIsUsable ==
  \A a \in target : capOwner[a] # {} /\ (capOwner[a] = wallet \/ walletRaced)
=============================================================================
