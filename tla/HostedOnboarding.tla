--------------------------- MODULE HostedOnboarding ---------------------------
(***************************************************************************)
(* The hosted dashboard's onboarding page and its cli-login page in one    *)
(* browser, which share its local storage and nothing else, with the CLI   *)
(* that waits for the credentials and a reader of the file they end up in. *)
(***************************************************************************)
EXTENDS CliLogin

vars == <<provisionVars, bounds, loginVars>>

Init == ProvisionInit /\ LoginInit

\* The user turns to the login page when the onboarding is at rest (a bound); what
\* it leaves is what it has stored in the browser and on chain.
Onboarding == ~open /\ ProvisionStep /\ UNCHANGED loginVars
TurnToLogin ==
  /\ \A f \in Flow : ~Running(f)
  /\ flow' = [f \in Flow |-> NoFlow]
  /\ mounted' = {}
  /\ OpenLogin
  /\ UNCHANGED <<nsAdmin, rwOwner, remembered, bounds>>
Login == open /\ LoginStep /\ UNCHANGED <<mounted, flow, nsAdmin, rwOwner, remembered>>

Next == Onboarding \/ TurnToLogin \/ Login

Spec == Init /\ [][Next]_vars

-----------------------------------------------------------------------------
\* Types of both pages, the CLI and the chain; whatever is under way was started by
\* a connected account.
HostedTypeOK ==
  /\ ProvisionTypeOK
  /\ open \in BOOLEAN
  /\ lookup \in SUBSET [owner : OneAccount, accountId : OptionalAccount]
  /\ looking \in OptionalAccount
  /\ hosted \in SUBSET Flow
  /\ status \in {"idle", "loading-account", "creating-account", "pairing", "paired"}
  /\ creating \in SUBSET [signer : OneAccount, owner : OneAccount]
  /\ approval \in [Delegate ->
       {NoApproval}
       \cup [stage : {"register", "post", "posted", "accepted", "rejected", "done", "failed"},
             suiAddress : OneAccount, accountId : OneAccount, namespace : SUBSET Flow]]
  /\ memwal \subseteq Account
  /\ registered \in SUBSET [delegate : Delegate, accountId : OneAccount, sender : OneAccount]
  /\ cli \in [server : {"open", "closed"}, settled : SUBSET Delegate]
  /\ validating \cup beaten \cup claimed \subseteq Delegate
  /\ file \in {"missing", "torn", "saved"}
  /\ expired \in BOOLEAN

\* The credentials the CLI settles with are true of the chain: their delegate is
\* registered on the MemWal account of the address they name, by that address, and
\* the namespace they name is that address's own, with a ReadWrite capability;
\* however often the wallet's account is switched between lookup, click, signature
\* and callback (page.tsx 83-224, login-validation.ts 153-290, hosted-state.ts 30-62).
CredentialsAreTrue ==
  \A d \in cli.settled :
    LET p == approval[d] IN
    /\ p.accountId = p.suiAddress
    /\ [delegate |-> d, accountId |-> p.accountId, sender |-> p.suiAddress] \in registered
    /\ \A n \in p.namespace : rwOwner[n] = p.suiAddress

\* "Pairing complete" is shown only for credentials the CLI has settled with, unless
\* its timer fired or another callback won while these were being validated: they
\* are answered 200 and dropped all the same (login.ts 103-134, page.tsx 189-215).
PairedMeansSettled ==
  \A d \in claimed : d \in cli.settled \/ d \in beaten

\* A configuration that a reader resolves works: unless the environment gives both of
\* its fields, it takes none from a file that is torn or has expired; if it gives
\* neither, the delegate is registered on the account (credentials.ts 53-64, 114-168).
\* What the dashboard says of the file agrees with what every other reader resolves:
\* "configured" or "partial" never of one that is torn or whose delegate has expired,
\* unless the environment makes up for it (local-credentials.ts 86-158).
ConfigWorks ==
  \A env \in EnvChoice :
    /\ \A c \in Config(env) :
         /\ env.delegate = {} \/ env.accountId = {} => file = "saved" /\ ~expired
         /\ env.delegate = {} /\ env.accountId = {} =>
              \E r \in registered : {r.delegate} = c.delegate /\ r.accountId = c.accountId
    /\ CredentialSummary(env) = "configured" => Config(env) # {}
    /\ CredentialSummary(env) = "partial" => ~expired /\ Config(env) = {}
    /\ file = "saved" /\ Config(env) = {} => CredentialSummary(env) \in {"expired", "partial"}
=============================================================================
