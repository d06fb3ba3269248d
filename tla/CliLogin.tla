------------------------------- MODULE CliLogin -------------------------------
(*****************************************************************************)
(* `onemem login`: the CLI waits at a callback server; the hosted page       *)
(* cli-login finds or creates the MemWal account of the connected wallet,    *)
(* registers a fresh delegate key on it and posts the credentials back; the  *)
(* CLI checks them against the chain and saves the first that pass.          *)
(*                                                                           *)
(* Handlers of the page keep the account, lookup and namespace of the moment *)
(* of the click; the wallet signs with the account of the moment of signing. *)
(*****************************************************************************)
EXTENDS SponsoredProvisioning

CONSTANTS
  Delegate,       \* delegate keys: one for each click on Approve
  EnvChoice       \* environments of the readers of the credentials

VARIABLES
  open,           \* the login page is open
  lookup,         \* the MemWal lookup shown: {} or [owner, accountId]
  looking,        \* the account whose lookup is under way
  hosted,         \* the namespace remembered for that account, as loaded
  status,         \* PairingStatus
  creating,       \* create_account transactions under way
  approval,       \* the state of each approve()
  memwal,         \* on chain: accounts that have a MemWal account
  registered,     \* on chain: add_delegate_key transactions
  cli,            \* the CLI: its server, and the delegate its promise settled with
  validating,     \* callbacks the CLI is checking
  beaten,         \* of these, the ones for which something else settled first
  claimed,        \* delegates for which the page has shown "Pairing complete"
  file,           \* credentials.json: missing, torn, or the delegate it names
  expired         \* the saved credentials have expired

loginVars == <<open, lookup, looking, hosted, status, creating, approval, memwal, registered,
               cli, validating, beaten, claimed, file, expired>>
pageVars == <<account, open, lookup, looking, hosted>>
cliVars == <<cli, validating, beaten, file>>

NoApproval == [stage |-> "none"]

\* canPair and running of the page.
CanPair == account # {} /\ \E l \in lookup : l.accountId # {}
Busy == status \in {"creating-account", "pairing"}

-----------------------------------------------------------------------------
LoginInit ==
  /\ open = FALSE
  /\ lookup = {} /\ looking = {} /\ hosted = {}
  /\ status = "idle"
  /\ creating = {}
  /\ approval = [d \in Delegate |-> NoApproval]
  /\ memwal \in SUBSET Account
  /\ registered = {}
  /\ cli = [server |-> "open", settled |-> {}]
  /\ validating = {} /\ beaten = {} /\ claimed = {}
  /\ file = "missing"
  /\ expired = FALSE

\* The CLI opens the page, which connects the wallet's account by itself.
OpenLogin ==
  /\ ~open
  /\ open' = TRUE
  /\ looking' = account
  /\ status' = IF account = {} THEN "idle" ELSE "loading-account"
  /\ UNCHANGED <<account, lookup, hosted, creating, approval, memwal, registered, cliVars, claimed,
                 expired>>

\* The account effect: the lookup of the account before stays until the new one is
\* answered, and "loading-account" does not disable the buttons.
Connect(x) ==
  /\ open
  /\ x # account
  /\ account' = x
  /\ looking' = x
  /\ hosted' = {}
  /\ IF x = {} THEN lookup' = {} /\ UNCHANGED status
     ELSE status' = "loading-account" /\ UNCHANGED lookup
  /\ UNCHANGED <<open, creating, approval, memwal, registered, cliVars, claimed, expired>>

\* lookupCliLoginMemWalAccount.  A full node may not have the newest account yet.
Answered(found) ==
  /\ looking # {}
  /\ lookup' = {[owner |-> looking, accountId |-> found]}
  /\ hosted' = Load(looking)
  /\ status' = "idle"
  /\ looking' = {}
  /\ UNCHANGED <<account, open, creating, approval, memwal, registered, cliVars, claimed, expired>>

LookupAnswers == Answered(looking \cap memwal)
LookupIsStale == looking \subseteq memwal /\ Answered({})

LookupFails ==
  /\ looking # {}
  /\ lookup' = {}
  /\ status' = "idle"
  /\ looking' = {}
  /\ UNCHANGED <<account, open, hosted, creating, approval, memwal, registered, cliVars, claimed,
                 expired>>

\* createMemWalAccount: signed at once, by the account connected at the click.
CreateMemWal ==
  /\ account # {}
  /\ \E l \in lookup :
       /\ l.accountId = {}
       /\ creating' = creating \cup {[signer |-> account, owner |-> l.owner]}
  /\ ~Busy
  /\ status' = "creating-account"
  /\ UNCHANGED <<pageVars, approval, memwal, registered, cliVars, claimed, expired>>

\* One account for each owner; the lookup of the click gets the signer's account.
MemWalCreated(c) ==
  /\ c \in creating
  /\ c.signer \cap memwal = {}
  /\ memwal' = memwal \cup c.signer
  /\ creating' = creating \ {c}
  /\ lookup' = {[owner |-> c.owner, accountId |-> c.signer]}
  /\ status' = "idle"
  /\ UNCHANGED <<account, open, looking, hosted, approval, registered, cliVars, claimed, expired>>

NotCreated(c) ==
  /\ c \in creating
  /\ creating' = creating \ {c}
  /\ status' = "idle"
  /\ UNCHANGED <<pageVars, approval, registered, cliVars, claimed, expired>>

MemWalExists(c) == NotCreated(c) /\ c.signer \subseteq memwal /\ UNCHANGED memwal
MemWalRefused(c) == NotCreated(c) /\ UNCHANGED memwal
MemWalCreatedUnseen(c) == NotCreated(c) /\ memwal' = memwal \cup c.signer

-----------------------------------------------------------------------------
\* approve, up to generateDelegateKey.
Approve(d) ==
  /\ CanPair
  /\ ~Busy
  /\ approval[d].stage = "none"
  /\ \E l \in lookup :
       approval' = [approval EXCEPT ![d] =
                      [stage |-> "register", suiAddress |-> account, accountId |-> l.accountId,
                       namespace |-> hosted]]
  /\ status' = "pairing"
  /\ UNCHANGED <<pageVars, creating, memwal, registered, cliVars, claimed, expired>>

PairingFails(d) ==
  /\ approval' = [approval EXCEPT ![d].stage = "failed"]
  /\ status' = "idle"

\* add_delegate_key, signed by the account connected now: MemWal accepts it only
\* from the owner of the account.
Registers(d) ==
  /\ approval[d].stage = "register"
  /\ account = approval[d].accountId
  /\ registered' = registered \cup {[delegate |-> d, accountId |-> account, sender |-> account]}
  /\ UNCHANGED <<pageVars, creating, memwal, cliVars, claimed, expired>>

Registered(d) ==
  /\ Registers(d)
  /\ approval' = [approval EXCEPT ![d].stage = "post"]
  /\ status' = "pairing"

RegisteredUnseen(d) == Registers(d) /\ PairingFails(d)

NotRegistered(d) ==
  /\ approval[d].stage = "register"
  /\ PairingFails(d)
  /\ UNCHANGED <<pageVars, creating, memwal, registered, cliVars, claimed, expired>>

SignedByNonOwner(d) == NotRegistered(d) /\ account # approval[d].accountId

\* The callback reaches the CLI, or nobody listens any more.
PostCallback(d) ==
  /\ approval[d].stage = "post"
  /\ IF cli.server = "open"
     THEN /\ validating' = validating \cup {d}
          /\ approval' = [approval EXCEPT ![d].stage = "posted"]
          /\ status' = "pairing"
     ELSE PairingFails(d) /\ UNCHANGED validating
  /\ UNCHANGED <<pageVars, creating, memwal, registered, cli, beaten, claimed, file, expired>>

CallbackAnswered(d) ==
  /\ approval[d].stage \in {"accepted", "rejected"}
  /\ IF approval[d].stage = "accepted"
     THEN /\ approval' = [approval EXCEPT ![d].stage = "done"]
          /\ status' = "paired"
          /\ claimed' = claimed \cup {d}
     ELSE PairingFails(d) /\ UNCHANGED claimed
  /\ UNCHANGED <<pageVars, creating, memwal, registered, cliVars, expired>>

-----------------------------------------------------------------------------
\* validateLoginCredentialPayload: the registration's sender, account and key are
\* those of the payload.
Valid_AnySender(d) ==                                               \* mutant
  \E r \in registered : r.delegate = d /\ r.accountId = approval[d].accountId

Valid(d) ==
  [delegate |-> d, accountId |-> approval[d].accountId, sender |-> approval[d].suiAddress]
    \in registered

\* The first to settle wins; a callback under validation is answered all the same.
Settle(d) ==
  /\ cli' = [server |-> "closed",
             settled |-> IF cli.server = "open" /\ cli.settled = {} THEN {d} ELSE cli.settled]
  /\ beaten' = IF cli.server = "open" THEN beaten \cup (validating \ {d}) ELSE beaten

Validated_AnswersFirst(d) ==                                        \* mutant
  /\ d \in validating
  /\ validating' = validating \ {d}
  /\ approval' = [approval EXCEPT ![d].stage = "accepted"]
  /\ IF Valid(d) THEN Settle(d) ELSE UNCHANGED <<cli, beaten>>
  /\ UNCHANGED <<pageVars, status, creating, memwal, registered, claimed, file, expired>>

Validated(d) ==
  /\ d \in validating
  /\ validating' = validating \ {d}
  /\ IF Valid(d)
     THEN approval' = [approval EXCEPT ![d].stage = "accepted"] /\ Settle(d)
     ELSE approval' = [approval EXCEPT ![d].stage = "rejected"] /\ UNCHANGED <<cli, beaten>>
  /\ UNCHANGED <<pageVars, status, creating, memwal, registered, claimed, file, expired>>

\* The full node does not answer, or does not know the transaction yet.
ValidationFails(d) ==
  /\ d \in validating
  /\ validating' = validating \ {d}
  /\ approval' = [approval EXCEPT ![d].stage = "rejected"]
  /\ UNCHANGED <<pageVars, status, creating, memwal, registered, cli, beaten, claimed, file,
                 expired>>

\* "login timed out - no callback received": the callbacks under validation go on.
Timeout ==
  /\ cli.server = "open"
  /\ cli' = [cli EXCEPT !.server = "closed"]
  /\ beaten' = beaten \cup validating
  /\ UNCHANGED <<pageVars, status, creating, approval, memwal, registered, validating, claimed,
                 file, expired>>

\* writeFileSync truncates the file first; the process may die in between.
BeginSave ==
  /\ cli.settled # {}
  /\ file = "missing"
  /\ file' = "torn"
  /\ UNCHANGED <<pageVars, status, creating, approval, memwal, registered, cli, validating, beaten,
                 claimed, expired>>

EndSave ==
  /\ file = "torn"
  /\ file' = "saved"
  /\ UNCHANGED <<pageVars, status, creating, approval, memwal, registered, cli, validating, beaten,
                 claimed, expired>>

-----------------------------------------------------------------------------
Expire ==
  /\ file = "saved" /\ ~expired
  /\ expired' = TRUE
  /\ UNCHANGED <<pageVars, status, creating, approval, memwal, registered, cliVars, claimed>>

\* resolveMemoryConfigFromSources: field by field, the environment first; a torn file
\* throws, expired credentials count for nothing, and all fields are needed.  The key of
\* the embedding service is not among what the page posts: only the environment has it.
Or(own, saved) == IF own # {} THEN own ELSE saved
SavedAccount == UNION {approval[d].accountId : d \in cli.settled}

Config_Expired(env) ==                                              \* mutant
  LET usable == file = "saved" IN
  {c \in {[delegate |-> Or(env.delegate, IF usable THEN cli.settled ELSE {}),
           accountId |-> Or(env.accountId, IF usable THEN SavedAccount ELSE {})]} :
     file # "torn" /\ c.delegate # {} /\ c.accountId # {} /\ env.embeddingApiKey}

Config(env) ==
  LET usable == file = "saved" /\ ~expired IN
  {c \in {[delegate |-> Or(env.delegate, IF usable THEN cli.settled ELSE {}),
           accountId |-> Or(env.accountId, IF usable THEN SavedAccount ELSE {})]} :
     file # "torn" /\ c.delegate # {} /\ c.accountId # {} /\ env.embeddingApiKey}

\* localCredentialSummary, the status the local dashboard shows: it also wants the package
\* of MemWal, and calls everything missing where there is no file.
CredentialSummary(env) ==
  LET complete == Config(env) # {} /\ (env.memwalPackageId \/ ~expired) IN
  CASE file = "torn" -> "error"
    [] file = "missing" -> "missing"
    [] file = "saved" /\ complete -> "configured"
    [] file = "saved" /\ ~complete -> IF expired THEN "expired" ELSE "partial"

LoginStep ==
  \/ /\ UNCHANGED bounds
     /\ \/ LookupAnswers \/ CreateMemWal
        \/ \E c \in creating : MemWalCreated(c) \/ MemWalExists(c)
        \/ \E d \in Delegate :
             Approve(d) \/ Registered(d) \/ SignedByNonOwner(d) \/ PostCallback(d)
               \/ CallbackAnswered(d) \/ Validated(d)
        \/ Timeout \/ BeginSave \/ EndSave \/ Expire
  \/ /\ Failing
     /\ \/ LookupIsStale \/ LookupFails
        \/ \E c \in creating : MemWalRefused(c) \/ MemWalCreatedUnseen(c)
        \/ \E d \in Delegate : RegisteredUnseen(d) \/ NotRegistered(d) \/ ValidationFails(d)
  \/ Switching /\ \E x \in OptionalAccount : Connect(x)
=============================================================================
