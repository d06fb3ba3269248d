------------------------------- MODULE Sharing --------------------------------
(******************************************************************************)
(* Sharing a namespace and taking it back: `onemem namespace` share, revoke   *)
(* and admin-revoke, the tools of the MCP server, and the share page of the   *)
(* hosted dashboard with its history panel, all on the contract of Namespace. *)
(*                                                                            *)
(* A transaction names owned capabilities by version: if one of them was used *)
(* or moved since the transaction was built, the network rejects it.          *)
(******************************************************************************)
EXTENDS CapHistory, SponsoredRequest

CONSTANTS
  Op,             \* runs of a command, tool or page handler
  AdminArg,       \* capability ids given as Admin capability
  ShareKind       \* kinds of capability that are shared

ASSUME SharingConstants == ShareKind \subseteq {"ReadOnly", "ReadWrite"} /\ AdminArg \subseteq CapId

VARIABLES
  op,             \* the state of each
  field,          \* the namespace id entered in the share page: {} or one
  panel           \* its ShareHistoryPanel: [status, shown]

sharingVars == <<nsVars, ledger, request, op, field, panel>>

Pending == {"built", "stale", "executed"}

\* The owned objects of the transaction, and whether it would succeed now.
Inputs(r) == IF r.cmd = "revoke" THEN {r.capId} ELSE {r.adminCapId}
WouldSucceed(r) ==
  IF r.cmd = "revoke" THEN r.capId \in DOMAIN caps
  ELSE Accepted(r.adminCapId, r.namespaceId, "Admin")

-----------------------------------------------------------------------------
SharingInit ==
  /\ ChainInit
  /\ op = [o \in Op |-> [stage |-> "none"]]
  /\ field = {}
  /\ panel = [status |-> "idle", shown |-> {}]

\* The rows the panel has, which stay while it loads others.
Rows == UNION {History(q) : q \in panel.shown}

PageBusy == \E o \in Op : op[o].stage \in Pending /\ op[o].via = "page"

\* A run starts with the dry run of its transaction: what it has read before cannot
\* change (a capability's kind) or is read again by it.  If the dry run fails, so does
\* the run, and nothing has happened.
Started(o, r) ==
  /\ op[o].stage = "none"
  /\ WouldSucceed(r)
  /\ op' = [op EXCEPT ![o] = r]

NamespaceShare(o, n, admin, kind) ==
  /\ Started(o, [stage |-> "built", via |-> "other", cmd |-> "share", namespaceId |-> n,
                 adminCapId |-> admin, kind |-> kind])
  /\ UNCHANGED <<nsVars, historyVars, field, panel>>

\* share of HostedShareView: with the fields as they are at the click.
PageShare(o, admin, kind) ==
  /\ ~PageBusy
  /\ \E n \in field :
       Started(o, [stage |-> "built", via |-> "page", cmd |-> "share", namespaceId |-> n,
                   adminCapId |-> admin, kind |-> kind])
  /\ UNCHANGED <<nsVars, historyVars, field, panel>>

ActionFor(kind) == IF kind = "ReadOnly" THEN "ro-cap-share" ELSE "rw-cap-share"

\* namespaceCapabilityFromSuiObject: what is read of a capability, if it exists.
Details(c) == {caps[x] : x \in DOMAIN caps \cap {c}}

\* What the share page and the landing page post for a run of theirs.
SponsoredInputs(r) ==
  CASE r.via = "page" ->
         {[action |-> ActionFor(r.kind), sender |-> {capability.owner}, recipient |-> {a},
           namespaceId |-> {r.namespaceId}, adminCapId |-> {r.adminCapId},
           capId |-> {}, capKind |-> {}] : a \in Address, capability \in Details(r.adminCapId)}
    [] r.via = "landing" ->
         {[action |-> "cap-self-revoke", sender |-> {capability.owner}, recipient |-> {},
           namespaceId |-> {}, adminCapId |-> {}, capId |-> {r.capId},
           capKind |-> {capability.kind}] : capability \in Details(r.capId)}
    [] OTHER -> {}

\* getCapabilityKind finds an object that exists; an Admin capability is revoked only
\* with --allow-admin, allowAdmin or the page's check box.  Otherwise nothing is done.
RevokeAllowed(c, allowAdmin) ==
  c \in DOMAIN caps /\ (caps[c].kind = "Admin" => allowAdmin)

Revoke(o, c, allowAdmin, via) ==
  /\ RevokeAllowed(c, allowAdmin)
  /\ Started(o, [stage |-> "built", via |-> via, cmd |-> "revoke", capId |-> c])
  /\ UNCHANGED <<nsVars, historyVars, field, panel>>

NamespaceRevoke(o, c, allowAdmin) == Revoke(o, c, allowAdmin, "other")

\* On the capability's landing page, by the account that owned it when the page was loaded.
\* The owner may have changed since, which the dry run notices.
SelfRevoke(o, c, adminAck) == Revoke(o, c, adminAck, "landing")

NamespaceAdminRevoke(o, n, admin, c, allowAdmin) ==
  /\ RevokeAllowed(c, allowAdmin)
  /\ Started(o, [stage |-> "built", via |-> "other", cmd |-> "admin_revoke", namespaceId |-> n,
                 adminCapId |-> admin, capId |-> c])
  /\ UNCHANGED <<nsVars, historyVars, field, panel>>

\* The kind a share mints: the page's, through the server's table of actions.
MintedKinds(r) ==
  IF r.via = "page" THEN CreatedTypes(MoveTarget(ActionFor(r.kind))) ELSE {r.kind}

\* The Move call of a run.
Effect(r, c, recipient) ==
  CASE r.cmd = "share" ->
         \E kind \in MintedKinds(r) : Mint(r.namespaceId, r.adminCapId, kind, recipient, c)
    [] r.cmd = "revoke" -> RevokeCapability(r.capId) /\ c = r.capId
    [] r.cmd = "admin_revoke" ->
         AdminRevokeCapability(r.namespaceId, r.adminCapId, r.capId) /\ c = r.capId

\* Whatever was built on an object that has now been used is stale.
Outdated(used) ==
  [p \in Op |-> IF op[p].stage = "built" /\ Inputs(op[p]) \cap used # {}
                THEN [op[p] EXCEPT !.stage = "stale"] ELSE op[p]]

\* What is known of it afterwards: for a share, the capability it has made.
Outcome(r, c) ==
  IF r.cmd = "share"
  THEN [stage |-> "executed", via |-> r.via, cmd |-> "share", namespaceId |-> r.namespaceId,
        kind |-> r.kind, capId |-> c]
  ELSE [r EXCEPT !.stage = "executed"]

Execute(o, c) ==
  /\ op[o].stage = "built"
  /\ \E recipient \in Address : Effect(op[o], c, recipient)
  /\ Logged
  /\ op' = [Outdated(Inputs(op[o])) EXCEPT ![o] = Outcome(op[o], c)]
  /\ UNCHANGED <<request, field, panel>>

\* The effect of ShareHistoryPanel: a request for the field's namespace, after aborting
\* the one before, of which nothing is heard again.
Refreshed_Unaborted(n) ==                                           \* mutant
  \E q \in Request :
    /\ request[q] = NoRequest
    /\ request' = [request EXCEPT ![q] = Asked(n)]
    /\ panel' = [panel EXCEPT !.status = "loading"]

Refreshed(n) ==
  \E q \in Request :
    /\ request[q] = NoRequest
    /\ request' = [Aborted EXCEPT ![q] = Asked(n)]
    /\ panel' = [panel EXCEPT !.status = "loading"]

Done(r) == [r EXCEPT !.stage = "done"]

\* The command or the tool prints its success.
Reports(o) ==
  /\ op[o].stage = "executed" /\ op[o].via # "page"
  /\ op' = [op EXCEPT ![o] = Done(op[o])]
  /\ UNCHANGED <<nsVars, historyVars, field, panel>>

\* The page shows the capability the server has found and asks for the history of the
\* field's namespace.
PageReports(o) ==
  /\ op[o].stage = "executed" /\ op[o].via = "page"
  /\ FindsCreated(ActionFor(op[o].kind), {minted[op[o].capId].kind})
  /\ op' = [op EXCEPT ![o] = Done(op[o])]
  /\ IF field = {} THEN UNCHANGED <<request, panel>> ELSE \E n \in field : Refreshed(n)
  /\ UNCHANGED <<nsVars, ledger, field>>

\* The answer is lost: the command or the page reports an error.
AnswerLost(o) ==
  /\ op[o].stage = "executed"
  /\ op' = [op EXCEPT ![o] = Failed]
  /\ UNCHANGED <<nsVars, historyVars, field, panel>>

Rejected_Unnoticed(o) ==                                            \* mutant
  /\ op[o].stage = "stale"
  /\ op' = [op EXCEPT ![o] = IF op[o].cmd = "share" THEN Failed ELSE Done(op[o])]
  /\ UNCHANGED <<nsVars, historyVars, field, panel>>

Rejected(o) ==
  /\ op[o].stage = "stale"
  /\ op' = [op EXCEPT ![o] = Failed]
  /\ UNCHANGED <<nsVars, historyVars, field, panel>>

\* A holder's wallet moves a capability.
Transferred(c, recipient) ==
  /\ TransferCapability(c, recipient)
  /\ op' = Outdated({c})
  /\ UNCHANGED <<historyVars, field, panel>>

-----------------------------------------------------------------------------
\* The namespace field of the share page.
EnterNamespace(n) ==
  /\ field # {n}
  /\ field' = {n}
  /\ Refreshed(n)
  /\ UNCHANGED <<nsVars, ledger, op>>

ClearNamespace ==
  /\ field # {}
  /\ field' = {}
  /\ request' = Aborted
  /\ panel' = [status |-> "idle", shown |-> {}]
  /\ UNCHANGED <<nsVars, ledger, op>>

\* The route answers.
Answered(q) ==
  /\ Joined(q)
  /\ panel' = [status |-> "ready", shown |-> {q}]
  /\ UNCHANGED <<nsVars, ledger, op, field>>

Errored(q) ==
  /\ Fails(q)
  /\ panel' = [status |-> "error", shown |-> {}]
  /\ UNCHANGED <<nsVars, ledger, op, field>>

PageOfEvents(q, s, h) ==
  /\ QueryEvents(q, s, h)
  /\ UNCHANGED <<nsVars, ledger, op, field, panel>>

SharingNext ==
  \/ \E o \in Op :
       \/ \E admin \in AdminArg, kind \in ShareKind :
            \/ PageShare(o, admin, kind)
            \/ \E n \in NamespaceId : NamespaceShare(o, n, admin, kind)
       \/ \E c \in DOMAIN minted, allowAdmin \in BOOLEAN :
            \/ NamespaceRevoke(o, c, allowAdmin) \/ SelfRevoke(o, c, allowAdmin)
            \/ \E n \in NamespaceId, admin \in AdminArg :
                 NamespaceAdminRevoke(o, n, admin, c, allowAdmin)
       \/ Rejected(o) \/ Reports(o) \/ PageReports(o) \/ AnswerLost(o)
       \/ \E c \in CapId : Execute(o, c)
  \/ \E c \in CapId, recipient \in Address : Transferred(c, recipient)
  \/ \E n \in NamespaceId : EnterNamespace(n)
  \/ ClearNamespace
  \/ \E q \in Request :
       \/ Answered(q) \/ Errored(q)
       \/ \E s \in Stream : \E h \in 0..Len(ledger[s]) : PageOfEvents(q, s, h)

SharingSpec == SharingInit /\ [][SharingNext]_sharingVars

-----------------------------------------------------------------------------
\* Types of the runs, the requests and the page; a Revoked event is logged once.
SharingTypeOK ==
  /\ NsTypeOK
  /\ \A s \in Stream : Range(ledger[s]) \subseteq [namespace_id : NamespaceId, cap_id : CapId]
  /\ \A s \in Stream : IsInjective(ledger[s])
  /\ \A q \in Request : request[q].stage \notin {"none", "failed"} =>
       /\ request[q].stage \in {"reading", "done"}
       /\ \A s \in Stream : /\ request[q][s].rows \subseteq CapId
                            /\ request[q][s].cursor <= request[q][s].horizon
                            /\ request[q][s].horizon <= Len(ledger[s])
  /\ \A o \in Op : op[o].stage \in Pending \cup {"none", "done", "failed"}
  /\ field \in {{}} \cup {{n} : n \in NamespaceId}
  /\ panel \in [status : {"idle", "loading", "ready", "error"},
                shown : SUBSET Request]

\* What is reported as revoked never works again, and what is reported as shared is
\* what was asked for, although revokeCapability and adminRevokeCapability never read
\* whether their transaction succeeded: nothing that another run or wallet does after
\* the dry run can make it abort, because it would use the same owned object and the
\* network would reject the outdated version.  Except for an admin revocation of
\* another namespace's capability, which succeeds and revokes nothing
\* (namespaces.ts 237-276, namespace.ts 109-178).  And the server takes what the page
\* posts, lets the sponsor pay for the transaction it builds of it, and finds in it what
\* it looks for: no share is made on chain and reported as a failure by the code's own
\* doing (sponsored-provisioning.ts 84-180, 245-276).
ReportedIsInForce ==
  \A o \in Op :
    /\ op[o].stage = "built" => WouldSucceed(op[o])
    /\ op[o].stage = "executed" /\ op[o].via = "page" =>
         FindsCreated(ActionFor(op[o].kind), {minted[op[o].capId].kind})
    /\ op[o].stage = "built" =>
         \A input \in SponsoredInputs(op[o]) : ValidRequest(input) /\ RequestFits(input)
    /\ op[o].stage = "done" =>
         LET c == op[o].capId IN
         IF op[o].cmd = "share"
         THEN minted[c] = [kind |-> op[o].kind, namespace_id |-> op[o].namespaceId]
         ELSE \/ ~Works(c)
              \/ op[o].cmd = "admin_revoke" /\ op[o].namespaceId # minted[c].namespace_id

\* A panel that is not loading shows the namespace in the field and no other, and
\* once the page has reported a share the capability is in the panel of that
\* namespace, if the node's index is up to date: however often the field is edited
\* while requests and shares are under way (ShareHistoryPanel.tsx 63-94,
\* HostedShareView.tsx 143-149).
PanelIsCurrent ==
  panel.status = "ready" =>
    /\ \A row \in Rows : {minted[row.capId].namespace_id} = field
    /\ \A o \in Op, q \in panel.shown :
         /\ op[o].stage = "done" /\ op[o].via = "page"
         /\ {op[o].namespaceId} = field
         /\ UpToDate(q)
         => op[o].capId \in {row.capId : row \in Rows}
=============================================================================
