--------------------------- MODULE SponsoredRequest ---------------------------
(*****************************************************************************)
(* What the hosted dashboard's server makes of a request for a sponsored     *)
(* transaction (sponsored-provisioning.ts and -shared.ts): which requests it *)
(* takes, the Move call it builds, the limits it gives the sponsor, and what *)
(* it looks for in the transaction once that has been executed.              *)
(*                                                                           *)
(* An input's fields are {} where missing or malformed, else {value}.        *)
(*****************************************************************************)

SponsoredAction ==
  {"namespace-create", "rw-cap-mint", "ro-cap-share", "rw-cap-share", "cap-self-revoke"}
Minting == {"rw-cap-mint", "ro-cap-share", "rw-cap-share"}

\* resolveSponsoredProvisioningRequest does not throw.
ValidRequest(input) ==
  /\ input.action \in SponsoredAction
  /\ input.sender # {}
  /\ input.action = "cap-self-revoke" => input.capId # {} /\ input.capKind # {}
  /\ input.action \in Minting => input.namespaceId # {} /\ input.adminCapId # {}
  /\ input.action \in Minting \ {"rw-cap-mint"} => input.recipient # {}

\* A share is to the recipient, the capability made in onboarding is the sender's own.
RecipientOf(input) ==
  IF input.action = "rw-cap-mint" THEN input.sender ELSE input.recipient

ActionKind(action) == IF action = "ro-cap-share" THEN "ReadOnly" ELSE "ReadWrite"

CapabilityMintFunction_Inverted(action) ==                          \* mutant
  IF action = "rw-cap-share" THEN "mint_capability_readonly" ELSE "mint_capability_readwrite"

CapabilityMintFunction(action) ==
  IF action = "ro-cap-share" THEN "mint_capability_readonly" ELSE "mint_capability_readwrite"

MoveTarget(action) ==
  CASE action = "namespace-create" -> "create"
    [] action = "cap-self-revoke" -> "revoke_capability"
    [] OTHER -> CapabilityMintFunction(action)

\* What the sponsor is to allow: these calls, and transfers to these addresses.
Limits(input) ==
  [targets |-> {MoveTarget(input.action)},
   addresses |-> input.sender \cup (IF input.action \in Minting THEN RecipientOf(input) ELSE {})]

\* The transaction: a function of namespace.move, the object it consumes or shows, and
\* whoever receives what it makes.
MoveCall(input) ==
  CASE input.action = "namespace-create" ->
         [function |-> "create", object |-> {}, to |-> input.sender]
    [] input.action = "cap-self-revoke" ->
         [function |-> "revoke_capability", object |-> input.capId, to |-> {}]
    [] OTHER ->
         [function |-> CapabilityMintFunction(input.action), object |-> input.adminCapId,
          to |-> RecipientOf(input)]

\* The types a call creates objects of: the namespace, and capabilities by kind.
CreatedTypes(function) ==
  CASE function = "create" -> {"MemoryNamespace", "Admin"}
    [] function = "mint_capability_readonly" -> {"ReadOnly"}
    [] function = "mint_capability_readwrite" -> {"ReadWrite"}
    [] function = "revoke_capability" -> {}

\* executeSponsoredProvisioning throws unless the transaction has created these.
ExpectedTypes(action) ==
  CASE action = "namespace-create" -> {"MemoryNamespace", "Admin"}
    [] action = "cap-self-revoke" -> {}
    [] OTHER -> {ActionKind(action)}

\* findCreatedObject finds them all.
FindsCreated(action, types) == ExpectedTypes(action) \subseteq types

\* The server never builds what its own limits forbid, and what it looks for is what the
\* contract makes of the call, so an executed transaction is not reported as a failure.
RequestFits(input) ==
  LET call == MoveCall(input) IN
  /\ call.function \in Limits(input).targets
  /\ call.to \subseteq Limits(input).addresses
  /\ call.function # "create" => call.object # {}
  /\ FindsCreated(input.action, CreatedTypes(call.function))
=============================================================================
