----------------------------- MODULE Namespace ------------------------------
(***************************************************************************)
(* The authority half of the Move package: registry.move, version.move,    *)
(* namespace.move and seal_policy.move.                                    *)
(*                                                                         *)
(* A namespace is a shared object.  Whoever creates it receives its only   *)
(* Admin capability, mints ReadWrite and ReadOnly capabilities to others,  *)
(* and can mark any capability id as revoked.  Capabilities are owned,     *)
(* transferable objects, and a holder can burn one.  A Move entry function *)
(* is atomic and aborts without effect, so each is one action whose guard  *)
(* is the conjunction of its assertions.                                   *)
(***************************************************************************)
EXTENDS Naturals, Objects

CONSTANTS
  Address,        \* Sui addresses
  Name,           \* namespace names
  NamespaceId,    \* ids of MemoryNamespace objects
  CapId,          \* ids of NamespaceCapability objects
  KindArg,        \* values callers pass for the namespace kind (a u8)
  VersionArg      \* values the package admin passes to bump_package_version

ASSUME ArgsAreNumbers == KindArg \subseteq 0..255 /\ VersionArg \subseteq Nat

VARIABLES
  registry,       \* the OneMemRegistry: [version, namespace_index]
  namespaces,     \* the MemoryNamespace objects, by id
  caps,           \* the NamespaceCapability objects that exist, by id
  minted,         \* NamespaceCapabilityMintedEvents, by capability id
  revokedLog      \* <<namespace id, capability id>> of every
                  \* NamespaceCapabilityRevokedEvent

nsVars == <<registry, namespaces, caps, minted, revokedLog>>

VERSION == 1
KIND_MAX_Loose == 5                     \* mutant
KIND_MAX == 4
CapKind == {"ReadOnly", "ReadWrite", "Admin"}

\* An object passes the gate only at the version this package declares.
AssertVersionMatches(object) == object.version = VERSION

(***************************************************************************)
(* Authority checks.                                                       *)
(***************************************************************************)
IsCapabilityRevoked(c, n) ==
  caps[c].namespace_id = n /\ c \in namespaces[n].revoked

\* assert_cap_for_namespace: bound to n and not marked as revoked.
AssertCapForNamespace(c, n) ==
  /\ caps[c].namespace_id = n
  /\ ~IsCapabilityRevoked(c, n)

AssertActive(n) == namespaces[n].active

\* A capability of the given kind that exists and that n accepts.  The kind is
\* a phantom type in Move: the call does not type-check with another one.
Accepted(c, n, kind) ==
  /\ n \in DOMAIN namespaces
  /\ c \in DOMAIN caps
  /\ caps[c].kind = kind
  /\ AssertCapForNamespace(c, n)

\* What Seal's key servers evaluate before they release a key: seal_approve is
\* generic in the kind and takes the blob id as opaque.
SealApprove(n, c) ==
  /\ n \in DOMAIN namespaces
  /\ c \in DOMAIN caps
  /\ AssertActive(n)
  /\ AssertCapForNamespace(c, n)

-----------------------------------------------------------------------------
NsInit ==
  /\ registry = [version |-> VERSION, namespace_index |-> Empty]
  /\ namespaces = Empty
  /\ caps = Empty
  /\ minted = Empty
  /\ revokedLog = {}

\* registry::register as a call of another function or of a caller of its own:
\* it is public and takes the owner and the namespace id from the caller.
RegisterEffect_NoDedup(owner, name, n) ==                       \* mutant
  /\ AssertVersionMatches(registry)
  /\ registry' = [registry EXCEPT !.namespace_index =
                    Put(registry.namespace_index, <<owner, name>>, n)]

RegisterEffect(owner, name, n) ==
  /\ AssertVersionMatches(registry)
  /\ <<owner, name>> \notin DOMAIN registry.namespace_index
  /\ registry' = [registry EXCEPT !.namespace_index =
                    Put(registry.namespace_index, <<owner, name>>, n)]

Register(owner, name, n) ==
  /\ RegisterEffect(owner, name, n)
  /\ UNCHANGED <<namespaces, caps, minted, revokedLog>>

\* Object ids are derived from the transaction, so c was never used before.
MintCapInternal(n, c, kind, recipient) ==
  /\ c \in CapId \ DOMAIN minted
  /\ caps' = Put(caps, c, [kind |-> kind, namespace_id |-> n, owner |-> recipient])
  /\ minted' = Put(minted, c, [kind |-> kind, namespace_id |-> n])

Create(sender, name, kind, n, c) ==
  /\ kind <= KIND_MAX
  /\ n \in NamespaceId \ DOMAIN namespaces
  /\ namespaces' = Put(namespaces, n,
       [owner |-> sender, name |-> name, namespace_kind |-> kind,
        active |-> TRUE, revoked |-> {}, version |-> VERSION])
  /\ MintCapInternal(n, c, "Admin", sender)
  /\ RegisterEffect(sender, name, n)
  /\ UNCHANGED revokedLog

Mint_Unchecked(n, admin, kind, recipient, c) ==                 \* mutant
  /\ n \in DOMAIN namespaces
  /\ MintCapInternal(n, c, kind, recipient)
  /\ UNCHANGED <<registry, namespaces, revokedLog>>

Mint(n, admin, kind, recipient, c) ==
  /\ Accepted(admin, n, "Admin")
  /\ AssertVersionMatches(namespaces[n])
  /\ MintCapInternal(n, c, kind, recipient)
  /\ UNCHANGED <<registry, namespaces, revokedLog>>

MintCapabilityReadWrite(n, admin, recipient, c) ==
  Mint(n, admin, "ReadWrite", recipient, c)

MintCapabilityReadOnly(n, admin, recipient, c) ==
  Mint(n, admin, "ReadOnly", recipient, c)

RevokeCapability_Silent(c) ==                                   \* mutant
  /\ c \in DOMAIN caps
  /\ caps' = Drop(caps, c)
  /\ UNCHANGED <<registry, namespaces, minted, revokedLog>>

\* The holder burns the capability object.
RevokeCapability(c) ==
  /\ c \in DOMAIN caps
  /\ caps' = Drop(caps, c)
  /\ revokedLog' = revokedLog \cup {<<caps[c].namespace_id, c>>}
  /\ UNCHANGED <<registry, namespaces, minted>>

\* The admin marks an id.  The object stays with its holder, and the id may be
\* that of the admin capability itself or of another namespace's capability.
\* Marking a marked id adds neither a marker nor an event.
AdminRevokeCapability(n, admin, c) ==
  /\ Accepted(admin, n, "Admin")
  /\ AssertVersionMatches(namespaces[n])
  /\ c \in DOMAIN minted
  /\ namespaces' = [namespaces EXCEPT ![n].revoked = @ \cup {c}]
  /\ revokedLog' = revokedLog \cup {<<n, c>>}
  /\ UNCHANGED <<registry, caps, minted>>

SetActive(n, admin, flag) ==
  /\ Accepted(admin, n, "Admin")
  /\ AssertVersionMatches(namespaces[n])
  /\ namespaces' = [namespaces EXCEPT ![n].active = flag]
  /\ UNCHANGED <<registry, caps, minted, revokedLog>>

Deactivate(n, admin) == SetActive(n, admin, FALSE)
Reactivate(n, admin) == SetActive(n, admin, TRUE)

\* sui::transfer::public_transfer by the holder: capabilities have key + store.
TransferCapability(c, recipient) ==
  /\ c \in DOMAIN caps
  /\ caps' = [caps EXCEPT ![c].owner = recipient]
  /\ UNCHANGED <<registry, namespaces, minted, revokedLog>>

\* The holder of the RegistryAdminCap, which the publisher received.
BumpPackageVersion(v) ==
  /\ registry' = [registry EXCEPT !.version = v]
  /\ UNCHANGED <<namespaces, caps, minted, revokedLog>>

NsNext ==
  \/ \E owner \in Address, name \in Name, n \in NamespaceId : Register(owner, name, n)
  \/ \E sender \in Address, name \in Name, kind \in KindArg, n \in NamespaceId,
        c \in CapId : Create(sender, name, kind, n, c)
  \/ \E n \in NamespaceId, admin, c \in CapId, recipient \in Address :
        MintCapabilityReadWrite(n, admin, recipient, c)
  \/ \E n \in NamespaceId, admin, c \in CapId, recipient \in Address :
        MintCapabilityReadOnly(n, admin, recipient, c)
  \/ \E c \in CapId : RevokeCapability(c)
  \/ \E n \in NamespaceId, admin, c \in CapId : AdminRevokeCapability(n, admin, c)
  \/ \E n \in NamespaceId, admin \in CapId : Deactivate(n, admin)
  \/ \E n \in NamespaceId, admin \in CapId : Reactivate(n, admin)
  \/ \E c \in CapId, recipient \in Address : TransferCapability(c, recipient)
  \/ \E v \in VersionArg : BumpPackageVersion(v)

NsSpec == NsInit /\ [][NsNext]_nsVars

-----------------------------------------------------------------------------
Namespace == [owner : Address, name : Name, namespace_kind : 0..4,
              active : BOOLEAN, revoked : SUBSET CapId, version : {VERSION}]
Capability == [kind : CapKind, namespace_id : NamespaceId, owner : Address]
MintedEvent == [kind : CapKind, namespace_id : NamespaceId]
Registry == [version : Nat,
             namespace_index : UNION {[K -> NamespaceId] : K \in SUBSET (Address \X Name)}]

\* Types of the registry, the namespaces, the capabilities and the two event
\* logs (the struct declarations of registry.move and namespace.move).
NsTypeOK ==
  /\ registry \in Registry
  /\ DOMAIN namespaces \subseteq NamespaceId
  /\ namespaces \in [DOMAIN namespaces -> Namespace]
  /\ DOMAIN caps \subseteq CapId
  /\ caps \in [DOMAIN caps -> Capability]
  /\ DOMAIN minted \subseteq CapId
  /\ minted \in [DOMAIN minted -> MintedEvent]
  /\ revokedLog \subseteq NamespaceId \X CapId

\* The index takes every namespace that exists back to itself: registering is
\* the last thing create does that can abort, and entries are never replaced,
\* whatever callers of the public register add (registry.move 123-141).
IndexPointsHome ==
  \A n \in DOMAIN namespaces :
    LET key == <<namespaces[n].owner, namespaces[n].name>> IN
    /\ key \in DOMAIN registry.namespace_index
    /\ registry.namespace_index[key] = n

\* No two namespaces of one owner share a name, across version bumps and
\* direct calls of register (the dedup promise of registry.move 4-7).
NamesUnique ==
  \A m, n \in DOMAIN namespaces :
    /\ namespaces[m].owner = namespaces[n].owner
    /\ namespaces[m].name = namespaces[n].name
    => m = n

\* Every capability that exists was minted as what it is, for a namespace that
\* exists; a namespace exists before its events.
CapsComeFromMinting ==
  /\ \A c \in DOMAIN caps : /\ c \in DOMAIN minted
                            /\ minted[c].kind = caps[c].kind
                            /\ minted[c].namespace_id = caps[c].namespace_id
  /\ \A c \in DOMAIN minted : minted[c].namespace_id \in DOMAIN namespaces
  /\ \A n \in DOMAIN namespaces : namespaces[n].revoked \subseteq DOMAIN minted
  /\ \A n \in NamespaceId, c \in CapId : <<n, c>> \in revokedLog => c \in DOMAIN minted

\* create mints the only Admin capability a namespace ever has.
OneAdminCap ==
  \A c, d \in DOMAIN minted :
    /\ minted[c].kind = "Admin"
    /\ minted[d].kind = "Admin"
    /\ minted[c].namespace_id = minted[d].namespace_id
    => c = d

\* A minted capability still works exactly when no Revoked event names it and
\* its namespace, however it was revoked: by its holder, by the admin, by both
\* in either order, or by the admin of another namespace, which changes
\* nothing.  A reader of the two event types relies on this (namespace-history.ts).
EventsTellAuthority ==
  \A c \in DOMAIN minted :
    LET n == minted[c].namespace_id IN
    (c \in DOMAIN caps /\ AssertCapForNamespace(c, n)) <=> <<n, c>> \notin revokedLog

HasAdmin(n) == \E c \in DOMAIN caps : Accepted(c, n, "Admin")
Readers(n) == {c \in DOMAIN caps : SealApprove(n, c)}
Writers(n) == {c \in DOMAIN caps : Accepted(c, n, "ReadWrite")}

\* Once the admin capability is burnt or has marked itself, no sequence of calls
\* brings authority back: the namespace keeps its active flag and its markers
\* for ever, no admin returns, and nobody who could not decrypt or write gains
\* it (namespace.move 143-282: every such change asks for the Admin capability).
AuthorityFrozenWithoutAdmin ==
  [][\A n \in DOMAIN namespaces : ~HasAdmin(n) =>
       /\ namespaces'[n] = namespaces[n]
       /\ ~HasAdmin(n)'
       /\ Readers(n)' \subseteq Readers(n)
       /\ Writers(n)' \subseteq Writers(n)]_nsVars
=============================================================================
