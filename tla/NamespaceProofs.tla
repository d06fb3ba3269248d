--------------------------- MODULE NamespaceProofs --------------------------
(***************************************************************************)
(* Proofs about Namespace, for every value of its constants.               *)
(*                                                                         *)
(* NamesUnique and EventsTellAuthority are not inductive.  The first needs *)
(* the index to point at every namespace (IndexPointsHome); the second     *)
(* needs every capability, marker and event to go back to one minting      *)
(* (CapsComeFromMinting).                                                  *)
(***************************************************************************)
EXTENDS Namespace, TLAPS

NsInv == /\ NsTypeOK
         /\ IndexPointsHome
         /\ CapsComeFromMinting
         /\ OneAdminCap
         /\ EventsTellAuthority

\* The initial state satisfies the inductive invariant.
LEMMA NsInitInv == NsInit => NsInv
<1> USE DEF NsInit, Empty
<1>1. NsInit => NsTypeOK
  BY DEF NsTypeOK, Registry, VERSION
<1>2. NsInit => IndexPointsHome /\ CapsComeFromMinting
  BY DEF IndexPointsHome, CapsComeFromMinting
<1>3. NsInit => OneAdminCap /\ EventsTellAuthority
  BY DEF OneAdminCap, EventsTellAuthority
<1>4. QED  BY <1>1, <1>2, <1>3 DEF NsInv

(***************************************************************************)
(* The effect of each entry function on the types.                         *)
(***************************************************************************)
\* What a successful register does to the index.
LEMMA RegisterType ==
  ASSUME NsTypeOK, NEW owner \in Address, NEW name \in Name, NEW n \in NamespaceId,
         RegisterEffect(owner, name, n)
  PROVE  /\ registry' \in Registry
         /\ DOMAIN registry'.namespace_index =
              DOMAIN registry.namespace_index \cup {<<owner, name>>}
         /\ registry'.namespace_index[<<owner, name>>] = n
         /\ <<owner, name>> \notin DOMAIN registry.namespace_index
         /\ \A key \in DOMAIN registry.namespace_index :
              registry'.namespace_index[key] = registry.namespace_index[key]
<1> DEFINE index == registry.namespace_index
           key == <<owner, name>>
<1>1. registry.version \in Nat /\ DOMAIN index \subseteq Address \X Name
      /\ index \in [DOMAIN index -> NamespaceId]
  BY DEF NsTypeOK, Registry
<1>2. /\ DOMAIN Put(index, key, n) \subseteq Address \X Name
      /\ Put(index, key, n) \in [DOMAIN Put(index, key, n) -> NamespaceId]
      /\ DOMAIN Put(index, key, n) = DOMAIN index \cup {key}
      /\ Put(index, key, n)[key] = n
      /\ \A z \in DOMAIN index : z # key => Put(index, key, n)[z] = index[z]
  BY <1>1 DEF Put
<1>3. /\ registry' = [registry EXCEPT !.namespace_index = Put(index, key, n)]
      /\ key \notin DOMAIN index
  BY DEF RegisterEffect
<1>4. registry' = [version |-> registry.version, namespace_index |-> Put(index, key, n)]
  BY <1>3 DEF NsTypeOK, Registry
<1>5. registry' \in Registry
  BY <1>1, <1>2, <1>4 DEF Registry
<1>6. QED  BY <1>2, <1>3, <1>4, <1>5

\* What minting does to the capabilities and to the Minted events.
LEMMA MintType ==
  ASSUME NsTypeOK, NEW n \in NamespaceId, NEW c \in CapId, NEW kind \in CapKind,
         NEW r \in Address, MintCapInternal(n, c, kind, r)
  PROVE  /\ c \notin DOMAIN minted
         /\ DOMAIN caps' = DOMAIN caps \cup {c}
         /\ DOMAIN minted' = DOMAIN minted \cup {c}
         /\ DOMAIN caps' \subseteq CapId /\ caps' \in [DOMAIN caps' -> Capability]
         /\ DOMAIN minted' \subseteq CapId /\ minted' \in [DOMAIN minted' -> MintedEvent]
         /\ caps'[c] = [kind |-> kind, namespace_id |-> n, owner |-> r]
         /\ minted'[c] = [kind |-> kind, namespace_id |-> n]
         /\ \A d \in DOMAIN caps : d # c => caps'[d] = caps[d]
         /\ \A d \in DOMAIN minted : d # c => minted'[d] = minted[d]
<1>1. /\ [kind |-> kind, namespace_id |-> n, owner |-> r] \in Capability
      /\ [kind |-> kind, namespace_id |-> n] \in MintedEvent
  BY DEF Capability, MintedEvent
<1>2. QED  BY <1>1 DEF MintCapInternal, NsTypeOK, Put

\* Each entry function keeps the types.
LEMMA NsTypeStep == NsTypeOK /\ [NsNext]_nsVars => NsTypeOK'
<1> SUFFICES ASSUME NsTypeOK, [NsNext]_nsVars PROVE NsTypeOK'
  OBVIOUS
<1>1. ASSUME NEW owner \in Address, NEW name \in Name, NEW n \in NamespaceId,
             Register(owner, name, n)
      PROVE  NsTypeOK'
  <2>1. registry' \in Registry
    BY <1>1, RegisterType DEF Register
  <2>2. QED  BY <1>1, <2>1 DEF Register, NsTypeOK
<1>2. ASSUME NEW sender \in Address, NEW name \in Name, NEW kind \in KindArg,
             NEW n \in NamespaceId, NEW c \in CapId, Create(sender, name, kind, n, c)
      PROVE  NsTypeOK'
  <2>1. registry' \in Registry
    BY <1>2, RegisterType DEF Create
  <2>2. /\ DOMAIN caps' \subseteq CapId /\ caps' \in [DOMAIN caps' -> Capability]
        /\ DOMAIN minted' \subseteq CapId /\ minted' \in [DOMAIN minted' -> MintedEvent]
    BY <1>2, MintType DEF Create, CapKind
  <2>3. [owner |-> sender, name |-> name, namespace_kind |-> kind, active |-> TRUE,
         revoked |-> {}, version |-> VERSION] \in Namespace
    BY <1>2, ArgsAreNumbers DEF Create, Namespace, KIND_MAX
  <2>4. DOMAIN namespaces' \subseteq NamespaceId
        /\ namespaces' \in [DOMAIN namespaces' -> Namespace]
    BY <1>2, <2>3 DEF Create, NsTypeOK, Put
  <2>5. QED  BY <1>2, <2>1, <2>2, <2>4 DEF Create, NsTypeOK
<1>3. ASSUME NEW n \in NamespaceId, NEW admin \in CapId, NEW r \in Address, NEW c \in CapId,
             NEW kind \in CapKind, Mint(n, admin, kind, r, c)
      PROVE  NsTypeOK'
  <2>1. /\ DOMAIN caps' \subseteq CapId /\ caps' \in [DOMAIN caps' -> Capability]
        /\ DOMAIN minted' \subseteq CapId /\ minted' \in [DOMAIN minted' -> MintedEvent]
    BY <1>3, MintType DEF Mint
  <2>2. QED  BY <1>3, <2>1 DEF Mint, NsTypeOK
<1>4. ASSUME NEW c \in CapId, RevokeCapability(c)
      PROVE  NsTypeOK'
  <2>1. DOMAIN caps' \subseteq CapId /\ caps' \in [DOMAIN caps' -> Capability]
    BY <1>4 DEF RevokeCapability, NsTypeOK, Drop
  <2>2. caps[c].namespace_id \in NamespaceId
    BY <1>4 DEF RevokeCapability, NsTypeOK, Capability
  <2>3. QED  BY <1>4, <2>1, <2>2 DEF RevokeCapability, NsTypeOK
<1>5. ASSUME NEW n \in NamespaceId, NEW admin \in CapId, NEW c \in CapId,
             AdminRevokeCapability(n, admin, c)
      PROVE  NsTypeOK'
  <2>1. n \in DOMAIN namespaces /\ namespaces[n] \in Namespace
    BY <1>5 DEF AdminRevokeCapability, Accepted, NsTypeOK
  <2>2. [namespaces[n] EXCEPT !.revoked = @ \cup {c}] \in Namespace
    BY <2>1 DEF Namespace
  <2>3. DOMAIN namespaces' = DOMAIN namespaces
        /\ namespaces' \in [DOMAIN namespaces -> Namespace]
    BY <1>5, <2>1, <2>2 DEF AdminRevokeCapability, NsTypeOK
  <2>4. QED  BY <1>5, <2>3 DEF AdminRevokeCapability, NsTypeOK
<1>6. ASSUME NEW n \in NamespaceId, NEW admin \in CapId, NEW flag \in BOOLEAN,
             SetActive(n, admin, flag)
      PROVE  NsTypeOK'
  <2>1. n \in DOMAIN namespaces /\ namespaces[n] \in Namespace
    BY <1>6 DEF SetActive, Accepted, NsTypeOK
  <2>2. [namespaces[n] EXCEPT !.active = flag] \in Namespace
    BY <2>1 DEF Namespace
  <2>3. DOMAIN namespaces' = DOMAIN namespaces
        /\ namespaces' \in [DOMAIN namespaces -> Namespace]
    BY <1>6, <2>1, <2>2 DEF SetActive, NsTypeOK
  <2>4. QED  BY <1>6, <2>3 DEF SetActive, NsTypeOK
<1>7. ASSUME NEW c \in CapId, NEW r \in Address, TransferCapability(c, r)
      PROVE  NsTypeOK'
  BY <1>7 DEF TransferCapability, NsTypeOK, Capability
<1>8. ASSUME NEW v \in VersionArg, BumpPackageVersion(v)
      PROVE  NsTypeOK'
  BY <1>8, ArgsAreNumbers DEF BumpPackageVersion, NsTypeOK, Registry
<1>9. CASE UNCHANGED nsVars
  BY <1>9 DEF nsVars, NsTypeOK
<1>10. QED
  BY <1>1, <1>2, <1>3, <1>4, <1>5, <1>6, <1>7, <1>8, <1>9
  DEF NsNext, MintCapabilityReadWrite, MintCapabilityReadOnly, Deactivate, Reactivate, CapKind

(***************************************************************************)
(* The index points home: a key is never removed or pointed elsewhere, and *)
(* create aborts unless its key is new.                                    *)
(***************************************************************************)
LEMMA IndexStep == NsTypeOK /\ IndexPointsHome /\ [NsNext]_nsVars => IndexPointsHome'
<1> SUFFICES ASSUME NsTypeOK, IndexPointsHome, [NsNext]_nsVars PROVE IndexPointsHome'
  OBVIOUS
<1>1. ASSUME NEW owner \in Address, NEW name \in Name, NEW n \in NamespaceId,
             Register(owner, name, n)
      PROVE  IndexPointsHome'
  <2>1. RegisterEffect(owner, name, n) /\ namespaces' = namespaces
    BY <1>1 DEF Register
  <2>2. \A key \in DOMAIN registry.namespace_index :
          /\ key \in DOMAIN registry'.namespace_index
          /\ registry'.namespace_index[key] = registry.namespace_index[key]
    BY <2>1, RegisterType
  <2>3. QED  BY <2>1, <2>2 DEF IndexPointsHome
<1>2. ASSUME NEW sender \in Address, NEW name \in Name, NEW kind \in KindArg,
             NEW n \in NamespaceId, NEW c \in CapId, Create(sender, name, kind, n, c)
      PROVE  IndexPointsHome'
  <2>1. RegisterEffect(sender, name, n)
    BY <1>2 DEF Create
  <2>2. /\ DOMAIN namespaces' = DOMAIN namespaces \cup {n}
        /\ n \notin DOMAIN namespaces
        /\ namespaces'[n].owner = sender /\ namespaces'[n].name = name
        /\ \A m \in DOMAIN namespaces : namespaces'[m] = namespaces[m]
    BY <1>2 DEF Create, Put
  <2>3. /\ \A key \in DOMAIN registry.namespace_index :
             /\ key \in DOMAIN registry'.namespace_index
             /\ registry'.namespace_index[key] = registry.namespace_index[key]
        /\ <<sender, name>> \in DOMAIN registry'.namespace_index
        /\ registry'.namespace_index[<<sender, name>>] = n
    BY <2>1, RegisterType
  <2>4. QED  BY <2>2, <2>3 DEF IndexPointsHome
<1>3. ASSUME NEW n \in NamespaceId, NEW admin \in CapId, NEW c \in CapId,
             AdminRevokeCapability(n, admin, c)
      PROVE  IndexPointsHome'
  BY <1>3 DEF AdminRevokeCapability, NsTypeOK, Namespace, IndexPointsHome
<1>4. ASSUME NEW n \in NamespaceId, NEW admin \in CapId, NEW flag \in BOOLEAN,
             SetActive(n, admin, flag)
      PROVE  IndexPointsHome'
  BY <1>4 DEF SetActive, NsTypeOK, Namespace, IndexPointsHome
<1>5. ASSUME NEW v, BumpPackageVersion(v)
      PROVE  IndexPointsHome'
  BY <1>5 DEF BumpPackageVersion, NsTypeOK, Registry, IndexPointsHome
<1>6. CASE UNCHANGED <<registry, namespaces>>
  BY <1>6 DEF IndexPointsHome
<1>7. QED
  BY <1>1, <1>2, <1>3, <1>4, <1>5, <1>6
  DEF NsNext, nsVars, MintCapabilityReadWrite, MintCapabilityReadOnly, Mint, RevokeCapability,
      Deactivate, Reactivate, TransferCapability

(***************************************************************************)
(* Every capability, marker and event goes back to a minting.              *)
(***************************************************************************)
LEMMA MintingStep ==
  NsTypeOK /\ CapsComeFromMinting /\ [NsNext]_nsVars => CapsComeFromMinting'
<1> SUFFICES ASSUME NsTypeOK, CapsComeFromMinting, [NsNext]_nsVars
             PROVE  CapsComeFromMinting'
  OBVIOUS
<1>1. ASSUME NEW sender \in Address, NEW name \in Name, NEW kind \in KindArg,
             NEW n \in NamespaceId, NEW c \in CapId, Create(sender, name, kind, n, c)
      PROVE  CapsComeFromMinting'
  <2>1. MintCapInternal(n, c, "Admin", sender) /\ "Admin" \in CapKind
    BY <1>1 DEF Create, CapKind
  <2>2. /\ DOMAIN namespaces' = DOMAIN namespaces \cup {n}
        /\ n \notin DOMAIN namespaces
        /\ namespaces'[n].revoked = {}
        /\ \A m \in DOMAIN namespaces : namespaces'[m] = namespaces[m]
        /\ revokedLog' = revokedLog
    BY <1>1 DEF Create, Put
  <2>3. /\ DOMAIN caps' = DOMAIN caps \cup {c}
        /\ DOMAIN minted' = DOMAIN minted \cup {c}
        /\ caps'[c] = [kind |-> "Admin", namespace_id |-> n, owner |-> sender]
        /\ minted'[c] = [kind |-> "Admin", namespace_id |-> n]
        /\ \A d \in DOMAIN caps : d # c => caps'[d] = caps[d]
        /\ \A d \in DOMAIN minted : d # c => minted'[d] = minted[d]
        /\ c \notin DOMAIN minted
    BY <2>1 DEF MintCapInternal, Put
  <2>4. QED  BY <2>2, <2>3 DEF CapsComeFromMinting
<1>2. ASSUME NEW n \in NamespaceId, NEW admin \in CapId, NEW r \in Address, NEW c \in CapId,
             NEW kind \in CapKind, Mint(n, admin, kind, r, c)
      PROVE  CapsComeFromMinting'
  <2>1. /\ MintCapInternal(n, c, kind, r)
        /\ n \in DOMAIN namespaces
        /\ UNCHANGED <<namespaces, revokedLog>>
    BY <1>2 DEF Mint, Accepted
  <2>2. /\ DOMAIN caps' = DOMAIN caps \cup {c}
        /\ DOMAIN minted' = DOMAIN minted \cup {c}
        /\ caps'[c] = [kind |-> kind, namespace_id |-> n, owner |-> r]
        /\ minted'[c] = [kind |-> kind, namespace_id |-> n]
        /\ \A d \in DOMAIN caps : d # c => caps'[d] = caps[d]
        /\ \A d \in DOMAIN minted : d # c => minted'[d] = minted[d]
        /\ c \notin DOMAIN minted
    BY <2>1 DEF MintCapInternal, Put
  <2>3. QED  BY <2>1, <2>2 DEF CapsComeFromMinting
<1>3. ASSUME NEW c \in CapId, RevokeCapability(c)
      PROVE  CapsComeFromMinting'
  BY <1>3 DEF RevokeCapability, CapsComeFromMinting, Drop
<1>4. ASSUME NEW n \in NamespaceId, NEW admin \in CapId, NEW c \in CapId,
             AdminRevokeCapability(n, admin, c)
      PROVE  CapsComeFromMinting'
  BY <1>4 DEF AdminRevokeCapability, NsTypeOK, Namespace, CapsComeFromMinting
<1>5. ASSUME NEW n \in NamespaceId, NEW admin \in CapId, NEW flag \in BOOLEAN,
             SetActive(n, admin, flag)
      PROVE  CapsComeFromMinting'
  BY <1>5 DEF SetActive, NsTypeOK, Namespace, CapsComeFromMinting
<1>6. ASSUME NEW c \in CapId, NEW r \in Address, TransferCapability(c, r)
      PROVE  CapsComeFromMinting'
  BY <1>6 DEF TransferCapability, NsTypeOK, Capability, CapsComeFromMinting
<1>7. CASE UNCHANGED <<namespaces, caps, minted, revokedLog>>
  BY <1>7 DEF CapsComeFromMinting
<1>8. QED
  BY <1>1, <1>2, <1>3, <1>4, <1>5, <1>6, <1>7
  DEF NsNext, nsVars, MintCapabilityReadWrite, MintCapabilityReadOnly, Register,
      Deactivate, Reactivate, BumpPackageVersion, CapKind

(***************************************************************************)
(* Only create mints an Admin capability, for a namespace id never used.   *)
(***************************************************************************)
LEMMA OneAdminStep ==
  NsTypeOK /\ CapsComeFromMinting /\ OneAdminCap /\ [NsNext]_nsVars => OneAdminCap'
<1> SUFFICES ASSUME NsTypeOK, CapsComeFromMinting, OneAdminCap, [NsNext]_nsVars
             PROVE  OneAdminCap'
  OBVIOUS
<1>1. ASSUME NEW sender \in Address, NEW name \in Name, NEW kind \in KindArg,
             NEW n \in NamespaceId, NEW c \in CapId, Create(sender, name, kind, n, c)
      PROVE  OneAdminCap'
  <2>1. MintCapInternal(n, c, "Admin", sender) /\ "Admin" \in CapKind
        /\ n \notin DOMAIN namespaces
    BY <1>1 DEF Create, CapKind
  <2>2. /\ DOMAIN minted' = DOMAIN minted \cup {c}
        /\ minted'[c].namespace_id = n
        /\ \A d \in DOMAIN minted : d # c => minted'[d] = minted[d]
    BY <2>1 DEF MintCapInternal, Put
  <2>3. QED  BY <2>1, <2>2 DEF OneAdminCap, CapsComeFromMinting
<1>2. ASSUME NEW n \in NamespaceId, NEW admin \in CapId, NEW r \in Address, NEW c \in CapId,
             NEW kind \in {"ReadOnly", "ReadWrite"}, Mint(n, admin, kind, r, c)
      PROVE  OneAdminCap'
  <2>1. MintCapInternal(n, c, kind, r) /\ kind \in CapKind
    BY <1>2 DEF Mint, CapKind
  <2>2. /\ DOMAIN minted' = DOMAIN minted \cup {c}
        /\ minted'[c].kind = kind
        /\ \A d \in DOMAIN minted : d # c => minted'[d] = minted[d]
    BY <2>1 DEF MintCapInternal, Put
  <2>3. QED  BY <1>2, <2>2 DEF OneAdminCap
<1>3. CASE UNCHANGED minted
  BY <1>3 DEF OneAdminCap
<1>4. QED
  BY <1>1, <1>2, <1>3
  DEF NsNext, nsVars, MintCapabilityReadWrite, MintCapabilityReadOnly, Register, RevokeCapability,
      AdminRevokeCapability, Deactivate, Reactivate, SetActive, TransferCapability,
      BumpPackageVersion

(***************************************************************************)
(* The events tell who still has authority.                                *)
(***************************************************************************)
LEMMA EventsStep ==
  NsTypeOK /\ CapsComeFromMinting /\ EventsTellAuthority /\ [NsNext]_nsVars
    => EventsTellAuthority'
<1> SUFFICES ASSUME NsTypeOK, CapsComeFromMinting, EventsTellAuthority, [NsNext]_nsVars
             PROVE  EventsTellAuthority'
  OBVIOUS
<1> USE DEF AssertCapForNamespace, IsCapabilityRevoked
<1>1. ASSUME NEW sender \in Address, NEW name \in Name, NEW kind \in KindArg,
             NEW n \in NamespaceId, NEW c \in CapId, Create(sender, name, kind, n, c)
      PROVE  EventsTellAuthority'
  <2>1. MintCapInternal(n, c, "Admin", sender) /\ "Admin" \in CapKind
    BY <1>1 DEF Create, CapKind
  <2>2. /\ namespaces'[n].revoked = {}
        /\ \A m \in DOMAIN namespaces : namespaces'[m] = namespaces[m]
        /\ revokedLog' = revokedLog
    BY <1>1 DEF Create, Put
  <2>3. /\ DOMAIN caps' = DOMAIN caps \cup {c}
        /\ DOMAIN minted' = DOMAIN minted \cup {c}
        /\ caps'[c].namespace_id = n
        /\ minted'[c].namespace_id = n
        /\ \A d \in DOMAIN caps : d # c => caps'[d] = caps[d]
        /\ \A d \in DOMAIN minted : d # c => minted'[d] = minted[d]
        /\ c \notin DOMAIN minted
    BY <2>1 DEF MintCapInternal, Put
  <2>4. QED  BY <2>2, <2>3 DEF EventsTellAuthority, CapsComeFromMinting
<1>2. ASSUME NEW n \in NamespaceId, NEW admin \in CapId, NEW r \in Address, NEW c \in CapId,
             NEW kind \in CapKind, Mint(n, admin, kind, r, c)
      PROVE  EventsTellAuthority'
  <2>1. /\ MintCapInternal(n, c, kind, r)
        /\ n \in DOMAIN namespaces
        /\ UNCHANGED <<namespaces, revokedLog>>
    BY <1>2 DEF Mint, Accepted
  <2>2. /\ DOMAIN caps' = DOMAIN caps \cup {c}
        /\ DOMAIN minted' = DOMAIN minted \cup {c}
        /\ caps'[c].namespace_id = n
        /\ minted'[c].namespace_id = n
        /\ \A d \in DOMAIN caps : d # c => caps'[d] = caps[d]
        /\ \A d \in DOMAIN minted : d # c => minted'[d] = minted[d]
        /\ c \notin DOMAIN minted
    BY <2>1 DEF MintCapInternal, Put
  <2>3. QED  BY <2>1, <2>2 DEF EventsTellAuthority, CapsComeFromMinting
<1>3. ASSUME NEW c \in CapId, RevokeCapability(c)
      PROVE  EventsTellAuthority'
  BY <1>3 DEF RevokeCapability, Drop, EventsTellAuthority, CapsComeFromMinting
<1>4. ASSUME NEW n \in NamespaceId, NEW admin \in CapId, NEW c \in CapId,
             AdminRevokeCapability(n, admin, c)
      PROVE  EventsTellAuthority'
  <2>1. n \in DOMAIN namespaces
    BY <1>4 DEF AdminRevokeCapability, Accepted
  <2>2. /\ namespaces'[n].revoked = namespaces[n].revoked \cup {c}
        /\ \A m \in DOMAIN namespaces : m # n => namespaces'[m] = namespaces[m]
        /\ revokedLog' = revokedLog \cup {<<n, c>>}
        /\ UNCHANGED <<caps, minted>>
    BY <1>4, <2>1 DEF AdminRevokeCapability, NsTypeOK, Namespace
  <2>3. QED  BY <2>1, <2>2 DEF EventsTellAuthority, CapsComeFromMinting
<1>5. ASSUME NEW n \in NamespaceId, NEW admin \in CapId, NEW flag \in BOOLEAN,
             SetActive(n, admin, flag)
      PROVE  EventsTellAuthority'
  BY <1>5 DEF SetActive, NsTypeOK, Namespace, EventsTellAuthority, CapsComeFromMinting
<1>6. ASSUME NEW c \in CapId, NEW r \in Address, TransferCapability(c, r)
      PROVE  EventsTellAuthority'
  BY <1>6 DEF TransferCapability, NsTypeOK, Capability, EventsTellAuthority
<1>7. CASE UNCHANGED <<namespaces, caps, minted, revokedLog>>
  BY <1>7 DEF EventsTellAuthority
<1>8. QED
  BY <1>1, <1>2, <1>3, <1>4, <1>5, <1>6, <1>7
  DEF NsNext, nsVars, MintCapabilityReadWrite, MintCapabilityReadOnly, Register,
      Deactivate, Reactivate, BumpPackageVersion, CapKind

-----------------------------------------------------------------------------
\* The inductive invariant is preserved by every step.
LEMMA NsInvStep == NsInv /\ [NsNext]_nsVars => NsInv'
BY NsTypeStep, IndexStep, MintingStep, OneAdminStep, EventsStep DEF NsInv

\* It holds in every reachable state of the authority objects.
THEOREM NsInvariant == NsSpec => []NsInv
BY NsInitInv, NsInvStep, PTL DEF NsSpec

\* Type correctness of the registry, the namespaces, the capabilities and the
\* capability events (registry.move, namespace.move).
THEOREM NsTypeCorrect == NsSpec => []NsTypeOK
<1>1. NsInv => NsTypeOK
  BY DEF NsInv
<1>2. QED  BY <1>1, NsInvariant, PTL

\* The dedup promise of registry.move: one owner, one name, one namespace.
THEOREM NamesAreUnique == NsSpec => []NamesUnique
<1>1. NsInv => NamesUnique
  BY DEF NsInv, IndexPointsHome, NamesUnique
<1>2. QED  BY <1>1, NsInvariant, PTL

\* The Minted and Revoked events decide which capabilities still work, as
\* namespace-history.ts assumes.
THEOREM EventsDecideAuthority == NsSpec => []EventsTellAuthority
<1>1. NsInv => EventsTellAuthority
  BY DEF NsInv
<1>2. QED  BY <1>1, NsInvariant, PTL

\* One step cannot give authority over a namespace that has no admin left.
LEMMA FrozenStep ==
  ASSUME NsInv, [NsNext]_nsVars, NEW n \in DOMAIN namespaces, ~HasAdmin(n)
  PROVE  /\ namespaces'[n] = namespaces[n]
         /\ ~HasAdmin(n)'
         /\ Readers(n)' \subseteq Readers(n)
         /\ Writers(n)' \subseteq Writers(n)
<1> DEFINE Frozen == /\ namespaces'[n] = namespaces[n]
                     /\ ~HasAdmin(n)'
                     /\ Readers(n)' \subseteq Readers(n)
                     /\ Writers(n)' \subseteq Writers(n)
<1> USE DEF HasAdmin, Readers, Writers, Accepted, SealApprove, AssertActive,
            AssertCapForNamespace, IsCapabilityRevoked
<1>1. \* Nothing changes for n when its object stays and every capability bound
      \* to it afterwards existed before.
      ASSUME /\ namespaces'[n] = namespaces[n]
             /\ \A c \in DOMAIN caps' : caps'[c].namespace_id = n =>
                  /\ c \in DOMAIN caps
                  /\ caps[c].namespace_id = n
                  /\ caps[c].kind = caps'[c].kind
      PROVE  Frozen
  BY <1>1
<1>2. ASSUME NEW sender \in Address, NEW name \in Name, NEW kind \in KindArg,
             NEW m \in NamespaceId, NEW c \in CapId, Create(sender, name, kind, m, c)
      PROVE  Frozen
  <2>1. m # n /\ namespaces'[n] = namespaces[n]
    BY <1>2 DEF Create, Put
  <2>2. \A d \in DOMAIN caps' : caps'[d].namespace_id = n =>
          /\ d \in DOMAIN caps
          /\ caps[d].namespace_id = n
          /\ caps[d].kind = caps'[d].kind
    BY <1>2, <2>1 DEF Create, MintCapInternal, Put
  <2>3. QED  BY <1>1, <2>1, <2>2
<1>3. ASSUME NEW m \in NamespaceId, NEW admin \in CapId, NEW r \in Address, NEW c \in CapId,
             NEW kind \in CapKind, Mint(m, admin, kind, r, c)
      PROVE  Frozen
  <2>1. m # n
    BY <1>3 DEF Mint
  <2>2. namespaces'[n] = namespaces[n]
    BY <1>3 DEF Mint
  <2>3. \A d \in DOMAIN caps' : caps'[d].namespace_id = n =>
          /\ d \in DOMAIN caps
          /\ caps[d].namespace_id = n
          /\ caps[d].kind = caps'[d].kind
    BY <1>3, <2>1 DEF Mint, MintCapInternal, Put
  <2>4. QED  BY <1>1, <2>2, <2>3
<1>4. ASSUME NEW c \in CapId, RevokeCapability(c)
      PROVE  Frozen
  BY <1>1, <1>4 DEF RevokeCapability, Drop
<1>5. ASSUME NEW m \in NamespaceId, NEW admin \in CapId, NEW c \in CapId,
             AdminRevokeCapability(m, admin, c)
      PROVE  Frozen
  <2>1. m # n
    BY <1>5 DEF AdminRevokeCapability
  <2>2. namespaces'[n] = namespaces[n] /\ caps' = caps
    BY <1>5, <2>1 DEF AdminRevokeCapability, NsInv, NsTypeOK
  <2>3. QED  BY <1>1, <2>2
<1>6. ASSUME NEW m \in NamespaceId, NEW admin \in CapId, NEW flag \in BOOLEAN,
             SetActive(m, admin, flag)
      PROVE  Frozen
  <2>1. m # n
    BY <1>6 DEF SetActive
  <2>2. namespaces'[n] = namespaces[n] /\ caps' = caps
    BY <1>6, <2>1 DEF SetActive, NsInv, NsTypeOK
  <2>3. QED  BY <1>1, <2>2
<1>7. ASSUME NEW c \in CapId, NEW r \in Address, TransferCapability(c, r)
      PROVE  Frozen
  <2>1. namespaces' = namespaces /\ DOMAIN caps' = DOMAIN caps
    BY <1>7 DEF TransferCapability, NsInv, NsTypeOK
  <2>2. \A d \in DOMAIN caps : /\ caps'[d].namespace_id = caps[d].namespace_id
                               /\ caps'[d].kind = caps[d].kind
    BY <1>7 DEF TransferCapability, NsInv, NsTypeOK, Capability
  <2>3. QED  BY <1>1, <2>1, <2>2
<1>8. CASE UNCHANGED <<namespaces, caps>>
  BY <1>1, <1>8
<1>9. QED
  BY <1>2, <1>3, <1>4, <1>5, <1>6, <1>7, <1>8
  DEF NsNext, nsVars, MintCapabilityReadWrite, MintCapabilityReadOnly, Register,
      Deactivate, Reactivate, BumpPackageVersion, CapKind

\* A namespace whose admin capability is burnt or marked keeps its flag and its
\* markers for ever, and nobody gains access to it (namespace.move 143-282).
THEOREM AuthorityFrozen == NsSpec => AuthorityFrozenWithoutAdmin
<1>1. NsInv /\ [NsNext]_nsVars =>
        [\A n \in DOMAIN namespaces : ~HasAdmin(n) =>
           /\ namespaces'[n] = namespaces[n]
           /\ ~HasAdmin(n)'
           /\ Readers(n)' \subseteq Readers(n)
           /\ Writers(n)' \subseteq Writers(n)]_nsVars
  BY FrozenStep
<1>2. QED  BY <1>1, NsInvariant, PTL DEF NsSpec, AuthorityFrozenWithoutAdmin
=============================================================================
