--------------------------- MODULE TrustRegistry ---------------------------
(***************************************************************************)
(* What the program knows about addresses, tokens and providers: the       *)
(* ecosystem registry, the canonical contract list derived from it and the *)
(* provider list.  Pure definitions.                                       *)
(*                                                                         *)
(* One address stands for each kind of entry: canonical on both networks   *)
(* (Permit2 and the Safe), on Pacific only (CreateX) or Atlantic only      *)
(* (DODOApprove), an official token, SafeHands' own contracts, a verified  *)
(* protocol (Morpho), a price feed, an address of the provider list, and   *)
(* addresses nothing lists: an account, a contract, a denylisted account.  *)
(***************************************************************************)
EXTENDS Naturals, Sequences, FiniteSets, SequencesExt

None == "none"

Pacific == 1672
Atlantic == 688689

Permit2 == "permit2"
Safe == "safe"
CreateX == "createx"
DodoApprove == "dodoApprove"
Usdc == "usdc"
Ours == "ours"
Morpho == "morpho"
PriceFeed == "priceFeed"
FeedCache == "feedCache"
Peer == "peer"
Shop == "shop"
Shady == "shady"

Addresses == {Permit2, Safe, CreateX, DodoApprove, Usdc, Ours, Morpho, PriceFeed,
              FeedCache, Peer, Shop, Shady}

\* SAFEHANDS_RECIPIENT_DENYLIST holds one address.
Denylist == {Shady}
IsDenylistedRecipient(a) == a \in Denylist

-----------------------------------------------------------------------------
(* The ecosystem registry                                                  *)

CanonicalPacific ==
    [id |-> "pacific", chain |-> Pacific, status |-> "VERIFIED",
     verification |-> "VERIFIED", safetyUse |-> "allow_eligible", cited |-> TRUE,
     contracts |-> {Permit2, Safe, CreateX}]

CanonicalAtlantic ==
    [id |-> "atlantic", chain |-> Atlantic, status |-> "KNOWN_ECOSYSTEM",
     verification |-> "TO_VERIFY", safetyUse |-> "recognition_only", cited |-> TRUE,
     contracts |-> {Permit2, Safe, DodoApprove}]

OfficialTokens ==
    [id |-> "tokens", chain |-> Pacific, status |-> "VERIFIED",
     verification |-> "VERIFIED", safetyUse |-> "allow_eligible", cited |-> TRUE,
     contracts |-> {Usdc}]

PushFeeds ==
    [id |-> "feeds", chain |-> Pacific, status |-> "VERIFIED",
     verification |-> "VERIFIED", safetyUse |-> "recognition_only", cited |-> TRUE,
     contracts |-> {PriceFeed}]

SafeHandsContracts ==
    [id |-> "safehands", chain |-> Pacific, status |-> "VERIFIED",
     verification |-> "VERIFIED", safetyUse |-> "allow_eligible", cited |-> TRUE,
     contracts |-> {Ours}]

VerifiedProtocols ==
    [id |-> "verified", chain |-> Pacific, status |-> "VERIFIED",
     verification |-> "VERIFIED", safetyUse |-> "allow_eligible", cited |-> TRUE,
     contracts |-> {Morpho}]

NamedProtocols ==
    [id |-> "protocols", chain |-> Pacific, status |-> "KNOWN_ECOSYSTEM",
     verification |-> "UNVERIFIED", safetyUse |-> "escalate_only", cited |-> FALSE,
     contracts |-> {}]

EcosystemRegistry ==
    <<CanonicalPacific, CanonicalAtlantic, OfficialTokens, PushFeeds,
      SafeHandsContracts, NamedProtocols, VerifiedProtocols>>

\* The rules an edit of the registry must keep; every contract of an item
\* carries the item's own verification status.
ValidRegistry(items) ==
    /\ \A i, j \in DOMAIN items : items[i].id = items[j].id => i = j
    /\ \A i \in DOMAIN items :
        /\ items[i].verification = "VERIFIED" => items[i].cited
        /\ items[i].safetyUse = "allow_eligible" =>
            /\ items[i].verification = "VERIFIED"
            /\ items[i].status = "VERIFIED"
            /\ items[i].contracts # {}
            /\ items[i].cited
        /\ items[i].status \in {"NOT_CONFIGURED", "KNOWN_ECOSYSTEM"} =>
            items[i].safetyUse # "allow_eligible"

ASSUME RegistryIsValid == ValidRegistry(EcosystemRegistry)

\* The index keeps one entry per address: a later item replaces an earlier one.
RegistryItem(a) ==
    LET holding == {i \in DOMAIN EcosystemRegistry : a \in EcosystemRegistry[i].contracts}
    IN IF holding = {} THEN {} ELSE {EcosystemRegistry[Max(holding)]}

NoTrust == [recognized |-> FALSE, verified |-> FALSE, note |-> FALSE]

AddressTrust(a, chain) ==
    LET trust == {IF item.chain = chain
                  THEN [recognized |-> TRUE,
                        verified |-> item.safetyUse = "allow_eligible" /\ item.verification = "VERIFIED",
                        note |-> FALSE]
                  ELSE [NoTrust EXCEPT !.note = TRUE] : item \in RegistryItem(a)}
    IN IF trust = {} THEN NoTrust ELSE CHOOSE t \in trust : TRUE

-----------------------------------------------------------------------------
(* Canonical contracts                                                     *)

\* The canonical lists of the two networks come from the items, not from the
\* index, so an address both of them hold is canonical on both.
CanonicalContracts(chain) ==
    IF chain = Pacific THEN CanonicalPacific.contracts ELSE CanonicalAtlantic.contracts

\* Contracts with metadata; the DODO contracts of Atlantic have none.
ContractMetadata == {Permit2, Safe, CreateX}

LookupCanonical(a) == a \in ContractMetadata

\* The networks a contract is recognised on.
NetworksFor(a) == {chain \in {Pacific, Atlantic} : a \in CanonicalContracts(chain)}

CanonicalEvidence(a, chain) == LookupCanonical(a) /\ chain \in NetworksFor(a)

-----------------------------------------------------------------------------
(* Providers                                                               *)

\* A provider of each kind of category: one that escalates, one that does not.
Providers ==
    [chainlink |-> [category |-> "oracle", addresses |-> {FeedCache}],
     layerzero |-> [category |-> "cross_chain", addresses |-> {}],
     wasm      |-> [category |-> "evm_wasm_interop", addresses |-> {}],
     safe      |-> [category |-> "wallet_infrastructure", addresses |-> {}]]

EscalatingCategories == {"cross_chain", "evm_wasm_interop"}

EcosystemCategories == {Providers[p].category : p \in DOMAIN Providers}

\* The provider of an address: the provider list first, then the Safe
\* contracts the canonical list recognises on the network.
ProvidersOf(a, chain) ==
    LET byAddress == {p \in DOMAIN Providers : a \in Providers[p].addresses}
    IN IF byAddress = {} /\ a = Safe /\ CanonicalEvidence(a, chain) THEN {"safe"} ELSE byAddress

\* The address, the provider's name, the category, in that order; the first
\* that is recognised decides alone.
EcosystemCategory(a, provider, category, chain) ==
    CASE a # None /\ ProvidersOf(a, chain) # {} ->
            Providers[CHOOSE p \in ProvidersOf(a, chain) : TRUE].category
      [] provider \in DOMAIN Providers /\ (a = None \/ ProvidersOf(a, chain) = {}) ->
            Providers[provider].category
      [] OTHER -> IF category \in EcosystemCategories THEN category ELSE "unknown"

=============================================================================
