--------------------------- MODULE ChargedManagers ---------------------------
(***************************************************************************)
(* What stands between a user and the money or NFTs in a particle besides  *)
(* the gate of ChargedState: the registry of wallet and basket managers    *)
(* (contracts/ChargedManagers.sol), their pause switches, and the deposit  *)
(* rules that NFT contracts register in contracts/ChargedSettings.sol.     *)
(*                                                                         *)
(* A wallet manager and a basket manager are registered, paused and        *)
(* required by textually identical code; Managers and ManagerIds hold both *)
(* kinds.  One asset token is modelled: the rules of different assets meet *)
(* in no condition.  Those of nested NFT contracts do: each has a maximum, *)
(* and every one is compared with all that the basket holds.               *)
(*                                                                         *)
(* Who may change a rule (the NFT contract's owner or the protocol's) is   *)
(* left out: the sender leaves no trace in the state.                      *)
(***************************************************************************)
EXTENDS ChargedStateHistory

CONSTANTS
    Managers,      \* wallet and basket manager contracts
    ManagerIds,    \* "generic", "generic.B", "aave", "aave.B"
    AnyManager,    \* the empty required-manager string
    InitialRules,  \* bound: the rules NFT contracts start with
    FlagChoices,   \* bound: the rule flags that change
    IdChoices,     \* bound: the manager ids NFT contracts require
    LimitChoices,  \* bound: the deposit limits NFT contracts set
    MaxNftsChoices,\* bound: the numbers of NFTs that NFT contracts allow
    CapChoices,    \* bound: the deposit caps of the asset
    InvalidityChoices, \* bound: the invalidities of the asset
    PauseChoices   \* bound: the managers that are paused and resumed

\* PERM_CHARGE_NFT, PERM_BASKET_NFT, PERM_RESTRICTED_ASSETS of _nftActionPerms,
\* and _nftAllowedAssetTokens.
RuleFlags == {"charge", "basket", "restricted", "allowed"}

Limits == [min : Nat, max : Nat]
Rules == [flags : SUBSET RuleFlags,
          walletManager : ManagerIds \cup {AnyManager},
          basketManager : ManagerIds \cup {AnyManager},
          limits : Limits,      \* _nftDepositMin, _nftDepositMax
          maxNfts : [Contracts -> Nat]]   \* _nftMaxNfts, per nested contract

ASSUME ManagersAssumption ==
    /\ NullAddr \notin Managers
    /\ AnyManager \notin ManagerIds
    /\ InitialRules \subseteq Rules
    /\ FlagChoices \subseteq RuleFlags
    /\ IdChoices \subseteq ManagerIds \cup {AnyManager}
    /\ LimitChoices \subseteq Limits
    /\ MaxNftsChoices \subseteq Nat
    /\ CapChoices \subseteq Nat
    /\ InvalidityChoices \subseteq BOOLEAN
    /\ PauseChoices \subseteq Managers

VARIABLES
    managerOf,     \* _ftWalletManager, _nftBasketManager
    paused,        \* the managers with _paused
    rules,         \* ChargedSettings, per NFT contract
    depositCap,    \* ChargedSettings._depositCap of the asset
    invalidAsset   \* ChargedSettings._invalidAssets of the asset

registryVars == <<managerOf, paused>>
ruleVars == <<rules, depositCap, invalidAsset>>
managersVars == <<registryVars, ruleVars>>

ManagersTypeOK ==
    /\ managerOf \in [ManagerIds -> Managers \cup {NullAddr}]
    /\ paused \subseteq Managers
    /\ rules \in [Contracts -> Rules]
    /\ depositCap \in Nat
    /\ invalidAsset \in BOOLEAN

ManagersInit ==
    /\ managerOf = [id \in ManagerIds |-> NullAddr]
    /\ paused = {}
    /\ rules \in [Contracts -> InitialRules]
    /\ depositCap = 0
    /\ invalidAsset = FALSE

-----------------------------------------------------------------------------
(* The registry *)

\* mutant of IsManagerEnabled: a paused manager is served
IsManagerRegistered(id) == managerOf[id] # NullAddr

\* _isWalletManagerEnabled, _isNftBasketEnabled
IsManagerEnabled(id) == managerOf[id] # NullAddr /\ managerOf[id] \notin paused

\* registerWalletManager, registerBasketManager: an id can be given away again
RegisterManager(id, m) ==
    /\ m \notin paused
    /\ managerOf' = [managerOf EXCEPT ![id] = m]
    /\ UNCHANGED <<hvars, paused, ruleVars>>

SetPausedState(m, state) ==
    /\ paused' = IF state THEN paused \cup {m} ELSE paused \ {m}
    /\ UNCHANGED <<hvars, managerOf, ruleVars>>

-----------------------------------------------------------------------------
(* The rules *)

ChangeRule(c, rule) ==
    /\ rules' = [rules EXCEPT ![c] = rule]
    /\ UNCHANGED <<hvars, registryVars, depositCap, invalidAsset>>

\* setPermsForCharge, setPermsForBasket, setAssetTokenRestrictions, setAllowedAssetToken
SetFlag(c, flag, state) ==
    ChangeRule(c, [rules[c] EXCEPT !.flags = IF state THEN @ \cup {flag} ELSE @ \ {flag}])

SetRequiredWalletManager(c, id) == ChangeRule(c, [rules[c] EXCEPT !.walletManager = id])

SetRequiredBasketManager(c, id) == ChangeRule(c, [rules[c] EXCEPT !.basketManager = id])

SetAssetTokenLimits(c, limits) == ChangeRule(c, [rules[c] EXCEPT !.limits = limits])

SetMaxNfts(c, nested, maxNfts) ==
    ChangeRule(c, [rules[c] EXCEPT !.maxNfts = [@ EXCEPT ![nested] = maxNfts]])

SetDepositCap(cap) ==
    /\ depositCap' = cap
    /\ UNCHANGED <<hvars, registryVars, rules, invalidAsset>>

SetAssetInvalidity(invalidity) ==
    /\ invalidAsset' = invalidity
    /\ UNCHANGED <<hvars, registryVars, rules, depositCap>>

-----------------------------------------------------------------------------
(* What deposits have to pass *)

\* _validateDepositAmount; existing is the principal in the same manager's wallet
ValidateDepositAmount(c, existing, amount) ==
    LET newBalance == amount + existing
    IN /\ depositCap > 0 => newBalance <= depositCap
       /\ rules[c].limits.min > 0 => newBalance >= rules[c].limits.min
       /\ rules[c].limits.max > 0 => newBalance <= rules[c].limits.max

\* _validateDeposit
ValidateDeposit(s, n, id, existing, amount) ==
    LET c == ContractOf[n]
    IN /\ "restrictEnergize" \in actionPerms[n] => IsNFTOwnerOrOperator(n, s)
       /\ "charge" \in rules[c].flags
       /\ ~invalidAsset
       /\ rules[c].walletManager \in {AnyManager, id}
       /\ "restricted" \in rules[c].flags => "allowed" \in rules[c].flags
       /\ ValidateDepositAmount(c, existing, amount)

\* _validateNftDeposit of nested into n; the sum is not checked for overflow
ValidateNftDeposit(s, n, id, nested, tokenCount, amount, maxUint) ==
    LET c == ContractOf[n]
        maxNfts == rules[c].maxNfts[ContractOf[nested]]
    IN /\ n # nested
       /\ "restrictBond" \in actionPerms[n] => IsNFTOwnerOrOperator(n, s)
       /\ "basket" \in rules[c].flags
       /\ rules[c].basketManager \in {AnyManager, id}
       /\ maxNfts > 0 => maxNfts >= (tokenCount + amount) % (maxUint + 1)

-----------------------------------------------------------------------------
ManagersStep ==
    \/ \E id \in ManagerIds, m \in Managers : RegisterManager(id, m)
    \/ \E m \in PauseChoices, state \in BOOLEAN : SetPausedState(m, state)
    \/ \E c \in Contracts :
          \/ \E flag \in FlagChoices, state \in BOOLEAN : SetFlag(c, flag, state)
          \/ \E id \in IdChoices : SetRequiredWalletManager(c, id) \/ SetRequiredBasketManager(c, id)
          \/ \E limits \in LimitChoices : SetAssetTokenLimits(c, limits)
          \/ \E nested \in Contracts, maxNfts \in MaxNftsChoices : SetMaxNfts(c, nested, maxNfts)
    \/ \E cap \in CapChoices : SetDepositCap(cap)
    \/ \E invalidity \in InvalidityChoices : SetAssetInvalidity(invalidity)

=============================================================================
