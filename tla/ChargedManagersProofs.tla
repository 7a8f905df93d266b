----------------------- MODULE ChargedManagersProofs -----------------------
(***************************************************************************)
(* What the proofs about money and about bonds share: the registry and the *)
(* rules keep their types and are no transactions of the gate.             *)
(***************************************************************************)
EXTENDS ChargedManagers, ChargedStateProofs

\* A step of the registry or of the rules is not a transaction of the gate.
LEMMA ManagersStepFrame == ManagersStep => UNCHANGED hvars
BY DEF ManagersStep, RegisterManager, SetPausedState, SetFlag, SetRequiredWalletManager,
       SetRequiredBasketManager, SetAssetTokenLimits, SetMaxNfts, SetDepositCap,
       SetAssetInvalidity, ChangeRule

\* Nothing is registered at first.
LEMMA ManagersInitType == ManagersInit => ManagersTypeOK
<1> SUFFICES ASSUME ManagersInit PROVE ManagersTypeOK
  OBVIOUS
<1>1. rules \in [Contracts -> Rules]
  BY ManagersAssumption DEF ManagersInit
<1>2. QED
  BY <1>1 DEF ManagersInit, ManagersTypeOK

\* Registering managers and changing rules keeps their types.
LEMMA ManagersStepType == ManagersTypeOK /\ ManagersStep => ManagersTypeOK'
<1> SUFFICES ASSUME ManagersTypeOK, ManagersStep PROVE ManagersTypeOK'
  OBVIOUS
<1> USE DEF ManagersTypeOK
<1>1. ASSUME NEW id \in ManagerIds, NEW m \in Managers, RegisterManager(id, m)
      PROVE  ManagersTypeOK'
  BY <1>1 DEF RegisterManager, ruleVars
<1>2. ASSUME NEW m \in PauseChoices, NEW state \in BOOLEAN, SetPausedState(m, state)
      PROVE  ManagersTypeOK'
  BY <1>2, ManagersAssumption DEF SetPausedState, ruleVars
<1>3. ASSUME NEW c \in Contracts, NEW rule \in Rules, ChangeRule(c, rule)
      PROVE  ManagersTypeOK'
  BY <1>3 DEF ChangeRule, registryVars
<1>4. ASSUME NEW c \in Contracts, NEW flag \in FlagChoices, NEW state \in BOOLEAN,
             SetFlag(c, flag, state)
      PROVE  ManagersTypeOK'
  <2>1. rules[c] \in Rules /\ flag \in RuleFlags
    BY ManagersAssumption
  <2>2. [rules[c] EXCEPT !.flags = IF state THEN @ \cup {flag} ELSE @ \ {flag}] \in Rules
    BY <2>1 DEF Rules
  <2>3. QED
    BY <1>3, <1>4, <2>2 DEF SetFlag
<1>5. ASSUME NEW c \in Contracts, NEW id \in IdChoices,
             SetRequiredWalletManager(c, id) \/ SetRequiredBasketManager(c, id)
      PROVE  ManagersTypeOK'
  <2>1. rules[c] \in Rules /\ id \in ManagerIds \cup {AnyManager}
    BY ManagersAssumption
  <2>2. /\ [rules[c] EXCEPT !.walletManager = id] \in Rules
        /\ [rules[c] EXCEPT !.basketManager = id] \in Rules
    BY <2>1 DEF Rules
  <2>3. QED
    BY <1>3, <1>5, <2>2 DEF SetRequiredWalletManager, SetRequiredBasketManager
<1>6. ASSUME NEW c \in Contracts, NEW limits \in LimitChoices, SetAssetTokenLimits(c, limits)
      PROVE  ManagersTypeOK'
  <2>1. rules[c] \in Rules /\ limits \in Limits
    BY ManagersAssumption
  <2>2. [rules[c] EXCEPT !.limits = limits] \in Rules
    BY <2>1 DEF Rules
  <2>3. QED
    BY <1>3, <1>6, <2>2 DEF SetAssetTokenLimits
<1>7. ASSUME NEW c \in Contracts, NEW nested \in Contracts, NEW maxNfts \in MaxNftsChoices,
             SetMaxNfts(c, nested, maxNfts)
      PROVE  ManagersTypeOK'
  <2>1. rules[c] \in Rules /\ maxNfts \in Nat
    BY ManagersAssumption
  <2>a. [rules[c].maxNfts EXCEPT ![nested] = maxNfts] \in [Contracts -> Nat]
    BY <2>1 DEF Rules
  <2>2. [rules[c] EXCEPT !.maxNfts = [@ EXCEPT ![nested] = maxNfts]] \in Rules
    BY <2>1, <2>a DEF Rules
  <2>3. QED
    BY <1>3, <1>7, <2>2 DEF SetMaxNfts
<1>8. ASSUME NEW cap \in CapChoices, SetDepositCap(cap)
      PROVE  ManagersTypeOK'
  BY <1>8, ManagersAssumption DEF SetDepositCap, registryVars
<1>9. ASSUME NEW invalidity \in InvalidityChoices, SetAssetInvalidity(invalidity)
      PROVE  ManagersTypeOK'
  BY <1>9, ManagersAssumption DEF SetAssetInvalidity, registryVars
<1>10. QED
  BY <1>1, <1>2, <1>4, <1>5, <1>6, <1>7, <1>8, <1>9 DEF ManagersStep

\* The manager behind an enabled id is a manager.
LEMMA EnabledManager ==
  ASSUME ManagersTypeOK, NEW id \in ManagerIds, IsManagerEnabled(id)
  PROVE  managerOf[id] \in Managers /\ managerOf[id] \notin paused
BY DEF ManagersTypeOK, IsManagerEnabled
=============================================================================
