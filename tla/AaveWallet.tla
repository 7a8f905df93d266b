----------------------------- MODULE AaveWallet -----------------------------
(***************************************************************************)
(* The yield accounting of one NFT's Aave smart wallet: the books kept by  *)
(* contracts/yield/aave/AaveSmartWalletB.sol as driven by                  *)
(* AaveWalletManagerB.sol, with AaveBridgeV2.sol and the Aave lending pool *)
(* reduced to what they do to the wallet's aToken balance.                 *)
(*                                                                         *)
(* The wallet's aTokens grow by themselves.  What exceeds the principal is *)
(* interest, shared between the NFT's creator and its owner.  What the     *)
(* creator has taken ahead of the owner is remembered in one number for    *)
(* all assets, _nftCreatorAmountDischarged.                                *)
(*                                                                         *)
(* Amounts are natural numbers as in the code; SafeMath's sub reverts, so  *)
(* an operation that would go below zero does not happen.  The percentage  *)
(* scale and the ray are constants so that TLC can use small ones.         *)
(***************************************************************************)
EXTENDS Integers, FiniteSets, FiniteSetsExt

CONSTANTS
    Assets,           \* asset tokens
    PERCENTAGE_SCALE, \* 1e4 in SmartWalletBaseB
    RAY,              \* 1e27 in AaveSmartWalletB
    HasCreator,       \* whether getTokenCreator or a redirect names anybody
    PctChoices,       \* the annuity percentages the creator chooses from
    AmountChoices,    \* bound: amounts deposited, accrued, or asked for
    ExecuteChoices,   \* bound: amounts executeForAccount takes out
    MaxDeposit,       \* bound: principal ever deposited per asset
    MaxAccrued        \* bound: interest ever accrued per asset

ASSUME WalletAssumption ==
    /\ PERCENTAGE_SCALE \in Nat \ {0}
    /\ RAY \in Nat \ {0}
    /\ HasCreator \in BOOLEAN
    /\ PctChoices \subseteq 0..PERCENTAGE_SCALE
    /\ AmountChoices \subseteq Nat \ {0}
    /\ ExecuteChoices \subseteq Nat
    /\ MaxDeposit \in Nat
    /\ MaxAccrued \in Nat

VARIABLES
    exists,      \* _wallets[uuid] # 0
    balance,     \* the wallet's aToken balance, per asset
    principal,   \* _assetPrincipalBalance
    creatorDischarged, \* _nftCreatorAmountDischarged
    pct,         \* ChargedSettings._creatorAnnuityPercent of the NFT
    deposited, accrued, executed,  \* per asset: what went in, grew, was taken by executeForAccount
    paidOwner, paidCreator,        \* per asset: what the parties were sent
    lastEvent    \* the last event: its name and reported principalAmount

books == <<balance, principal, creatorDischarged>>
flows == <<deposited, accrued, executed>>
paid == <<paidOwner, paidCreator>>
vars == <<exists, books, pct, flows, paid, lastEvent>>

Zero == [a \in Assets |-> 0]
NoEvent == [name |-> "none", asset |-> "none", principal |-> 0]

TypeOK ==
    /\ exists \in BOOLEAN
    /\ balance \in [Assets -> Nat] /\ principal \in [Assets -> Nat]
    /\ creatorDischarged \in Nat
    /\ pct \in 0..PERCENTAGE_SCALE
    /\ deposited \in [Assets -> Nat] /\ accrued \in [Assets -> Nat] /\ executed \in [Assets -> Nat]
    /\ paidOwner \in [Assets -> Nat] /\ paidCreator \in [Assets -> Nat]
    /\ lastEvent \in [name : {"none", "energized", "discharged", "dischargedForCreator", "released"},
                      asset : Assets \cup {"none"}, principal : Nat]

Init ==
    /\ exists = FALSE
    /\ balance = Zero /\ principal = Zero /\ creatorDischarged = 0
    /\ pct = 0
    /\ deposited = Zero /\ accrued = Zero /\ executed = Zero
    /\ paidOwner = Zero /\ paidCreator = Zero
    /\ lastEvent = NoEvent

-----------------------------------------------------------------------------
(* _getInterest *)

\* mutant of Interest: the whole balance is taken for interest
TotalAsInterest(a) == balance[a]

Interest(a) == balance[a] - principal[a]
CreatorGross(a) == ((Interest(a) + creatorDischarged) * pct) \div PERCENTAGE_SCALE
IsShared(a) == pct > 0 /\ Interest(a) > PERCENTAGE_SCALE

\* None of the subtractions of _getInterest reverts.
InterestComputable(a) ==
    /\ balance[a] >= principal[a]
    /\ IsShared(a) => CreatorGross(a) >= creatorDischarged

CreatorInterest(a) == IF IsShared(a) THEN CreatorGross(a) - creatorDischarged ELSE 0
OwnerInterest(a) == Interest(a) - CreatorInterest(a)

-----------------------------------------------------------------------------
(* _withdraw and _withdrawForCreator, then the bridge's payments *)

\* mutant of Pay: only the receiver's aTokens are sent to the bridge
PayFromBridge(a, creatorAmount, receiverAmount) ==
    /\ creatorAmount + receiverAmount <= balance[a]
    /\ balance' = [balance EXCEPT ![a] = @ - receiverAmount]
    /\ paidCreator' = [paidCreator EXCEPT ![a] = IF HasCreator THEN @ + creatorAmount ELSE @]
    /\ paidOwner' = [paidOwner EXCEPT
           ![a] = @ + receiverAmount + (IF HasCreator THEN 0 ELSE creatorAmount)]

\* The wallet pays out; without a creator the receiver gets both parts.
Pay(a, creatorAmount, receiverAmount) ==
    /\ creatorAmount + receiverAmount <= balance[a]
    /\ balance' = [balance EXCEPT ![a] = @ - (creatorAmount + receiverAmount)]
    /\ paidCreator' = [paidCreator EXCEPT ![a] = IF HasCreator THEN @ + creatorAmount ELSE @]
    /\ paidOwner' = [paidOwner EXCEPT
           ![a] = @ + receiverAmount + (IF HasCreator THEN 0 ELSE creatorAmount)]

\* Withdraw from interest only.
WithdrawInterest(a, amount) ==
    LET ratio == (amount * RAY) \div OwnerInterest(a)
        due == ((CreatorInterest(a) + creatorDischarged) * ratio) \div RAY
        setOff == IF CreatorInterest(a) = 0 THEN 0 ELSE Min({due, creatorDischarged})
    IN /\ amount < OwnerInterest(a)
       /\ creatorDischarged' = creatorDischarged - setOff
       /\ Pay(a, IF CreatorInterest(a) = 0 THEN 0 ELSE due - setOff, amount)
       /\ UNCHANGED principal

\* mutant of WithdrawPrincipal: what comes from the principal is not tracked
WithdrawPrincipalUntracked(a, amount) ==
    LET wanted == amount - OwnerInterest(a)
        fromPrincipal == IF wanted > principal[a] THEN principal[a] - OwnerInterest(a) ELSE wanted
    IN /\ amount >= OwnerInterest(a)
       /\ fromPrincipal >= 0
       /\ creatorDischarged' = 0
       /\ UNCHANGED principal
       /\ Pay(a, CreatorInterest(a), OwnerInterest(a) + fromPrincipal)

\* Withdraw from interest and principal; asking for too much is capped.
WithdrawPrincipal(a, amount) ==
    LET wanted == amount - OwnerInterest(a)
        fromPrincipal == IF wanted > principal[a] THEN principal[a] - OwnerInterest(a) ELSE wanted
    IN /\ amount >= OwnerInterest(a)
       /\ fromPrincipal >= 0
       /\ creatorDischarged' = 0
       /\ principal' = [principal EXCEPT ![a] = @ - fromPrincipal]
       /\ Pay(a, CreatorInterest(a), OwnerInterest(a) + fromPrincipal)

WithdrawAmount(a, amount) == WithdrawInterest(a, amount) \/ WithdrawPrincipal(a, amount)

\* mutant of WithdrawForCreator: what the creator took ahead is forgotten
WithdrawForCreatorUntracked(a, amount) ==
    /\ balance' = [balance EXCEPT ![a] = @ - amount]
    /\ paidCreator' = [paidCreator EXCEPT ![a] = @ + amount]
    /\ UNCHANGED <<creatorDischarged, principal, paidOwner>>

\* mutant of WithdrawForCreator: the advance is subtracted, not added
WithdrawForCreatorBackwards(a, amount) ==
    /\ creatorDischarged' = creatorDischarged - amount
    /\ balance' = [balance EXCEPT ![a] = @ - amount]
    /\ paidCreator' = [paidCreator EXCEPT ![a] = @ + amount]
    /\ UNCHANGED <<principal, paidOwner>>

WithdrawForCreator(a, amount) ==
    /\ creatorDischarged' = creatorDischarged + amount
    /\ balance' = [balance EXCEPT ![a] = @ - amount]
    /\ paidCreator' = [paidCreator EXCEPT ![a] = @ + amount]
    /\ UNCHANGED <<principal, paidOwner>>

Emit(name, a, amount) == lastEvent' = [name |-> name, asset |-> a, principal |-> amount]

-----------------------------------------------------------------------------
(* AaveWalletManagerB's entry points *)

\* energize: ChargedParticles has the wallet created first if there is none.
Energize(a, amount) ==
    /\ deposited[a] + amount <= MaxDeposit
    /\ exists' = TRUE
    /\ principal' = [principal EXCEPT ![a] = @ + amount]
    /\ balance' = [balance EXCEPT ![a] = @ + amount]
    /\ deposited' = [deposited EXCEPT ![a] = @ + amount]
    /\ Emit("energized", a, 0)
    /\ UNCHANGED <<creatorDischarged, pct, accrued, executed, paid>>

\* mutant of Discharge: the wallet's withdraw is called, as release does
DischargeEverything(a) ==
    /\ exists
    /\ InterestComputable(a)
    /\ OwnerInterest(a) > 0
    /\ WithdrawAmount(a, principal[a] + OwnerInterest(a))
    /\ Emit("discharged", a, 0)
    /\ UNCHANGED <<exists, pct, flows>>

Discharge(a) ==
    /\ exists
    /\ InterestComputable(a)
    /\ OwnerInterest(a) > 0
    /\ WithdrawAmount(a, OwnerInterest(a))
    /\ Emit("discharged", a, 0)
    /\ UNCHANGED <<exists, pct, flows>>

DischargeAmount(a, amount) ==
    /\ exists
    /\ InterestComputable(a)
    /\ OwnerInterest(a) >= amount
    /\ WithdrawAmount(a, amount)
    /\ Emit("discharged", a, 0)
    /\ UNCHANGED <<exists, pct, flows>>

\* mutant of DischargeAmountForCreator: any interest can be taken ahead
DischargeAnyForCreator(a, amount) ==
    /\ exists /\ HasCreator
    /\ InterestComputable(a)
    /\ Interest(a) >= amount
    /\ WithdrawForCreator(a, amount)
    /\ Emit("dischargedForCreator", a, 0)
    /\ UNCHANGED <<exists, pct, flows>>

DischargeAmountForCreator(a, amount) ==
    /\ exists /\ HasCreator
    /\ InterestComputable(a)
    /\ CreatorInterest(a) >= amount
    /\ WithdrawForCreator(a, amount)
    /\ Emit("dischargedForCreator", a, 0)
    /\ UNCHANGED <<exists, pct, flows>>

Release(a) ==
    /\ exists
    /\ InterestComputable(a)
    /\ WithdrawAmount(a, principal[a] + OwnerInterest(a))
    /\ Emit("released", a, principal[a])
    /\ UNCHANGED <<exists, pct, flows>>

ReleaseAmount(a, amount) ==
    /\ exists
    /\ InterestComputable(a)
    /\ WithdrawAmount(a, amount)
    /\ Emit("released", a, IF OwnerInterest(a) < amount THEN amount - OwnerInterest(a) ELSE 0)
    /\ UNCHANGED <<exists, pct, flows>>

\* executeForAccount: the NFT's owner has the wallet call another contract,
\* which may take aTokens out without the wallet's books being told.
ExecuteForAccount(a, amount) ==
    /\ exists
    /\ amount <= balance[a]
    /\ balance' = [balance EXCEPT ![a] = @ - amount]
    /\ executed' = [executed EXCEPT ![a] = @ + amount]
    /\ lastEvent' = NoEvent
    /\ UNCHANGED <<exists, principal, creatorDischarged, pct, deposited, accrued, paid>>

RefreshPrincipal(a) ==
    /\ exists
    /\ principal' = [principal EXCEPT ![a] = IF @ > balance[a] THEN balance[a] ELSE @]
    /\ lastEvent' = NoEvent
    /\ UNCHANGED <<exists, balance, creatorDischarged, pct, flows, paid>>

\* ChargedSettings.setCreatorAnnuities, by the creator or the NFT's contract
SetCreatorAnnuities(p) ==
    /\ pct' = p
    /\ lastEvent' = NoEvent
    /\ UNCHANGED <<exists, books, flows, paid>>

\* external: aTokens grow while there are any
Accrue(a, amount) ==
    /\ balance[a] > 0
    /\ accrued[a] + amount <= MaxAccrued
    /\ balance' = [balance EXCEPT ![a] = @ + amount]
    /\ accrued' = [accrued EXCEPT ![a] = @ + amount]
    /\ lastEvent' = NoEvent
    /\ UNCHANGED <<exists, principal, creatorDischarged, pct, deposited, executed, paid>>

Next ==
    \/ \E a \in Assets, amount \in AmountChoices :
          \/ Energize(a, amount)
          \/ DischargeAmount(a, amount)
          \/ DischargeAmountForCreator(a, amount)
          \/ ReleaseAmount(a, amount)
          \/ Accrue(a, amount)
    \/ \E a \in Assets : Discharge(a) \/ Release(a) \/ RefreshPrincipal(a)
    \/ \E a \in Assets, amount \in ExecuteChoices : ExecuteForAccount(a, amount)
    \/ \E p \in PctChoices : SetCreatorAnnuities(p)

Spec == Init /\ [][Next]_vars

-----------------------------------------------------------------------------
(* Properties *)

MostPct == IF PctChoices = {} THEN 0 ELSE Max(PctChoices)

\* Every aToken that was put in or grew is still there or went to the owner,
\* the creator or an executed call: no branch of _withdraw pays twice.
Conservation ==
    \A a \in Assets :
        deposited[a] + accrued[a] =
            balance[a] + paidOwner[a] + paidCreator[a] + executed[a]

\* The wallet always holds at least the principal it owes (no branch of
\* _withdraw pays interest out of principal), unless a call took it.
PrincipalCovered ==
    \A a \in Assets : balance[a] + executed[a] >= principal[a]

\* No deposited token ever reaches the creator: what the owner was paid and is
\* still owed covers all that was deposited, less what executed calls took.
DepositsBelongToOwner ==
    \A a \in Assets : paidCreator[a] <= accrued[a]

\* The creator is paid at most the largest percentage that can be set of what
\* the assets earned, whatever the order of his and the owner's discharges.
CreatorNeverOverpaid ==
    SumFunction(paidCreator) * PERCENTAGE_SCALE <= MostPct * SumFunction(accrued)

\* Discharging interest, by the owner or the creator, leaves the principal
\* and the tokens that back it alone (discharge*, dischargeAmountForCreator).
DischargeKeeps ==
    lastEvent'.name \in {"discharged", "dischargedForCreator"} =>
        /\ principal' = principal
        /\ \A a \in Assets : balance[a] >= principal[a] => balance'[a] >= principal[a]

DischargeKeepsPrincipal == [][DischargeKeeps]_vars

\* What the creator took ahead is within his share, and stays so when interest
\* grows past what is too small to share.
AdvanceCovered(a) == balance[a] >= principal[a] /\ CreatorGross(a) >= creatorDischarged

\* What the creator took ahead stops _getInterest (AaveSmartWalletB.sol:327),
\* which every discharge and release calls, only if his percentage is lowered, an executed call takes tokens, or the
\* owner is paid while at most one unit of the creator's share is left: until
\* then both roundings of _withdraw keep it covered, for shares up to a ray.
CoverKeeps ==
    \A a \in Assets :
        AdvanceCovered(a) /\ CreatorGross(a) <= RAY =>
            \/ AdvanceCovered(a)'
            \/ pct' < pct
            \/ executed'[a] # executed[a]
            \/ paidOwner'[a] # paidOwner[a] /\ CreatorInterest(a) <= 1

AdvanceStaysCovered == [][CoverKeeps]_vars

\* What makes the promises about the creator inductive.  He is paid out of
\* interest: what he got and what is left of it never exceed what accrued.
PaidFromInterest ==
    \A a \in Assets :
        /\ paidCreator[a] <= accrued[a]
        /\ paidCreator[a] + Interest(a) <= accrued[a]

\* Of one asset, his share is bounded; and what he got without having taken it
\* ahead of the owner is his share of the interest that both have been paid.
ShareOf(a) ==
    LET settled == (paidCreator[a] - creatorDischarged) * PERCENTAGE_SCALE
    IN /\ paidCreator[a] * PERCENTAGE_SCALE <= MostPct * accrued[a]
       /\ settled <= MostPct * (accrued[a] - creatorDischarged)
       /\ settled <= MostPct * (accrued[a] - creatorDischarged - Interest(a))

\* Nobody takes anything ahead, or is paid, as the creator if there is none.
NoCreatorNoShare ==
    ~HasCreator => creatorDischarged = 0 /\ \A a \in Assets : paidCreator[a] = 0

PctInv == pct <= MostPct

SharesInv(a) == NoCreatorNoShare /\ PctInv /\ ShareOf(a)
=============================================================================
