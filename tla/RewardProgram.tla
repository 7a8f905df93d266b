----------------------------- MODULE RewardProgram -----------------------------
(* UniverseRP and RewardProgram: the escrow tells the universe of every       *)
(* deposit, payout and bond, and the universe tells the program of the asset, *)
(* which reckons rewards on interest, multiplies them while multiplier NFTs   *)
(* are bonded, and pays them out of its fund.  The escrow's call and its hook *)
(* are one transaction: when the hook reverts, so does the call.  What the    *)
(* wallets pay as interest is an input, see AaveWallet.                       *)
EXTENDS Integers, FiniteSets, FiniteSetsExt

CONSTANTS
    Nfts, Assets,
    Managers,           \* wallet managers
    WholeReporters,     \* those that report the whole principal for a partial release
    Leptons,            \* the multiplier NFTs
    MultiplierNft,      \* their contract
    MultiplierOf,       \* [Leptons -> Nat], in LEPTON_MULTIPLIER_SCALE
    Unit,               \* [Assets -> Nat], 10 ** (18 - decimals)
    BaseMultiplier,     \* in PERCENTAGE_SCALE
    NoManager, NoToken,
    Interests,          \* what a payout may hold of interest
    Amounts,            \* of deposits and partial releases
    Fundings,           \* of the program
    MaxBlock, MaxPrincipal, MaxClaim, MaxFund

ASSUME RewardAssumption ==
    /\ WholeReporters \subseteq Managers /\ NoManager \notin Managers /\ NoToken \notin Assets
    /\ MultiplierNft \notin Assets
    /\ MultiplierOf \in [Leptons -> Nat] /\ Unit \in [Assets -> Nat]
    /\ BaseMultiplier \in Nat /\ Interests \subseteq Nat /\ Amounts \subseteq Nat \ {0} /\ Fundings \subseteq Nat
    /\ MaxBlock \in Nat /\ MaxPrincipal \in [Managers -> Nat] /\ MaxClaim \in Nat /\ MaxFund \in Nat

PERCENTAGE_SCALE == 10000
LEPTON_MULTIPLIER_SCALE == 100

VARIABLES
    block, programs,    \* assetRewardPrograms: the contracts that have the program
    principal,          \* [Nfts -> [Managers -> [Assets -> Nat]]], kept by the wallets
    bonded,             \* [Nfts -> SUBSET Leptons], kept by the baskets
    assetStake, nftStake, multiplierSet, fund,
    untold              \* history: broken bonds whose multiplier counts on, as the program was not told

wallets == <<principal, bonded>>
vars == <<block, programs, wallets, assetStake, nftStake, multiplierSet, fund, untold>>

Empty == [start |-> 0, claimable |-> 0, manager |-> NoManager, token |-> NoToken]

Init ==
    /\ block = 1 /\ programs = {} /\ fund = 0
    /\ principal = [n \in Nfts |-> [m \in Managers |-> [a \in Assets |-> 0]]]
    /\ bonded = [n \in Nfts |-> {}]
    /\ assetStake = [n \in Nfts |-> Empty]
    /\ nftStake = [n \in Nfts |-> [multiplier |-> 0, deposited |-> 0, released |-> 0]]
    /\ multiplierSet = [n \in Nfts |-> {}]
    /\ untold = [n \in Nfts |-> {}]

--------------------------------------------------------------------------------
(* Reckoning.                                                                 *)

\* mutant of TotalMultiplier: a single multiplier is halved as well
HalfOfAny(values) ==
    LET kept == IF Cardinality(values) > 4 THEN values \ {Min(values)} ELSE values
        total == SumSet(kept)
    IN IF Cardinality(values) = 6 THEN 10 * LEPTON_MULTIPLIER_SCALE ELSE total \div 2
TotalMultiplier(values) ==
    LET kept == IF Cardinality(values) > 4 THEN values \ {Min(values)} ELSE values
        total == SumSet(kept)
    IN IF Cardinality(values) = 6 THEN 10 * LEPTON_MULTIPLIER_SCALE
       ELSE IF Cardinality(values) > 1 THEN total \div 2 ELSE total

BaseReward(interest) == (interest * BaseMultiplier) \div PERCENTAGE_SCALE

NftDepositLength(n) ==
    (IF nftStake[n].released > 0 THEN nftStake[n].released ELSE block) - nftStake[n].deposited

(* The share of the stake's blocks for which multiplier NFTs were bonded is   *)
(* multiplied, the rest is not.                                               *)
MultipliedReward(n, reward) ==
    LET assetLength == block - assetStake[n].start
        nftLength == Min({NftDepositLength(n), assetLength})
        during == (reward * ((nftLength * PERCENTAGE_SCALE) \div assetLength)) \div PERCENTAGE_SCALE
        multiplied == (during * nftStake[n].multiplier * LEPTON_MULTIPLIER_SCALE) \div PERCENTAGE_SCALE
    IN IF assetStake[n].start = 0 \/ nftStake[n].multiplier = 0 \/ assetLength = 0 \/ nftLength = 0
         THEN reward
         ELSE (reward - during) + multiplied

--------------------------------------------------------------------------------
(* The program's operations, called by the universe alone.                    *)

CanRegisterExisting(n, m, a) ==
    a \in programs /\ assetStake[n].start = 0 /\ assetStake[n].claimable = 0 /\ principal[n][m][a] > 0

RegisterExistingDeposits(n, m, a) ==
    /\ CanRegisterExisting(n, m, a)
    /\ assetStake' = [assetStake EXCEPT ![n] = [start |-> block, claimable |-> 0, manager |-> m, token |-> a]]
    /\ UNCHANGED <<block, programs, wallets, nftStake, multiplierSet, fund, untold>>

\* mutant of RegisterAssetDeposit: the stake does not name the manager
RegisterDepositUnnamed(n, m, a) ==
    assetStake' = [assetStake EXCEPT ![n] =
        IF @.start = 0 THEN [@ EXCEPT !.start = block, !.token = a] ELSE @]
RegisterAssetDeposit(n, m, a) ==
    assetStake' = [assetStake EXCEPT ![n] =
        IF @.start = 0 THEN [@ EXCEPT !.start = block, !.manager = m, !.token = a] ELSE @]

(* What the fund cannot pay is lost, unless it can pay nothing.               *)
\* mutant of Claim: the fund pays what it does not have
ClaimUncapped(n, claim, start) ==
    /\ fund' = fund - claim
    /\ assetStake' = [assetStake EXCEPT ![n] = [@ EXCEPT !.start = start, !.claimable = 0]]
Claim(n, claim, start) ==
    LET payable == Min({claim, fund})
    IN /\ fund' = fund - payable
       /\ assetStake' = [assetStake EXCEPT ![n] =
            [@ EXCEPT !.start = start, !.claimable = IF payable > 0 THEN 0 ELSE claim]]

(* Reckons with the stake as it was, ends it when its principal is gone, and  *)
(* pays.  Without a stake there is no manager to ask, and the call reverts.   *)
HasStake(n) == assetStake[n].manager # NoManager
\* mutant of RegisterAssetRelease: the new rewards replace those that wait
ReleaseOverwrites(n, interest) ==
    LET stake == assetStake[n]
        reward == MultipliedReward(n, BaseReward(interest)) * Unit[stake.token]
    IN /\ HasStake(n)
       /\ Claim(n, reward, IF principal'[n][stake.manager][stake.token] = 0 THEN 0 ELSE stake.start)
RegisterAssetRelease(n, interest) ==
    LET stake == assetStake[n]
        reward == MultipliedReward(n, BaseReward(interest)) * Unit[stake.token]
    IN /\ HasStake(n)
       /\ Claim(n, stake.claimable + reward, IF principal'[n][stake.manager][stake.token] = 0 THEN 0 ELSE stake.start)

RegisterNftDeposit(n, lepton) ==
    LET value == MultiplierOf[lepton]
        values == multiplierSet[n] \cup {value}
    IN IF value > 0 /\ value \notin multiplierSet[n]
         THEN /\ multiplierSet' = [multiplierSet EXCEPT ![n] = values]
              /\ nftStake' = [nftStake EXCEPT ![n] =
                   [multiplier |-> TotalMultiplier(values), deposited |-> block, released |-> 0]]
         ELSE UNCHANGED <<multiplierSet, nftStake>>

\* mutant of RegisterNftRelease: the multiplier is reckoned before the value is removed
RegisterReleaseLate(n, lepton) ==
    LET values == multiplierSet[n] \ {MultiplierOf[lepton]}
    IN /\ multiplierSet' = [multiplierSet EXCEPT ![n] = values]
       /\ nftStake' = [nftStake EXCEPT ![n] =
            IF values # {} THEN [@ EXCEPT !.multiplier = TotalMultiplier(multiplierSet[n])]
                           ELSE [@ EXCEPT !.released = block]]
RegisterNftRelease(n, lepton) ==
    LET values == multiplierSet[n] \ {MultiplierOf[lepton]}
    IN /\ multiplierSet' = [multiplierSet EXCEPT ![n] = values]
       /\ nftStake' = [nftStake EXCEPT ![n] =
            IF values # {} THEN [@ EXCEPT !.multiplier = TotalMultiplier(values)]
                           ELSE [@ EXCEPT !.released = block]]

--------------------------------------------------------------------------------
(* The escrow's calls with their hooks.                                       *)

SetPrincipal(n, m, a, amount) == principal' = [principal EXCEPT ![n][m][a] = amount]

EnergizeParticle(n, m, a, amount) ==
    /\ principal[n][m][a] + amount <= MaxPrincipal[m]
    /\ SetPrincipal(n, m, a, principal[n][m][a] + amount)
    /\ IF a \in programs THEN RegisterAssetDeposit(n, m, a) ELSE UNCHANGED assetStake
    /\ UNCHANGED <<block, programs, bonded, nftStake, multiplierSet, fund, untold>>

(* onDischarge, onDischargeForCreator, onRelease, once the wallet has paid.   *)
Pays(m, interest) == interest \in (IF m \in WholeReporters THEN {0} ELSE Interests)
AfterPayout(n, a, interest) ==
    /\ assetStake[n].claimable <= MaxClaim
    /\ IF a \in programs THEN RegisterAssetRelease(n, interest)
                         ELSE UNCHANGED <<assetStake, fund>>
    /\ UNCHANGED <<block, programs, bonded, nftStake, multiplierSet, untold>>

Discharge(n, m, a, interest) ==
    /\ Pays(m, interest)
    /\ UNCHANGED principal
    /\ AfterPayout(n, a, interest)

ReleaseParticle(n, m, a, interest) ==
    /\ Pays(m, interest)
    /\ SetPrincipal(n, m, a, 0)
    /\ AfterPayout(n, a, interest)

(* onRelease subtracts the principal that the manager reports from what was   *)
(* paid, which must not be less.                                              *)
ReleaseParticleAmount(n, m, a, amount, interest) ==
    /\ Pays(m, interest) /\ amount <= principal[n][m][a]
    /\ a \in programs /\ m \in WholeReporters => amount = principal[n][m][a]
    /\ SetPrincipal(n, m, a, principal[n][m][a] - amount)
    /\ AfterPayout(n, a, interest)

CovalentBond(n, lepton) ==
    /\ \A other \in Nfts : lepton \notin bonded[other]
    /\ bonded' = [bonded EXCEPT ![n] = @ \cup {lepton}]
    /\ IF MultiplierNft \in programs THEN RegisterNftDeposit(n, lepton)
                                     ELSE UNCHANGED <<nftStake, multiplierSet>>
    /\ UNCHANGED <<block, programs, principal, assetStake, fund, untold>>

BreakCovalentBond(n, lepton) ==
    /\ lepton \in bonded[n]
    /\ bonded' = [bonded EXCEPT ![n] = @ \ {lepton}]
    /\ IF MultiplierNft \in programs
         THEN RegisterNftRelease(n, lepton) /\ UNCHANGED untold
         ELSE /\ untold' = [untold EXCEPT ![n] =
                   IF MultiplierOf[lepton] \in multiplierSet[n] THEN @ \cup {lepton} ELSE @]
              /\ UNCHANGED <<nftStake, multiplierSet>>
    /\ UNCHANGED <<block, programs, principal, assetStake, fund>>

(* Tokens sent to the wallet or drawn out of it by a call, and then           *)
(* refreshPrincipal: the universe hears nothing of it.                        *)
RefreshPrincipal(n, m, a) ==
    /\ \E amount \in 0 .. MaxPrincipal[m] : SetPrincipal(n, m, a, amount)
    /\ UNCHANGED <<block, programs, bonded, assetStake, nftStake, multiplierSet, fund, untold>>

--------------------------------------------------------------------------------
(* The owner of the universe and of the program.                              *)

SetPrograms(set) ==
    /\ programs' = set
    /\ UNCHANGED <<block, wallets, assetStake, nftStake, multiplierSet, fund, untold>>
SetRewardProgram(a) == SetPrograms(programs \cup {a, MultiplierNft})
RemoveRewardProgram(a) == SetPrograms(programs \ {a, MultiplierNft})

FundProgram(amount) ==
    /\ fund + amount <= MaxFund
    /\ fund' = fund + amount
    /\ UNCHANGED <<block, programs, wallets, assetStake, nftStake, multiplierSet, untold>>

NextBlock ==
    /\ block < MaxBlock /\ block' = block + 1
    /\ UNCHANGED <<programs, wallets, assetStake, nftStake, multiplierSet, fund, untold>>

AssetStep ==
    \E n \in Nfts, m \in Managers, a \in Assets :
        \/ RegisterExistingDeposits(n, m, a)
        \/ RefreshPrincipal(n, m, a)
        \/ \E amount \in Amounts : EnergizeParticle(n, m, a, amount)
        \/ \E interest \in Interests \cup {0} :
             \/ Discharge(n, m, a, interest)
             \/ ReleaseParticle(n, m, a, interest)
             \/ \E amount \in Amounts : ReleaseParticleAmount(n, m, a, amount, interest)
NftStep ==
    \E n \in Nfts, lepton \in Leptons : CovalentBond(n, lepton) \/ BreakCovalentBond(n, lepton)
OwnerStep ==
    \/ \E a \in Assets : SetRewardProgram(a) \/ RemoveRewardProgram(a)
    \/ \E amount \in Fundings : FundProgram(amount)
Next == AssetStep \/ NftStep \/ OwnerStep \/ NextBlock
Spec == Init /\ [][Next]_vars

--------------------------------------------------------------------------------
AssetStakes == [start : Nat, claimable : Nat, manager : Managers \cup {NoManager}, token : Assets \cup {NoToken}]
NftStakes == [multiplier : Nat, deposited : Nat, released : Nat]

(* The variables have their types: no subtraction that SafeMath guards goes   *)
(* below zero, and no stake names half of what it is about.                   *)
TypeOK ==
    /\ block \in Nat /\ programs \subseteq Assets \cup {MultiplierNft} /\ fund \in Nat
    /\ principal \in [Nfts -> [Managers -> [Assets -> Nat]]]
    /\ bonded \in [Nfts -> SUBSET Leptons]
    /\ assetStake \in [Nfts -> AssetStakes] /\ nftStake \in [Nfts -> NftStakes]
    /\ multiplierSet \in [Nfts -> SUBSET Nat]
    /\ untold \in [Nfts -> SUBSET Leptons]

(* A multiplier counts only while an NFT that has it is bonded, unless the    *)
(* program was not told of the break; and a running stake multiplies by       *)
(* exactly what its set of multipliers comes to.                              *)
(* (RewardProgram.sol:201 registerNftRelease)                                 *)
MultipliersComeFromBonds ==
    \A n \in Nfts :
        /\ multiplierSet[n] \subseteq {MultiplierOf[lepton] : lepton \in bonded[n] \cup untold[n]}
        /\ IF multiplierSet[n] = {} THEN nftStake[n].multiplier = 0 \/ nftStake[n].released > 0
           ELSE nftStake[n].released = 0 /\ nftStake[n].multiplier = TotalMultiplier(multiplierSet[n])

(* The multipliers that NFTs have are between one and ten, and all of them    *)
(* come to at most twenty: those of the presets of Lepton are and do.         *)
MultiplierValues == {MultiplierOf[lepton] : lepton \in Leptons} \ {0}
MultipliersInScale ==
    /\ MultiplierValues \subseteq LEPTON_MULTIPLIER_SCALE .. 10 * LEPTON_MULTIPLIER_SCALE
    /\ SumSet(MultiplierValues) <= 20 * LEPTON_MULTIPLIER_SCALE

(* Whatever was bonded and broken before and during a stake, interest earns   *)
(* no less than without multipliers and no more than ten times as much.       *)
(* (RewardProgram.sol:246 calculateMultipliedReward)                          *)
MultipliersOnlyAdd ==
    \A n \in Nfts, interest \in Interests :
        LET reward == BaseReward(interest)
        IN MultipliedReward(n, reward) \in reward .. 10 * reward

(* A deposit of an asset that has a program can always be released, at once   *)
(* or after a call of registerExistingDeposits that is open to everyone,      *)
(* whenever and however the deposit came about.  (RewardProgram.sol:165)      *)
DepositsCanLeave ==
    \A n \in Nfts, m \in Managers, a \in Assets :
        a \in programs /\ principal[n][m][a] > 0 => HasStake(n) \/ CanRegisterExisting(n, m, a)

(* Rewards that wait for the fund are dropped only when they are paid, in     *)
(* full or with all that is in the fund.                                      *)
(* (RewardProgram.sol:339 _claimRewards)                                      *)
Settled ==
    \A n \in Nfts :
        LET dropped == assetStake[n].claimable - assetStake'[n].claimable
        IN dropped > 0 => fund > fund' /\ (fund' = 0 \/ fund - fund' >= dropped)
RewardsAreSettled == [][Settled]_vars
================================================================================
