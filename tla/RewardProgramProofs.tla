-------------------------- MODULE RewardProgramProofs --------------------------
(* Whatever the multipliers, units and amounts are: deposits can leave,       *)
(* multipliers come from bonds, no subtraction goes below zero and rewards    *)
(* are settled; with multipliers in scale, they only add to a reward.         *)
EXTENDS RewardProgram, NumberLemmas

(* The shape of the stakes, and that a stake without a manager is empty.      *)
Shape ==
    /\ block \in Nat \ {0}
    /\ DOMAIN principal = Nfts /\ DOMAIN bonded = Nfts /\ DOMAIN untold = Nfts
    /\ DOMAIN multiplierSet = Nfts
    /\ DOMAIN assetStake = Nfts
    /\ \A n \in Nfts : DOMAIN assetStake[n] = {"start", "claimable", "manager", "token"}
    /\ DOMAIN nftStake = Nfts
    /\ \A n \in Nfts : DOMAIN nftStake[n] = {"multiplier", "deposited", "released"}
StakeNamed(n) == HasStake(n) \/ (assetStake[n].start = 0 /\ assetStake[n].claimable = 0)
StakesNamed == \A n \in Nfts : StakeNamed(n)
SInv == Shape /\ StakesNamed

LEMMA SInit == Init => SInv
BY DEF Init, SInv, Shape, StakesNamed, StakeNamed, HasStake, Empty

(* A claim changes start and claimable of one stake, nothing else.            *)
LEMMA ClaimKeepsNames ==
    ASSUME SInv, NEW n \in Nfts, HasStake(n), NEW claim, NEW start, Claim(n, claim, start)
    PROVE  /\ DOMAIN assetStake' = Nfts
           /\ \A k \in Nfts : DOMAIN assetStake'[k] = {"start", "claimable", "manager", "token"}
           /\ StakesNamed'
<1> DEFINE rest == IF Min({claim, fund}) > 0 THEN 0 ELSE claim
<1> HIDE DEF rest
<1>1. assetStake' = [assetStake EXCEPT ![n] = [assetStake[n] EXCEPT !.start = start, !.claimable = rest]]
  BY DEF Claim, rest
<1>2. \A k \in Nfts : assetStake'[k].manager = assetStake[k].manager
                        /\ DOMAIN assetStake'[k] = DOMAIN assetStake[k]
  BY <1>1 DEF SInv, Shape
<1>3. \A k \in Nfts : k # n => assetStake'[k] = assetStake[k]
  BY <1>1 DEF SInv, Shape
<1> QED BY <1>1, <1>2, <1>3 DEF SInv, Shape, StakesNamed, StakeNamed, HasStake

LEMMA PayoutKeeps ==
    ASSUME SInv, NEW n \in Nfts, NEW m, NEW a, NEW interest, NEW amount,
           SetPrincipal(n, m, a, amount) \/ UNCHANGED principal, AfterPayout(n, a, interest)
    PROVE  SInv'
<1>1. DOMAIN principal' = Nfts
  BY DEF SetPrincipal, SInv, Shape
<1>2. CASE a \in programs
  <2>1. HasStake(n) /\ \E claim, start : Claim(n, claim, start)
    BY <1>2 DEF AfterPayout, RegisterAssetRelease
  <2>2. PICK claim, start : Claim(n, claim, start)
    BY <2>1
  <2> QED BY <1>1, <2>1, <2>2, ClaimKeepsNames DEF AfterPayout, SInv, Shape
<1>3. CASE a \notin programs
  BY <1>1, <1>3 DEF AfterPayout, SInv, Shape, StakesNamed, StakeNamed, HasStake
<1> QED BY <1>2, <1>3

LEMMA NewStakeKeeps ==
    ASSUME SInv, NEW n \in Nfts, NEW s, NEW c, NEW m \in Managers, NEW a,
           assetStake' = [assetStake EXCEPT ![n] = [start |-> s, claimable |-> c, manager |-> m, token |-> a]]
    PROVE  /\ DOMAIN assetStake' = Nfts
           /\ \A k \in Nfts : DOMAIN assetStake'[k] = {"start", "claimable", "manager", "token"}
           /\ StakesNamed'
<1>1. m # NoManager
  BY RewardAssumption
<1> QED BY <1>1 DEF SInv, Shape, StakesNamed, StakeNamed, HasStake

LEMMA AssetStepKeeps == SInv /\ AssetStep => SInv'
<1> SUFFICES ASSUME SInv, NEW n \in Nfts, NEW m \in Managers, NEW a \in Assets,
      \/ RegisterExistingDeposits(n, m, a)
      \/ RefreshPrincipal(n, m, a)
      \/ \E amount \in Amounts : EnergizeParticle(n, m, a, amount)
      \/ \E interest \in Interests \cup {0} :
           \/ Discharge(n, m, a, interest)
           \/ ReleaseParticle(n, m, a, interest)
           \/ \E amount \in Amounts : ReleaseParticleAmount(n, m, a, amount, interest)
      PROVE SInv'
  BY DEF AssetStep
<1>1. CASE RegisterExistingDeposits(n, m, a)
  <2>1. DOMAIN assetStake' = Nfts /\ StakesNamed'
          /\ \A k \in Nfts : DOMAIN assetStake'[k] = {"start", "claimable", "manager", "token"}
    BY <1>1, NewStakeKeeps DEF RegisterExistingDeposits
  <2> QED BY <1>1, <2>1 DEF RegisterExistingDeposits, wallets, SInv, Shape
<1>2. CASE RefreshPrincipal(n, m, a)
  BY <1>2 DEF RefreshPrincipal, SetPrincipal, SInv, Shape, StakesNamed, StakeNamed, HasStake
<1>3. ASSUME NEW amount \in Amounts, EnergizeParticle(n, m, a, amount) PROVE SInv'
  <2>1. DOMAIN principal' = Nfts
    BY <1>3 DEF EnergizeParticle, SetPrincipal, SInv, Shape
  <2>2. CASE a \in programs /\ assetStake[n].start = 0
    <3>1. assetStake' = [assetStake EXCEPT ![n] =
            [assetStake[n] EXCEPT !.start = block, !.manager = m, !.token = a]]
      BY <1>3, <2>2 DEF EnergizeParticle, RegisterAssetDeposit
    <3>2. assetStake'[n].manager = m /\ DOMAIN assetStake'[n] = DOMAIN assetStake[n]
      BY <3>1 DEF SInv, Shape
    <3>3. \A k \in Nfts : k # n => assetStake'[k] = assetStake[k]
      BY <3>1 DEF SInv, Shape
    <3>4. m # NoManager
      BY RewardAssumption
    <3>5. DOMAIN assetStake' = Nfts
      BY <3>1 DEF SInv, Shape
    <3> QED BY <1>3, <2>1, <3>2, <3>3, <3>4, <3>5
            DEF EnergizeParticle, SInv, Shape, StakesNamed, StakeNamed, HasStake
  <2>3. CASE a \notin programs \/ assetStake[n].start # 0
    <3>1. DOMAIN assetStake' = Nfts /\ \A k \in Nfts : assetStake'[k] = assetStake[k]
      BY <1>3, <2>3 DEF EnergizeParticle, RegisterAssetDeposit, SInv, Shape
    <3> QED BY <1>3, <2>1, <3>1 DEF EnergizeParticle, SInv, Shape, StakesNamed, StakeNamed, HasStake
  <2> QED BY <2>2, <2>3
<1>4. ASSUME NEW interest \in Interests \cup {0}, Discharge(n, m, a, interest) PROVE SInv'
  BY <1>4, PayoutKeeps DEF Discharge
<1>5. ASSUME NEW interest \in Interests \cup {0}, ReleaseParticle(n, m, a, interest) PROVE SInv'
  BY <1>5, PayoutKeeps DEF ReleaseParticle
<1>6. ASSUME NEW interest \in Interests \cup {0}, NEW amount \in Amounts,
             ReleaseParticleAmount(n, m, a, amount, interest)
      PROVE SInv'
  <2>1. SetPrincipal(n, m, a, principal[n][m][a] - amount) /\ AfterPayout(n, a, interest)
    BY <1>6 DEF ReleaseParticleAmount
  <2> QED BY <2>1, PayoutKeeps
<1> QED BY <1>1, <1>2, <1>3, <1>4, <1>5, <1>6

LEMMA NftStepKeeps == SInv /\ NftStep => SInv'
<1> SUFFICES ASSUME SInv, NEW n \in Nfts, NEW lepton \in Leptons,
                    CovalentBond(n, lepton) \/ BreakCovalentBond(n, lepton)
             PROVE SInv'
  BY DEF NftStep
<1>1. CASE CovalentBond(n, lepton)
  <2>1. DOMAIN bonded' = Nfts /\ UNCHANGED <<block, principal, assetStake, untold>>
    BY <1>1 DEF CovalentBond, SInv, Shape
  <2>2. /\ DOMAIN multiplierSet' = Nfts /\ DOMAIN nftStake' = Nfts
        /\ \A k \in Nfts : DOMAIN nftStake'[k] = {"multiplier", "deposited", "released"}
    BY <1>1 DEF CovalentBond, RegisterNftDeposit, SInv, Shape
  <2> QED BY <2>1, <2>2 DEF SInv, Shape, StakesNamed, StakeNamed, HasStake
<1>2. CASE BreakCovalentBond(n, lepton)
  <2>1. DOMAIN bonded' = Nfts /\ DOMAIN untold' = Nfts /\ UNCHANGED <<block, principal, assetStake>>
    BY <1>2 DEF BreakCovalentBond, SInv, Shape
  <2>2. /\ DOMAIN multiplierSet' = Nfts /\ DOMAIN nftStake' = Nfts
        /\ \A k \in Nfts : DOMAIN nftStake'[k] = {"multiplier", "deposited", "released"}
    BY <1>2 DEF BreakCovalentBond, RegisterNftRelease, SInv, Shape
  <2> QED BY <2>1, <2>2 DEF SInv, Shape, StakesNamed, StakeNamed, HasStake
<1> QED BY <1>1, <1>2

LEMMA OtherStepsKeep == SInv /\ (OwnerStep \/ NextBlock \/ UNCHANGED vars) => SInv'
BY DEF OwnerStep, SetRewardProgram, RemoveRewardProgram, SetPrograms, FundProgram, NextBlock,
       vars, wallets, SInv, Shape, StakesNamed, StakeNamed, HasStake

LEMMA SNext == SInv /\ [Next]_vars => SInv'
BY AssetStepKeeps, NftStepKeeps, OtherStepsKeep DEF Next

(* For all assets, managers, multipliers and amounts: a deposit of an asset   *)
(* that has a program is released at once, or after registerExistingDeposits. *)
(* (RewardProgram.sol:165, the manager of the stake)                          *)
THEOREM DepositsLeave == Spec => []DepositsCanLeave
<1>1. SInv => DepositsCanLeave
  BY DEF SInv, StakesNamed, StakeNamed, DepositsCanLeave, CanRegisterExisting
<1> QED BY <1>1, SInit, SNext, PTL DEF Spec

(* What one particle's multipliers come from.                                 *)
FromBonds(n) ==
    multiplierSet[n] \subseteq {MultiplierOf[lepton] : lepton \in bonded[n] \cup untold[n]}
Reckoned(n) ==
    \E values : /\ values = multiplierSet[n]
                /\ IF values = {} THEN nftStake[n].multiplier = 0 \/ nftStake[n].released > 0
                   ELSE nftStake[n].released = 0 /\ nftStake[n].multiplier = TotalMultiplier(values)
Multipliers == \A n \in Nfts : FromBonds(n) /\ Reckoned(n)

LEMMA MultipliersBond ==
    ASSUME SInv, Multipliers, NEW n \in Nfts, NEW lepton \in Leptons, CovalentBond(n, lepton)
    PROVE  Multipliers'
<1> DEFINE v == MultiplierOf[lepton]
           told == MultiplierNft \in programs /\ v > 0 /\ v \notin multiplierSet[n]
           values == multiplierSet[n] \cup {v}
<1>1. UNCHANGED untold /\ bonded'[n] = bonded[n] \cup {lepton}
        /\ \A k \in Nfts : k # n => bonded'[k] = bonded[k]
  BY DEF CovalentBond, SInv, Shape
<1>2. CASE told
  <2>1. /\ multiplierSet'[n] = values
        /\ nftStake'[n] = [multiplier |-> TotalMultiplier(values), deposited |-> block, released |-> 0]
        /\ \A k \in Nfts : k # n => multiplierSet'[k] = multiplierSet[k] /\ nftStake'[k] = nftStake[k]
    BY <1>2 DEF CovalentBond, RegisterNftDeposit, SInv, Shape
  <2>2. FromBonds(n)'
    BY <1>1, <2>1 DEF Multipliers, FromBonds
  <2>3. Reckoned(n)'
    <3>1. multiplierSet'[n] # {}
      BY <2>1
    <3>2. nftStake'[n].released = 0 /\ nftStake'[n].multiplier = TotalMultiplier(values)
      BY <2>1
    <3> QED BY <2>1, <3>1, <3>2 DEF Reckoned
  <2>4. ASSUME NEW k \in Nfts, k # n PROVE FromBonds(k)' /\ Reckoned(k)'
    BY <1>1, <2>1, <2>4 DEF Multipliers, FromBonds, Reckoned
  <2> QED BY <2>2, <2>3, <2>4 DEF Multipliers
<1>3. CASE ~told
  <2>1. UNCHANGED <<multiplierSet, nftStake>>
    BY <1>3 DEF CovalentBond, RegisterNftDeposit
  <2>2. ASSUME NEW k \in Nfts PROVE FromBonds(k)'
    BY <1>1, <2>1 DEF Multipliers, FromBonds
  <2>3. ASSUME NEW k \in Nfts PROVE Reckoned(k)'
    BY <2>1 DEF Multipliers, Reckoned
  <2> QED BY <2>2, <2>3 DEF Multipliers
<1> QED BY <1>2, <1>3

LEMMA MultipliersBreak ==
    ASSUME SInv, Multipliers, NEW n \in Nfts, NEW lepton \in Leptons, BreakCovalentBond(n, lepton)
    PROVE  Multipliers'
<1> DEFINE v == MultiplierOf[lepton]
           values == multiplierSet[n] \ {v}
<1>1. bonded'[n] = bonded[n] \ {lepton} /\ \A k \in Nfts : k # n => bonded'[k] = bonded[k]
  BY DEF BreakCovalentBond, SInv, Shape
<1>2. CASE MultiplierNft \in programs
  <2>1. /\ multiplierSet'[n] = values /\ untold' = untold
        /\ \A k \in Nfts : k # n => multiplierSet'[k] = multiplierSet[k] /\ nftStake'[k] = nftStake[k]
    BY <1>2 DEF BreakCovalentBond, RegisterNftRelease, SInv, Shape
  <2>2. FromBonds(n)'
    BY <1>1, <2>1 DEF Multipliers, FromBonds
  <2>3. Reckoned(n)'
    <3>1. CASE values = {}
      <4>1. nftStake'[n].released = block
        BY <1>2, <3>1 DEF BreakCovalentBond, RegisterNftRelease, SInv, Shape
      <4> QED BY <2>1, <3>1, <4>1 DEF Reckoned, SInv, Shape
    <3>2. CASE values # {}
      <4>1. nftStake'[n].multiplier = TotalMultiplier(values)
              /\ nftStake'[n].released = nftStake[n].released
        BY <1>2, <3>2 DEF BreakCovalentBond, RegisterNftRelease, SInv, Shape
      <4>2. nftStake[n].released = 0
        BY <3>2 DEF Multipliers, Reckoned
      <4> QED BY <2>1, <3>2, <4>1, <4>2 DEF Reckoned
    <3> QED BY <3>1, <3>2
  <2>4. ASSUME NEW k \in Nfts, k # n PROVE FromBonds(k)' /\ Reckoned(k)'
    BY <1>1, <2>1, <2>4 DEF Multipliers, FromBonds, Reckoned
  <2> QED BY <2>2, <2>3, <2>4 DEF Multipliers
<1>3. CASE MultiplierNft \notin programs
  <2>1. UNCHANGED <<multiplierSet, nftStake>>
    BY <1>3 DEF BreakCovalentBond
  <2>2. untold'[n] = (IF v \in multiplierSet[n] THEN untold[n] \cup {lepton} ELSE untold[n])
          /\ \A k \in Nfts : k # n => untold'[k] = untold[k]
    BY <1>3 DEF BreakCovalentBond, SInv, Shape
  <2>3. ASSUME NEW k \in Nfts PROVE FromBonds(k)'
    BY <1>1, <2>1, <2>2 DEF Multipliers, FromBonds
  <2>4. ASSUME NEW k \in Nfts PROVE Reckoned(k)'
    BY <2>1 DEF Multipliers, Reckoned
  <2> QED BY <2>3, <2>4 DEF Multipliers
<1> QED BY <1>2, <1>3

LEMMA MultipliersNext == SInv /\ Multipliers /\ [Next]_vars => Multipliers'
<1> SUFFICES ASSUME SInv, Multipliers, [Next]_vars PROVE Multipliers'
  OBVIOUS
<1>1. CASE NftStep
  BY <1>1, MultipliersBond, MultipliersBreak DEF NftStep
<1>2. CASE AssetStep \/ OwnerStep \/ NextBlock \/ UNCHANGED vars
  <2>1. UNCHANGED <<bonded, untold, multiplierSet, nftStake>>
    BY <1>2 DEF AssetStep, RegisterExistingDeposits, RefreshPrincipal, EnergizeParticle, Discharge,
                ReleaseParticle, ReleaseParticleAmount, AfterPayout, OwnerStep, SetRewardProgram,
                RemoveRewardProgram, SetPrograms, FundProgram, NextBlock, vars, wallets
  <2> QED BY <2>1 DEF Multipliers, FromBonds, Reckoned
<1> QED BY <1>1, <1>2 DEF Next

(* For all multiplier NFTs and values: a multiplier counts only while an NFT  *)
(* that has it is bonded or left untold, and a running stake multiplies by    *)
(* what its set comes to.  (RewardProgram.sol:201 registerNftRelease)         *)
THEOREM MultipliersAreBonded == Spec => []MultipliersComeFromBonds
<1>1. Init => Multipliers
  <2> SUFFICES ASSUME Init, NEW n \in Nfts PROVE FromBonds(n) /\ Reckoned(n)
    BY DEF Multipliers
  <2>1. multiplierSet[n] = {} /\ nftStake[n].multiplier = 0
    BY DEF Init
  <2> QED BY <2>1 DEF FromBonds, Reckoned
<1>2. Multipliers => MultipliersComeFromBonds
  BY DEF Multipliers, FromBonds, Reckoned, MultipliersComeFromBonds
<1> QED BY <1>1, <1>2, SInit, SNext, MultipliersNext, PTL DEF Spec

--------------------------------------------------------------------------------
(* Reckoning stays within the natural numbers.                                *)

(* A stake names an asset; nothing began, or ended, in the future; an NFT's   *)
(* multipliers are finitely many of those there are.                          *)
StakesSound ==
    \A n \in Nfts :
        /\ HasStake(n) => assetStake[n].token \in Assets
        /\ assetStake[n].start <= block
        /\ multiplierSet[n] \subseteq MultiplierValues /\ IsFiniteSet(multiplierSet[n])
        /\ nftStake[n].deposited <= block /\ nftStake[n].released <= block
        /\ nftStake[n].released > 0 => nftStake[n].deposited <= nftStake[n].released

RInv == SInv /\ TypeOK /\ StakesSound

LEMMA ValuesAreNumbers == MultiplierValues \subseteq Nat \ {0}
BY RewardAssumption DEF MultiplierValues

(* What a set of multipliers comes to is a number.                            *)
LEMMA TotalIsNumber ==
    ASSUME NEW values, IsFiniteSet(values), values \subseteq Nat
    PROVE  TotalMultiplier(values) \in Nat
<1> DEFINE kept == IF Cardinality(values) > 4 THEN values \ {Min(values)} ELSE values
<1>1. IsFiniteSet(kept) /\ \A v \in kept : v \in Nat
  BY FS_Subset
<1> HIDE DEF kept
<1>2. SumSet(kept) \in Nat
  BY <1>1, SumSetBounds
<1>3. SumSet(kept) \div 2 \in Nat
  BY <1>2, DivBounds
<1> QED BY <1>2, <1>3 DEF TotalMultiplier, kept, LEPTON_MULTIPLIER_SCALE

(* The interest's reward is a number, and the multiplied one too; multipliers *)
(* between one and ten leave it between the reward and its tenfold.           *)
LEMMA RewardBounds ==
    ASSUME RInv, NEW n \in Nfts, NEW reward \in Nat
    PROVE  /\ MultipliedReward(n, reward) \in Nat
           /\ nftStake[n].multiplier \in {0} \cup 100 .. 1000 =>
                 /\ reward <= MultipliedReward(n, reward)
                 /\ MultipliedReward(n, reward) <= 10 * reward
<1> DEFINE assetLength == block - assetStake[n].start
           depositLength == NftDepositLength(n)
           nftLength == Min({depositLength, assetLength})
           share == (nftLength * 10000) \div assetLength
           during == (reward * share) \div 10000
           x == nftStake[n].multiplier
           multiplied == (during * x * 100) \div 10000
           flat == assetStake[n].start = 0 \/ x = 0 \/ assetLength = 0 \/ nftLength = 0
<1>1. x \in Nat /\ assetStake[n].start \in Nat /\ block \in Nat
  BY DEF RInv, TypeOK, AssetStakes, NftStakes
<1>2. assetLength \in Nat
  BY <1>1 DEF RInv, StakesSound
<1>3. depositLength \in Nat
  <2>1. nftStake[n].deposited \in Nat /\ nftStake[n].released \in Nat
    BY DEF RInv, TypeOK, NftStakes
  <2> QED BY <1>1, <2>1 DEF RInv, StakesSound, NftDepositLength
<1>4. MultipliedReward(n, reward) = IF flat THEN reward ELSE (reward - during) + multiplied
  BY DEF MultipliedReward, PERCENTAGE_SCALE, LEPTON_MULTIPLIER_SCALE
<1>5. CASE flat
  BY <1>4, <1>5
<1>6. CASE ~flat
  <2> HIDE DEF assetLength, depositLength
  <2>1. nftLength \in Nat /\ nftLength <= assetLength /\ assetLength \in Nat \ {0}
    BY <1>2, <1>3, <1>6, MinOfTwo
  <2> HIDE DEF nftLength
  <2>2. share \in Nat /\ share <= 10000
    <3>1. share \in Nat /\ share * assetLength <= nftLength * 10000
      BY <2>1, DivBounds
    <3>2. nftLength * 10000 <= 10000 * assetLength
      BY <2>1
    <3> HIDE DEF share
    <3>3. share * assetLength <= 10000 * assetLength
      BY <2>1, <3>1, <3>2
    <3> QED BY <2>1, <3>1, <3>3, TimesCancel
  <2> HIDE DEF share
  <2>3. during \in Nat /\ during <= reward
    <3>1. reward * share \in Nat /\ share * reward <= 10000 * reward
      BY <2>2, TimesMonotone
    <3>2. during \in Nat /\ during * 10000 <= reward * share
      BY <3>1, DivBounds
    <3> HIDE DEF during
    <3>3. during * 10000 <= reward * 10000
      BY <2>2, <3>1, <3>2
    <3> QED BY <3>2, <3>3, TimesCancel
  <2> HIDE DEF during
  <2>4. during * x * 100 \in Nat
    BY <1>1, <2>3
  <2>5. multiplied \in Nat /\ multiplied * 10000 <= during * x * 100
        /\ during * x * 100 < multiplied * 10000 + 10000
    BY <2>4, DivBounds
  <2>6. ASSUME x \in 100 .. 1000 PROVE during <= multiplied /\ multiplied <= 10 * during
    <3> HIDE DEF x, multiplied
    <3>1. 100 * during <= x * during /\ x * during <= 1000 * during
      BY <2>3, <2>6, TimesMonotone
    <3> QED BY <1>1, <2>3, <2>4, <2>5, <3>1
  <2> HIDE DEF multiplied
  <2>7. MultipliedReward(n, reward) = (reward - during) + multiplied
    BY <1>4, <1>6
  <2> QED BY <1>6, <2>3, <2>5, <2>6, <2>7
<1> QED BY <1>5, <1>6

LEMMA BaseIsNumber == ASSUME NEW interest \in Nat PROVE BaseReward(interest) \in Nat
<1>1. interest * BaseMultiplier \in Nat /\ PERCENTAGE_SCALE \in Nat \ {0}
  BY RewardAssumption DEF PERCENTAGE_SCALE
<1> QED BY <1>1, DivBounds DEF BaseReward

--------------------------------------------------------------------------------
(* Every step keeps the types and the stakes sound.                           *)

LEMMA RInit == Init => RInv
<1> SUFFICES ASSUME Init PROVE RInv
  OBVIOUS
<1>1. TypeOK
  <2>1. Empty \in AssetStakes /\ [multiplier |-> 0, deposited |-> 0, released |-> 0] \in NftStakes
    BY DEF Empty, AssetStakes, NftStakes
  <2> QED BY <2>1 DEF Init, TypeOK
<1>2. StakesSound
  BY RewardAssumption, FS_EmptySet DEF Init, StakesSound, HasStake, Empty
<1> QED BY <1>1, <1>2, SInit DEF RInv

(* What a claim does to the fund and the stake: it is paid in full, or with   *)
(* all there is.                                                              *)
Settles(n, claim, start, payable) ==
    /\ fund' = fund - payable /\ payable <= fund /\ payable <= claim
    /\ payable = fund \/ payable = claim
    /\ assetStake' = [assetStake EXCEPT ![n] =
          [@ EXCEPT !.start = start, !.claimable = IF payable > 0 THEN 0 ELSE claim]]

LEMMA ClaimSettles ==
    ASSUME RInv, NEW n \in Nfts, NEW claim \in Nat, NEW start, Claim(n, claim, start)
    PROVE  \E payable \in Nat : Settles(n, claim, start, payable)
<1>1. fund \in Nat
  BY DEF RInv, TypeOK
<1>2. Min({claim, fund}) \in Nat /\ Min({claim, fund}) <= fund /\ Min({claim, fund}) <= claim
      /\ (Min({claim, fund}) = fund \/ Min({claim, fund}) = claim)
  BY <1>1, MinOfTwo
<1> QED BY <1>2 DEF Claim, Settles

(* A hook after a payout claims a number, at least what waited.               *)
LEMMA ReleaseClaims ==
    ASSUME RInv, NEW n \in Nfts, NEW interest \in Nat, RegisterAssetRelease(n, interest)
    PROVE  /\ HasStake(n)
           /\ \E claim \in Nat, start \in {0, assetStake[n].start} :
                 claim >= assetStake[n].claimable /\ Claim(n, claim, start)
<1> DEFINE stake == assetStake[n]
           reward == MultipliedReward(n, BaseReward(interest)) * Unit[stake.token]
<1>1. HasStake(n) /\ stake.claimable \in Nat
  BY DEF RegisterAssetRelease, RInv, TypeOK, AssetStakes
<1>2. MultipliedReward(n, BaseReward(interest)) \in Nat /\ Unit[stake.token] \in Nat
  BY <1>1, BaseIsNumber, RewardBounds, RewardAssumption DEF RInv, StakesSound
<1>3. reward \in Nat
  BY <1>2
<1> DEFINE start == IF principal'[n][stake.manager][stake.token] = 0 THEN 0 ELSE stake.start
<1>4. Claim(n, stake.claimable + reward, start)
  BY DEF RegisterAssetRelease
<1>5. start \in {0, stake.start}
  OBVIOUS
<1> HIDE DEF reward, start
<1>6. stake.claimable + reward \in Nat /\ stake.claimable + reward >= stake.claimable
  BY <1>1, <1>3
<1> QED BY <1>1, <1>4, <1>5, <1>6

LEMMA PayoutSound ==
    ASSUME RInv, NEW n \in Nfts, NEW a, NEW interest \in Nat, AfterPayout(n, a, interest)
    PROVE  /\ fund' \in Nat /\ assetStake' \in [Nfts -> AssetStakes]
           /\ \A k \in Nfts : /\ HasStake(k)' => assetStake'[k].token \in Assets
                              /\ assetStake'[k].start <= block
<1>1. fund \in Nat /\ assetStake \in [Nfts -> AssetStakes] /\ block \in Nat
  BY DEF RInv, TypeOK
<1>2. CASE a \in programs
  <2>1. PICK claim \in Nat, start \in {0, assetStake[n].start} : Claim(n, claim, start)
    BY <1>2, ReleaseClaims DEF AfterPayout
  <2>0. PICK payable \in Nat : Settles(n, claim, start, payable)
    BY <2>1, ClaimSettles
  <2>2. /\ fund' = fund - payable /\ payable <= fund
        /\ assetStake' = [assetStake EXCEPT ![n] =
              [@ EXCEPT !.start = start, !.claimable = IF payable > 0 THEN 0 ELSE claim]]
    BY <2>0 DEF Settles
  <2>3. start \in Nat /\ start <= block
    BY <1>1, <2>1 DEF AssetStakes, RInv, StakesSound
  <2>4. fund' \in Nat
    BY <1>1, <2>2
  <2>5. [assetStake[n] EXCEPT !.start = start, !.claimable = IF payable > 0 THEN 0 ELSE claim] \in AssetStakes
    BY <1>1, <2>3 DEF AssetStakes
  <2>6. assetStake' \in [Nfts -> AssetStakes]
    BY <1>1, <2>2, <2>5
  <2>7. /\ assetStake'[n].manager = assetStake[n].manager /\ assetStake'[n].token = assetStake[n].token
        /\ assetStake'[n].start = start
        /\ \A k \in Nfts : k # n => assetStake'[k] = assetStake[k]
    BY <1>1, <2>2 DEF AssetStakes
  <2> QED BY <2>3, <2>4, <2>6, <2>7 DEF HasStake, RInv, StakesSound
<1>3. CASE a \notin programs
  BY <1>1, <1>3 DEF AfterPayout, HasStake, RInv, StakesSound
<1> QED BY <1>2, <1>3

(* The principal of one wallet is set to a number.                            *)
LEMMA PrincipalTyped ==
    ASSUME TypeOK, NEW n, NEW m, NEW a, NEW amount \in Nat, SetPrincipal(n, m, a, amount)
    PROVE  principal' \in [Nfts -> [Managers -> [Assets -> Nat]]]
BY DEF TypeOK, SetPrincipal

LEMMA PayoutKeepsSound ==
    ASSUME RInv, SInv', NEW n \in Nfts, NEW m, NEW a, NEW interest \in Nat,
           UNCHANGED principal \/ \E amount \in Nat : SetPrincipal(n, m, a, amount),
           AfterPayout(n, a, interest)
    PROVE  RInv'
<1>1. principal' \in [Nfts -> [Managers -> [Assets -> Nat]]]
  BY PrincipalTyped DEF RInv, TypeOK
<1>2. UNCHANGED <<block, programs, bonded, nftStake, multiplierSet, untold>>
  BY DEF AfterPayout
<1> QED BY <1>1, <1>2, PayoutSound DEF RInv, TypeOK, StakesSound

LEMMA AssetStepSound == RInv /\ AssetStep /\ SInv' => RInv'
<1> SUFFICES ASSUME RInv, SInv', NEW n \in Nfts, NEW m \in Managers, NEW a \in Assets,
      \/ RegisterExistingDeposits(n, m, a)
      \/ RefreshPrincipal(n, m, a)
      \/ \E amount \in Amounts : EnergizeParticle(n, m, a, amount)
      \/ \E interest \in Interests \cup {0} :
           \/ Discharge(n, m, a, interest)
           \/ ReleaseParticle(n, m, a, interest)
           \/ \E amount \in Amounts : ReleaseParticleAmount(n, m, a, amount, interest)
      PROVE RInv'
  BY DEF AssetStep
<1>0. /\ block \in Nat /\ assetStake \in [Nfts -> AssetStakes] /\ m # NoManager
      /\ principal[n][m][a] \in Nat /\ Interests \cup {0} \subseteq Nat /\ Amounts \subseteq Nat
      /\ MaxPrincipal[m] \in Nat
  BY RewardAssumption DEF RInv, TypeOK
<1>1. CASE RegisterExistingDeposits(n, m, a)
  <2>1. assetStake' = [assetStake EXCEPT ![n] = [start |-> block, claimable |-> 0, manager |-> m, token |-> a]]
        /\ UNCHANGED <<block, programs, principal, bonded, nftStake, multiplierSet, fund, untold>>
    BY <1>1 DEF RegisterExistingDeposits, wallets
  <2>2. assetStake' \in [Nfts -> AssetStakes]
    BY <1>0, <2>1 DEF AssetStakes
  <2> QED BY <1>0, <2>1, <2>2 DEF RInv, TypeOK, StakesSound, HasStake
<1>2. CASE RefreshPrincipal(n, m, a)
  <2>1. PICK amount \in 0 .. MaxPrincipal[m] : SetPrincipal(n, m, a, amount)
    BY <1>2 DEF RefreshPrincipal
  <2>2. principal' \in [Nfts -> [Managers -> [Assets -> Nat]]]
    BY <1>0, <2>1, PrincipalTyped DEF RInv
  <2> QED BY <1>2, <2>2 DEF RefreshPrincipal, RInv, TypeOK, StakesSound, HasStake
<1>3. ASSUME NEW amount \in Amounts, EnergizeParticle(n, m, a, amount) PROVE RInv'
  <2>1. principal' \in [Nfts -> [Managers -> [Assets -> Nat]]]
    BY <1>0, <1>3, PrincipalTyped DEF RInv, EnergizeParticle
  <2>2. UNCHANGED <<block, programs, bonded, nftStake, multiplierSet, fund, untold>>
    BY <1>3 DEF EnergizeParticle
  <2>3. CASE a \in programs /\ assetStake[n].start = 0
    <3>1. assetStake' = [assetStake EXCEPT ![n] = [@ EXCEPT !.start = block, !.manager = m, !.token = a]]
      BY <1>3, <2>3 DEF EnergizeParticle, RegisterAssetDeposit
    <3>2. assetStake' \in [Nfts -> AssetStakes]
      BY <1>0, <3>1 DEF AssetStakes
    <3>3. assetStake'[n].token = a /\ assetStake'[n].start = block
          /\ \A k \in Nfts : k # n => assetStake'[k] = assetStake[k]
      BY <1>0, <3>1 DEF AssetStakes
    <3>4. TypeOK'
      BY <2>1, <2>2, <3>2 DEF RInv, TypeOK
    <3>5. StakesSound'
      BY <1>0, <2>2, <3>3 DEF RInv, StakesSound, HasStake, MultiplierValues
    <3> QED BY <3>4, <3>5 DEF RInv
  <2>4. CASE a \notin programs \/ assetStake[n].start # 0
    <3>1. assetStake' = assetStake
      BY <1>0, <1>3, <2>4 DEF EnergizeParticle, RegisterAssetDeposit
    <3> QED BY <2>1, <2>2, <3>1 DEF RInv, TypeOK, StakesSound, HasStake
  <2> QED BY <2>3, <2>4
<1>4. ASSUME NEW interest \in Interests \cup {0}, Discharge(n, m, a, interest) PROVE RInv'
  BY <1>0, <1>4, PayoutKeepsSound DEF Discharge
<1>5. ASSUME NEW interest \in Interests \cup {0}, ReleaseParticle(n, m, a, interest) PROVE RInv'
  BY <1>0, <1>5, PayoutKeepsSound DEF ReleaseParticle
<1>6. ASSUME NEW interest \in Interests \cup {0}, NEW amount \in Amounts,
             ReleaseParticleAmount(n, m, a, amount, interest)
      PROVE RInv'
  <2>1. amount \in Nat /\ principal[n][m][a] - amount \in Nat
    BY <1>0, <1>6 DEF ReleaseParticleAmount
  <2> QED BY <1>0, <1>6, <2>1, PayoutKeepsSound DEF ReleaseParticleAmount
<1> QED BY <1>1, <1>2, <1>3, <1>4, <1>5, <1>6

LEMMA NftStepSound == RInv /\ NftStep /\ SInv' => RInv'
<1> SUFFICES ASSUME RInv, SInv', NEW n \in Nfts, NEW lepton \in Leptons,
                    CovalentBond(n, lepton) \/ BreakCovalentBond(n, lepton)
             PROVE RInv'
  BY DEF NftStep
<1> DEFINE v == MultiplierOf[lepton]
<1>0. /\ block \in Nat \ {0} /\ nftStake \in [Nfts -> NftStakes] /\ bonded \in [Nfts -> SUBSET Leptons]
      /\ multiplierSet \in [Nfts -> SUBSET Nat] /\ untold \in [Nfts -> SUBSET Leptons]
      /\ v \in Nat /\ (v > 0 => v \in MultiplierValues)
  BY RewardAssumption DEF RInv, SInv, Shape, TypeOK, MultiplierValues
<1>1. ASSUME NEW values, IsFiniteSet(values), values \subseteq MultiplierValues,
             multiplierSet' = [multiplierSet EXCEPT ![n] = values],
             NEW stake \in NftStakes, nftStake' = [nftStake EXCEPT ![n] = stake],
             stake.deposited <= block, stake.released <= block,
             stake.released > 0 => stake.deposited <= stake.released,
             UNCHANGED <<block, programs, principal, assetStake, fund>>,
             bonded' \in [Nfts -> SUBSET Leptons], untold' \in [Nfts -> SUBSET Leptons]
      PROVE  RInv'
  <2>1. multiplierSet' \in [Nfts -> SUBSET Nat] /\ nftStake' \in [Nfts -> NftStakes]
    BY <1>0, <1>1, ValuesAreNumbers
  <2> QED BY <1>0, <1>1, <2>1 DEF RInv, TypeOK, StakesSound, HasStake
<1>2. ASSUME UNCHANGED <<multiplierSet, nftStake, block, programs, principal, assetStake, fund>>,
             bonded' \in [Nfts -> SUBSET Leptons], untold' \in [Nfts -> SUBSET Leptons]
      PROVE  RInv'
  BY <1>2 DEF RInv, TypeOK, StakesSound, HasStake
<1>3. CASE CovalentBond(n, lepton)
  <2>1. bonded' \in [Nfts -> SUBSET Leptons] /\ untold' \in [Nfts -> SUBSET Leptons]
        /\ UNCHANGED <<block, programs, principal, assetStake, fund>>
    BY <1>0, <1>3 DEF CovalentBond
  <2>2. CASE MultiplierNft \in programs /\ v > 0 /\ v \notin multiplierSet[n]
    <3> DEFINE values == multiplierSet[n] \cup {v}
               stake == [multiplier |-> TotalMultiplier(values), deposited |-> block, released |-> 0]
    <3>1. multiplierSet' = [multiplierSet EXCEPT ![n] = values] /\ nftStake' = [nftStake EXCEPT ![n] = stake]
      BY <1>3, <2>2 DEF CovalentBond, RegisterNftDeposit
    <3>2. IsFiniteSet(values) /\ values \subseteq MultiplierValues
      BY <1>0, <2>2, FS_AddElement DEF RInv, StakesSound
    <3>3. TotalMultiplier(values) \in Nat
      BY <3>2, ValuesAreNumbers, TotalIsNumber
    <3>4. stake \in NftStakes /\ stake.deposited <= block /\ stake.released <= block /\ ~(stake.released > 0)
      BY <1>0, <3>3 DEF NftStakes
    <3> HIDE DEF values, stake
    <3> QED BY <1>1, <2>1, <3>1, <3>2, <3>4
  <2>3. CASE ~(MultiplierNft \in programs /\ v > 0 /\ v \notin multiplierSet[n])
    <3>1. UNCHANGED <<multiplierSet, nftStake>>
      BY <1>3, <2>3 DEF CovalentBond, RegisterNftDeposit
    <3> QED BY <1>2, <2>1, <3>1
  <2> QED BY <2>2, <2>3
<1>4. CASE BreakCovalentBond(n, lepton)
  <2>1. bonded' \in [Nfts -> SUBSET Leptons] /\ untold' \in [Nfts -> SUBSET Leptons]
        /\ UNCHANGED <<block, programs, principal, assetStake, fund>>
    BY <1>0, <1>4 DEF BreakCovalentBond
  <2>2. CASE MultiplierNft \in programs
    <3> DEFINE values == multiplierSet[n] \ {v}
               stake == IF values # {} THEN [nftStake[n] EXCEPT !.multiplier = TotalMultiplier(values)]
                                       ELSE [nftStake[n] EXCEPT !.released = block]
    <3>1. multiplierSet' = [multiplierSet EXCEPT ![n] = values] /\ nftStake' = [nftStake EXCEPT ![n] = stake]
      BY <1>4, <2>2 DEF BreakCovalentBond, RegisterNftRelease
    <3>2. IsFiniteSet(values) /\ values \subseteq MultiplierValues
      BY FS_Subset DEF RInv, StakesSound
    <3>3. TotalMultiplier(values) \in Nat
      BY <3>2, ValuesAreNumbers, TotalIsNumber
    <3> HIDE DEF values
    <3>4. nftStake[n] \in NftStakes /\ nftStake[n].deposited <= block /\ nftStake[n].released <= block
          /\ (nftStake[n].released > 0 => nftStake[n].deposited <= nftStake[n].released)
      BY <1>0 DEF RInv, StakesSound
    <3>5. stake \in NftStakes /\ stake.deposited <= block /\ stake.released <= block
          /\ (stake.released > 0 => stake.deposited <= stake.released)
      BY <1>0, <3>3, <3>4 DEF NftStakes
    <3> HIDE DEF stake
    <3> QED BY <1>1, <2>1, <3>1, <3>2, <3>5
  <2>3. CASE MultiplierNft \notin programs
    <3>1. UNCHANGED <<multiplierSet, nftStake>>
      BY <1>4, <2>3 DEF BreakCovalentBond
    <3> QED BY <1>2, <2>1, <3>1
  <2> QED BY <2>2, <2>3
<1> QED BY <1>3, <1>4

LEMMA OtherStepsSound == RInv /\ (OwnerStep \/ NextBlock \/ UNCHANGED vars) /\ SInv' => RInv'
<1> SUFFICES ASSUME RInv, SInv', OwnerStep \/ NextBlock \/ UNCHANGED vars PROVE RInv'
  OBVIOUS
<1>1. /\ UNCHANGED <<principal, bonded, assetStake, nftStake, multiplierSet, untold>>
      /\ programs' \subseteq Assets \cup {MultiplierNft}
      /\ fund' \in Nat /\ block' \in Nat /\ block' >= block
  BY RewardAssumption DEF OwnerStep, SetRewardProgram, RemoveRewardProgram, SetPrograms, FundProgram, NextBlock,
       vars, wallets, RInv, TypeOK
<1>2. TypeOK'
  BY <1>1 DEF RInv, TypeOK
<1>3. StakesSound'
  <2> SUFFICES ASSUME NEW n \in Nfts
               PROVE  /\ HasStake(n) => assetStake[n].token \in Assets
                      /\ assetStake[n].start <= block'
                      /\ multiplierSet[n] \subseteq MultiplierValues /\ IsFiniteSet(multiplierSet[n])
                      /\ nftStake[n].deposited <= block' /\ nftStake[n].released <= block'
                      /\ nftStake[n].released > 0 => nftStake[n].deposited <= nftStake[n].released
    BY <1>1 DEF StakesSound, HasStake, MultiplierValues
  <2>1. block \in Nat /\ assetStake[n].start \in Nat /\ nftStake[n].deposited \in Nat /\ nftStake[n].released \in Nat
    BY DEF RInv, TypeOK, AssetStakes, NftStakes
  <2> QED BY <1>1, <2>1 DEF RInv, StakesSound
<1> QED BY <1>2, <1>3 DEF RInv

LEMMA RNext == RInv /\ [Next]_vars => RInv'
BY SNext, AssetStepSound, NftStepSound, OtherStepsSound DEF Next, RInv

LEMMA RInvariant == Spec => []RInv
<1> QED BY RInit, RNext, PTL DEF Spec

(* No subtraction of the reckoning, the claims or the principals goes below   *)
(* zero, for any multipliers, units and amounts.                              *)
(* (RewardProgram.sol, SafeMath)                                              *)
THEOREM RewardTypeCorrect == Spec => []TypeOK
<1>1. RInv => TypeOK
  BY DEF RInv
<1> QED BY <1>1, RInvariant, PTL

--------------------------------------------------------------------------------
(* Rewards that wait are settled.                                             *)

LEMMA PayoutSettles ==
    ASSUME RInv, NEW n \in Nfts, NEW a, NEW interest \in Nat, AfterPayout(n, a, interest)
    PROVE  Settled
<1>1. fund \in Nat /\ assetStake \in [Nfts -> AssetStakes]
  BY DEF RInv, TypeOK
<1>2. \A k \in Nfts : assetStake[k].claimable \in Nat
  BY <1>1 DEF AssetStakes
<1>3. CASE a \in programs
  <2>1. PICK claim \in Nat, start \in {0, assetStake[n].start} :
            claim >= assetStake[n].claimable /\ Claim(n, claim, start)
    BY <1>3, ReleaseClaims DEF AfterPayout
  <2>2. PICK payable \in Nat : Settles(n, claim, start, payable)
    BY <2>1, ClaimSettles
  <2>3. /\ assetStake'[n].claimable = IF payable > 0 THEN 0 ELSE claim
        /\ \A k \in Nfts : k # n => assetStake'[k] = assetStake[k]
    BY <1>1, <2>2 DEF Settles, AssetStakes
  <2>4. fund' = fund - payable /\ payable <= fund /\ (payable = fund \/ payable = claim)
    BY <2>2 DEF Settles
  <2>5. ASSUME NEW k \in Nfts, assetStake[k].claimable - assetStake'[k].claimable > 0
        PROVE  fund > fund' /\ (fund' = 0 \/ fund - fund' >= assetStake[k].claimable - assetStake'[k].claimable)
    <3>1. k = n /\ payable > 0 /\ assetStake'[n].claimable = 0
      BY <1>2, <2>1, <2>3, <2>5
    <3> QED BY <1>1, <1>2, <2>1, <2>4, <3>1
  <2> QED BY <2>5 DEF Settled
<1>4. CASE a \notin programs
  BY <1>2, <1>4 DEF AfterPayout, Settled
<1> QED BY <1>3, <1>4

(* A step that takes nothing off what waits settles trivially.                *)
LEMMA NothingDropped ==
    ASSUME RInv, \A n \in Nfts : assetStake'[n].claimable = assetStake[n].claimable
    PROVE  Settled
<1>1. \A n \in Nfts : assetStake[n].claimable \in Nat
  BY DEF RInv, TypeOK, AssetStakes
<1> QED BY <1>1 DEF Settled

LEMMA StepSettles == RInv /\ [Next]_vars => [Settled]_vars
<1> SUFFICES ASSUME RInv, Next PROVE Settled
  OBVIOUS
<1>0. Interests \cup {0} \subseteq Nat /\ assetStake \in [Nfts -> AssetStakes]
  BY RewardAssumption DEF RInv, TypeOK
<1>1. ASSUME NEW n \in Nfts, NEW m, NEW a,
      \/ RegisterExistingDeposits(n, m, a)
      \/ RefreshPrincipal(n, m, a)
      \/ \E amount \in Amounts : EnergizeParticle(n, m, a, amount)
      PROVE Settled
  <2>1. CASE RegisterExistingDeposits(n, m, a)
    <3>1. assetStake[n].claimable = 0
          /\ assetStake' = [assetStake EXCEPT ![n] = [start |-> block, claimable |-> 0, manager |-> m, token |-> a]]
      BY <2>1 DEF RegisterExistingDeposits, CanRegisterExisting
    <3> QED BY <1>0, <3>1, NothingDropped
  <2>2. CASE RefreshPrincipal(n, m, a)
    BY <2>2, NothingDropped DEF RefreshPrincipal
  <2>3. ASSUME NEW amount \in Amounts, EnergizeParticle(n, m, a, amount) PROVE Settled
    <3>1. CASE a \in programs /\ assetStake[n].start = 0
      <4>1. assetStake' = [assetStake EXCEPT ![n] = [@ EXCEPT !.start = block, !.manager = m, !.token = a]]
        BY <2>3, <3>1 DEF EnergizeParticle, RegisterAssetDeposit
      <4> QED BY <1>0, <4>1, NothingDropped DEF AssetStakes
    <3>2. CASE a \notin programs \/ assetStake[n].start # 0
      <4>1. assetStake' = assetStake
        BY <1>0, <2>3, <3>2 DEF EnergizeParticle, RegisterAssetDeposit
      <4> QED BY <4>1, NothingDropped
    <3> QED BY <3>1, <3>2
  <2> QED BY <1>1, <2>1, <2>2, <2>3
<1>2. ASSUME NEW n \in Nfts, NEW m, NEW a, NEW interest \in Interests \cup {0},
      \/ Discharge(n, m, a, interest)
      \/ ReleaseParticle(n, m, a, interest)
      \/ \E amount \in Amounts : ReleaseParticleAmount(n, m, a, amount, interest)
      PROVE Settled
  BY <1>0, <1>2, PayoutSettles DEF Discharge, ReleaseParticle, ReleaseParticleAmount
<1>3. CASE NftStep \/ OwnerStep \/ NextBlock
  <2>1. UNCHANGED assetStake
    BY <1>3 DEF NftStep, CovalentBond, BreakCovalentBond, OwnerStep, SetRewardProgram, RemoveRewardProgram,
                SetPrograms, FundProgram, NextBlock
  <2> QED BY <2>1, NothingDropped
<1> QED BY <1>1, <1>2, <1>3 DEF Next, AssetStep

(* Rewards that wait are only dropped when they are paid in full, or with     *)
(* everything the fund has, for all amounts.  (RewardProgram.sol:339)         *)
THEOREM RewardsSettle == Spec => RewardsAreSettled
<1> QED BY StepSettles, RInvariant, PTL DEF Spec, RewardsAreSettled

--------------------------------------------------------------------------------
(* Multipliers that are in scale only add.                                    *)

LEMMA TwoOf ==
    ASSUME NEW S, IsFiniteSet(S), Cardinality(S) > 1
    PROVE  \E x, y \in S : x # y
<1>1. PICK x \in S : TRUE
  BY FS_EmptySet
<1>2. IsFiniteSet(S \ {x}) /\ Cardinality(S \ {x}) = Cardinality(S) - 1 /\ Cardinality(S) \in Nat
  BY <1>1, FS_RemoveElement, FS_CardinalityType
<1>3. S \ {x} # {}
  BY <1>2, FS_EmptySet
<1> QED BY <1>1, <1>3

LEMMA TotalsInScale ==
    ASSUME MultipliersInScale, NEW values, values \subseteq MultiplierValues, values # {}
    PROVE  TotalMultiplier(values) \in 100 .. 1000
<1> DEFINE kept == IF Cardinality(values) > 4 THEN values \ {Min(values)} ELSE values
<1>1. MultiplierValues \subseteq 100 .. 1000 /\ SumSet(MultiplierValues) <= 2000
  BY DEF MultipliersInScale, LEPTON_MULTIPLIER_SCALE
<1>2. IsFiniteSet(MultiplierValues)
  <2> DEFINE low == 100
             high == 1000
  <2>1. low \in Int /\ high \in Int /\ MultiplierValues \subseteq low .. high
    BY <1>1
  <2> HIDE DEF low, high
  <2>2. IsFiniteSet(low .. high)
    BY <2>1, FS_Interval
  <2> QED BY <2>1, <2>2, FS_Subset
<1>3. IsFiniteSet(values) /\ IsFiniteSet(kept) /\ kept \subseteq values
  BY <1>2, FS_Subset
<1>4. (\A v \in MultiplierValues : v \in Nat /\ v >= 100 /\ v <= 1000) /\ (\A v \in kept : v \in Nat /\ v >= 100)
  BY <1>1, <1>3
<1>5. SumSet(kept) \in Nat /\ SumSet(kept) <= 2000
  <2>1. SumSet(kept) <= SumSet(MultiplierValues) /\ SumSet(kept) \in Nat /\ SumSet(MultiplierValues) \in Nat
    BY <1>2, <1>3, <1>4, SumSetBounds
  <2> QED BY <1>1, <2>1
<1>6. CASE Cardinality(values) = 6
  BY <1>6 DEF TotalMultiplier, LEPTON_MULTIPLIER_SCALE
<1>7. CASE Cardinality(values) > 1 /\ Cardinality(values) # 6
  <2>1. Cardinality(kept) > 1
    <3>1. CASE Cardinality(values) > 4
      <4>1. Cardinality(values \ {Min(values)}) \in {Cardinality(values) - 1, Cardinality(values)}
        BY <1>3, FS_RemoveElement
      <4> QED BY <1>3, <3>1, <4>1, FS_CardinalityType
    <3>2. CASE ~(Cardinality(values) > 4)
      BY <1>7, <3>2
    <3> QED BY <3>1, <3>2
  <2>2. PICK x, y \in kept : x # y
    BY <1>3, <2>1, TwoOf
  <2>3. x + y <= SumSet(kept)
    BY <1>3, <1>4, <2>2, SumSetBounds
  <2>4. TotalMultiplier(values) = SumSet(kept) \div 2
    BY <1>7 DEF TotalMultiplier
  <2> HIDE DEF kept
  <2>5. x \in Nat /\ y \in Nat /\ x >= 100 /\ y >= 100
    BY <1>4, <2>2
  <2> QED BY <1>5, <2>3, <2>4, <2>5
<1>8. CASE ~(Cardinality(values) > 1)
  <2>1. Cardinality(values) = 1
    BY <1>3, <1>8, FS_EmptySet, FS_CardinalityType
  <2>2. PICK v : values = {v}
    BY <1>3, <2>1, FS_Singleton
  <2>3. kept = {v} /\ v \in MultiplierValues
    BY <2>1, <2>2
  <2>5. TotalMultiplier(values) = SumSet(kept)
    BY <2>1 DEF TotalMultiplier
  <2> HIDE DEF kept
  <2>4. SumSet(kept) = v
    BY <1>3, <1>4, <2>3, SumSetBounds
  <2> QED BY <1>4, <2>3, <2>4, <2>5
<1> QED BY <1>6, <1>7, <1>8

InScale == \A n \in Nfts : nftStake[n].multiplier \in {0} \cup 100 .. 1000

LEMMA ScaleNext ==
    ASSUME MultipliersInScale, RInv, InScale, [Next]_vars
    PROVE  InScale'
<1>0. nftStake \in [Nfts -> NftStakes] /\ multiplierSet \in [Nfts -> SUBSET Nat]
  BY DEF RInv, TypeOK
<1>1. ASSUME NEW n \in Nfts, NEW lepton \in Leptons, CovalentBond(n, lepton) PROVE InScale'
  <2> DEFINE v == MultiplierOf[lepton]
             values == multiplierSet[n] \cup {v}
  <2>1. CASE MultiplierNft \in programs /\ v > 0 /\ v \notin multiplierSet[n]
    <3>1. values \subseteq MultiplierValues /\ values # {}
      BY <2>1, RewardAssumption DEF RInv, StakesSound, MultiplierValues
    <3>2. TotalMultiplier(values) \in 100 .. 1000
      BY <3>1, TotalsInScale
    <3>3. nftStake' = [nftStake EXCEPT ![n] =
             [multiplier |-> TotalMultiplier(values), deposited |-> block, released |-> 0]]
      BY <1>1, <2>1 DEF CovalentBond, RegisterNftDeposit
    <3> HIDE DEF values
    <3> QED BY <1>0, <3>2, <3>3 DEF InScale
  <2>2. CASE ~(MultiplierNft \in programs /\ v > 0 /\ v \notin multiplierSet[n])
    <3>1. UNCHANGED nftStake
      BY <1>1, <2>2 DEF CovalentBond, RegisterNftDeposit
    <3> QED BY <3>1 DEF InScale
  <2> QED BY <2>1, <2>2
<1>2. ASSUME NEW n \in Nfts, NEW lepton \in Leptons, BreakCovalentBond(n, lepton) PROVE InScale'
  <2> DEFINE values == multiplierSet[n] \ {MultiplierOf[lepton]}
  <2>1. CASE MultiplierNft \in programs /\ values # {}
    <3>1. TotalMultiplier(values) \in 100 .. 1000
      BY <2>1, TotalsInScale DEF RInv, StakesSound
    <3>2. nftStake' = [nftStake EXCEPT ![n] = [@ EXCEPT !.multiplier = TotalMultiplier(values)]]
      BY <1>2, <2>1 DEF BreakCovalentBond, RegisterNftRelease
    <3> HIDE DEF values
    <3> QED BY <1>0, <3>1, <3>2 DEF InScale, NftStakes
  <2>2. CASE MultiplierNft \in programs /\ values = {}
    <3>1. nftStake' = [nftStake EXCEPT ![n] = [@ EXCEPT !.released = block]]
      BY <1>2, <2>2 DEF BreakCovalentBond, RegisterNftRelease
    <3> QED BY <1>0, <3>1 DEF InScale, NftStakes
  <2>3. CASE MultiplierNft \notin programs
    BY <1>2, <2>3 DEF BreakCovalentBond, InScale
  <2> QED BY <2>1, <2>2, <2>3
<1>3. CASE AssetStep \/ OwnerStep \/ NextBlock \/ UNCHANGED vars
  <2>1. UNCHANGED nftStake
    BY <1>3 DEF AssetStep, RegisterExistingDeposits, RefreshPrincipal, EnergizeParticle, Discharge,
                ReleaseParticle, ReleaseParticleAmount, AfterPayout, OwnerStep, SetRewardProgram,
                RemoveRewardProgram, SetPrograms, FundProgram, NextBlock, vars
  <2> QED BY <2>1 DEF InScale
<1> QED BY <1>1, <1>2, <1>3 DEF Next, NftStep

(* With multipliers in scale, whatever is bonded and broken and whenever the  *)
(* program is removed: interest earns at least its base reward, and at most   *)
(* ten times as much.  (RewardProgram.sol:246 calculateMultipliedReward)      *)
THEOREM MultipliersAdd ==
    ASSUME MultipliersInScale
    PROVE  Spec => []MultipliersOnlyAdd
<1>1. Init => InScale
  BY DEF Init, InScale
<1>2. RInv /\ InScale /\ [Next]_vars => InScale'
  BY ScaleNext
<1>3. RInv /\ InScale => MultipliersOnlyAdd
  <2> SUFFICES ASSUME RInv, InScale, NEW n \in Nfts, NEW interest \in Interests
               PROVE  MultipliedReward(n, BaseReward(interest)) \in
                         BaseReward(interest) .. 10 * BaseReward(interest)
    BY DEF MultipliersOnlyAdd
  <2>1. BaseReward(interest) \in Nat
    BY BaseIsNumber, RewardAssumption
  <2>2. nftStake[n].multiplier \in {0} \cup 100 .. 1000
    BY DEF InScale
  <2>3. /\ MultipliedReward(n, BaseReward(interest)) \in Nat
        /\ BaseReward(interest) <= MultipliedReward(n, BaseReward(interest))
        /\ MultipliedReward(n, BaseReward(interest)) <= 10 * BaseReward(interest)
    BY <2>1, <2>2, RewardBounds
  <2> QED BY <2>1, <2>3
<1> QED BY <1>1, <1>2, <1>3, RInvariant, PTL DEF Spec
================================================================================
