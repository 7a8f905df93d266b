------------------------ MODULE ParticleEscrowProofs ------------------------
(***************************************************************************)
(* What holds of the money in particles for every set of particles,        *)
(* accounts, managers and manager ids, and for every amount.               *)
(***************************************************************************)
EXTENDS ParticleEscrow, ChargedManagersProofs, NumberLemmas

-----------------------------------------------------------------------------
(* The escrow uses the gate as ChargedState specifies it *)

\* A release that passes the gate is a withdrawal of ChargedState.
LEMMA PassReleaseIsHNext ==
  ASSUME NEW s \in Senders, NEW n \in Nfts, PassRelease(s, n)
  PROVE  HNext
BY EscrowAssumption DEF PassRelease, HNext, Next, WithdrawStep

\* A payment to a user comes with a release that passes the gate.
LEMMA UserStepPasses ==
  ASSUME UserStep
  PROVE  \E s \in Senders, n \in Nfts : PassRelease(s, n)
BY DEF UserStep, ReleaseParticle, ReleaseParticleAmount, WithdrawWalletRewards, ExecuteForWallet

\* Every step of the escrow is one of the gate, or leaves it alone.
LEMMA ENextIsHNext == [ENext]_evars => [HNext]_hvars
<1> SUFFICES ASSUME [ENext]_evars PROVE [HNext]_hvars
  OBVIOUS
<1>1. CASE UNCHANGED evars
  BY <1>1 DEF evars
<1>2. CASE ParticleStep
  BY <1>2 DEF ParticleStep, HNext, Next
<1>3. CASE ManagersStep
  BY <1>3, ManagersStepFrame
<1>4. CASE UserStep
  BY <1>4, UserStepPasses, PassReleaseIsHNext
<1>5. CASE DepositStep
  BY <1>5 DEF DepositStep, EnergizeParticle
<1>6. CASE OpenStep
  BY <1>6 DEF OpenStep, RefreshWalletPrincipal, SendToWallet, SpendAllowance
<1>7. CASE AdminStep
  BY <1>7 DEF AdminStep, SetDepositFee, WithdrawErc20, RescueERC20
<1>8. QED
  BY <1>1, <1>2, <1>3, <1>4, <1>5, <1>6, <1>7 DEF ENext

\* The escrow implements the history specification of the gate, so that all
\* that ChargedStateProofs proves of the gate holds of the whole
\* (ChargedParticles and ParticleSplitter call validateRelease).
THEOREM GateImplemented == ESpec => HSpec
<1>1. EInit => HInit
  BY DEF EInit
<1>2. QED
  BY <1>1, ENextIsHNext, PTL DEF ESpec, HSpec

-----------------------------------------------------------------------------
(* Backing *)

EInv == ManagersTypeOK /\ EscrowTypeOK /\ Backed

\* No wallet owes anything before the first deposit.
LEMMA EInitInv == EInit => EInv
<1> SUFFICES ASSUME EInit PROVE EInv
  OBVIOUS
<1>1. ManagersTypeOK
  BY ManagersInitType DEF EInit
<1>2. EscrowTypeOK
  BY EscrowAssumption DEF EInit, EscrowTypeOK, PerWallet, Nothing
<1>3. Backed
  BY DEF EInit, Backed, Nothing
<1>4. QED
  BY <1>1, <1>2, <1>3 DEF EInv

\* The fee is a natural number.
LEMMA FeeIsNat ==
  ASSUME EscrowTypeOK, NEW amount \in Nat
  PROVE  FeesForDeposit(amount) \in Nat
<1>1. amount * depositFee \in Nat
  BY DEF EscrowTypeOK
<1>2. \A x \in Nat, y \in Nat \ {0} : x \div y \in Nat
  OBVIOUS
<1>3. QED
  BY <1>1, <1>2, EscrowAssumption DEF FeesForDeposit

\* A payment out of the principal keeps the books of every wallet typed and
\* backed: books and tokens go down together (withdraw, withdrawAmount).
LEMMA PaymentKeepsEInv ==
  ASSUME EInv, NEW m \in Managers, NEW n \in Nfts, NEW receiver \in Accounts, NEW amount \in Nat,
         amount <= principal[m][n], PayFromPrincipal(m, n, receiver, amount)
  PROVE  EInv'
<1> USE DEF EInv, EscrowTypeOK, PerWallet
<1>1. ManagersTypeOK'
  BY DEF PayFromPrincipal, ManagersTypeOK, managersVars, registryVars, ruleVars
<1>2. held[m][n] \in Nat /\ principal[m][n] \in Nat /\ cash[receiver] \in Nat
  OBVIOUS
<1>3. held[m][n] - amount \in Nat /\ principal[m][n] - amount \in Nat /\ cash[receiver] + amount \in Nat
  BY <1>2 DEF PayFromPrincipal
<1>4. held' \in PerWallet /\ principal' \in PerWallet /\ cash' \in [Accounts -> Nat]
  BY <1>3 DEF PayFromPrincipal
<1>5. EscrowTypeOK'
  BY <1>4 DEF PayFromPrincipal
<1>6. Backed'
  <2> SUFFICES ASSUME NEW w \in Managers, NEW p \in Nfts
               PROVE  held'[w][p] + drawn'[w][p] + rescued'[w][p] >= principal'[w][p]
    BY DEF Backed
  <2>1. held[w][p] + drawn[w][p] + rescued[w][p] >= principal[w][p]
    BY DEF Backed
  <2>2. /\ held[w][p] \in Nat /\ principal[w][p] \in Nat
        /\ drawn[w][p] \in Nat /\ rescued[w][p] \in Nat
        /\ drawn' = drawn /\ rescued' = rescued
    BY DEF PayFromPrincipal
  <2>3. CASE w = m /\ p = n
    <3>1. held'[w][p] = held[w][p] - amount /\ principal'[w][p] = principal[w][p] - amount
      BY <2>3 DEF PayFromPrincipal
    <3>2. QED
      BY <2>1, <2>2, <3>1
  <2>4. CASE ~(w = m /\ p = n)
    <3>1. held'[w][p] = held[w][p] /\ principal'[w][p] = principal[w][p]
      BY <2>4 DEF PayFromPrincipal
    <3>2. QED
      BY <2>1, <2>2, <3>1
  <2>5. QED
    BY <2>3, <2>4
<1>7. QED
  BY <1>1, <1>5, <1>6

\* What the splitter sends from a wallet, or an allowance takes, is remembered
\* as drawn.
LEMMA DrawKeepsEInv ==
  ASSUME EInv, NEW m \in Managers, NEW n \in Nfts, NEW receiver \in Accounts, NEW amount \in Nat,
         Draw(m, n, receiver, amount), wallets' \subseteq Managers \X Nfts,
         allowance' \in PerWallet
  PROVE  EInv'
<1> USE DEF EInv, EscrowTypeOK, PerWallet
<1>1. ManagersTypeOK'
  BY DEF Draw, ManagersTypeOK, managersVars, registryVars, ruleVars
<1>2. held[m][n] \in Nat /\ drawn[m][n] \in Nat /\ cash[receiver] \in Nat
  OBVIOUS
<1>3. held[m][n] - amount \in Nat /\ drawn[m][n] + amount \in Nat /\ cash[receiver] + amount \in Nat
  BY <1>2 DEF Draw
<1>4. held' \in PerWallet /\ drawn' \in PerWallet /\ cash' \in [Accounts -> Nat]
  BY <1>3 DEF Draw
<1>5. EscrowTypeOK'
  BY <1>4 DEF Draw
<1>6. Backed'
  <2> SUFFICES ASSUME NEW w \in Managers, NEW p \in Nfts
               PROVE  held'[w][p] + drawn'[w][p] + rescued'[w][p] >= principal'[w][p]
    BY DEF Backed
  <2>1. held[w][p] + drawn[w][p] + rescued[w][p] >= principal[w][p]
    BY DEF Backed
  <2>2. /\ held[w][p] \in Nat /\ principal[w][p] \in Nat
        /\ drawn[w][p] \in Nat /\ rescued[w][p] \in Nat
        /\ principal' = principal /\ rescued' = rescued
    BY DEF Draw
  <2>3. CASE w = m /\ p = n
    <3>1. held'[w][p] = held[w][p] - amount /\ drawn'[w][p] = drawn[w][p] + amount
      BY <2>3 DEF Draw
    <3>2. QED
      BY <2>1, <2>2, <3>1
  <2>4. CASE ~(w = m /\ p = n)
    <3>1. held'[w][p] = held[w][p] /\ drawn'[w][p] = drawn[w][p]
      BY <2>4 DEF Draw
    <3>2. QED
      BY <2>1, <2>2, <3>1
  <2>5. QED
    BY <2>3, <2>4
<1>7. QED
  BY <1>1, <1>5, <1>6

\* A deposit adds as much to the tokens as to the principal (energizeParticle).
LEMMA DepositKeepsEInv ==
  ASSUME EInv, NEW s \in Senders, NEW n \in Nfts, NEW id \in ManagerIds, NEW amount \in Nat,
         EnergizeParticle(s, n, id, amount)
  PROVE  EInv'
<1> USE DEF EInv, EscrowTypeOK, PerWallet
<1> DEFINE m == managerOf[id]
<1>0. m \in Managers
  BY EnabledManager DEF EnergizeParticle
<1>1. ManagersTypeOK'
  BY DEF EnergizeParticle, ManagersTypeOK, managersVars, registryVars, ruleVars
<1>a. FeesForDeposit(amount) \in Nat
  BY FeeIsNat
<1>b. /\ s \in Accounts
      /\ cash[s] >= amount + FeesForDeposit(amount)
      /\ cash' = [cash EXCEPT ![s] = @ - (amount + FeesForDeposit(amount))]
      /\ fees' = fees + FeesForDeposit(amount)
      /\ wallets' = wallets \cup {<<m, n>>}
      /\ held' = [held EXCEPT ![m][n] = @ + amount]
      /\ principal' = [principal EXCEPT ![m][n] = @ + amount]
      /\ depositFee' = depositFee /\ allowance' = allowance
      /\ drawn' = drawn /\ rescued' = rescued
  BY DEF EnergizeParticle
<1> HIDE DEF m
<1>2. held[m][n] + amount \in Nat /\ principal[m][n] + amount \in Nat
  BY <1>0
<1>3. held' \in PerWallet /\ principal' \in PerWallet
  BY <1>0, <1>2, <1>b
<1>4. cash' \in [Accounts -> Nat] /\ fees' \in Nat
  BY <1>a, <1>b
<1>5. EscrowTypeOK'
  BY <1>0, <1>3, <1>4, <1>b
<1>6. Backed'
  <2> SUFFICES ASSUME NEW w \in Managers, NEW p \in Nfts
               PROVE  held'[w][p] + drawn'[w][p] + rescued'[w][p] >= principal'[w][p]
    BY DEF Backed
  <2>1. held[w][p] + drawn[w][p] + rescued[w][p] >= principal[w][p]
    BY DEF Backed
  <2>2. /\ held[w][p] \in Nat /\ principal[w][p] \in Nat
        /\ drawn[w][p] \in Nat /\ rescued[w][p] \in Nat
    OBVIOUS
  <2>3. CASE w = m /\ p = n
    <3>1. held'[w][p] = held[w][p] + amount /\ principal'[w][p] = principal[w][p] + amount
      BY <2>3, <1>b
    <3>2. QED
      BY <2>1, <2>2, <3>1, <1>b
  <2>4. CASE ~(w = m /\ p = n)
    <3>1. held'[w][p] = held[w][p] /\ principal'[w][p] = principal[w][p]
      BY <2>4, <1>b
    <3>2. QED
      BY <2>1, <2>2, <3>1, <1>b
  <2>5. QED
    BY <2>3, <2>4
<1>7. QED
  BY <1>1, <1>5, <1>6

\* The operations of the users keep the wallets typed and backed.
LEMMA UserStepKeepsEInv == EInv /\ UserStep => EInv'
<1> SUFFICES ASSUME EInv, NEW s \in Senders, NEW n \in Nfts, NEW id \in ManagerIds,
                    NEW receiver \in Accounts,
                    \/ ReleaseParticle(s, receiver, n, id)
                    \/ \E amount \in AmountChoices : ReleaseParticleAmount(s, receiver, n, id, amount)
                    \/ \E amount \in SplitterChoices :
                          \/ WithdrawWalletRewards(s, receiver, n, id, amount)
                          \/ \E withEther \in BOOLEAN :
                                ExecuteForWallet(s, receiver, n, id, amount, withEther)
             PROVE  EInv'
  BY DEF UserStep
<1> DEFINE m == managerOf[id]
<1>0. m \in Managers
  BY EnabledManager DEF EInv, ReleaseParticle, ReleaseParticleAmount, WithdrawWalletRewards,
                        ExecuteForWallet
<1>a. principal[m][n] \in Nat /\ wallets \subseteq Managers \X Nfts
  BY <1>0 DEF EInv, EscrowTypeOK, PerWallet
<1>1. CASE ReleaseParticle(s, receiver, n, id)
  <2>1. PayFromPrincipal(m, n, receiver, principal[m][n])
    BY <1>1 DEF ReleaseParticle
  <2>2. QED
    BY <1>0, <1>a, <2>1, PaymentKeepsEInv
<1>2. ASSUME NEW amount \in AmountChoices, ReleaseParticleAmount(s, receiver, n, id, amount)
      PROVE  EInv'
  <2> DEFINE paid == IF principal[m][n] >= amount THEN amount ELSE principal[m][n]
  <2>1. PayFromPrincipal(m, n, receiver, paid)
    BY <1>2 DEF ReleaseParticleAmount
  <2>2. paid \in Nat /\ paid <= principal[m][n]
    BY <1>a, EscrowAssumption
  <2> HIDE DEF paid, m
  <2>3. QED
    BY <1>0, <2>1, <2>2, PaymentKeepsEInv
<1>3. ASSUME NEW amount \in SplitterChoices, WithdrawWalletRewards(s, receiver, n, id, amount)
      PROVE  EInv'
  <2>1. Draw(m, n, receiver, amount) /\ wallets' = wallets /\ allowance' = allowance
    BY <1>3 DEF WithdrawWalletRewards, SendFromWallet
  <2>2. allowance' \in PerWallet
    BY <2>1 DEF EInv, EscrowTypeOK
  <2>3. QED
    BY <1>0, <1>a, <2>1, <2>2, EscrowAssumption, DrawKeepsEInv
<1>4. ASSUME NEW amount \in SplitterChoices, NEW withEther \in BOOLEAN,
             ExecuteForWallet(s, receiver, n, id, amount, withEther)
      PROVE  EInv'
  <2>1. wallets' = wallets \cup {<<m, n>>}
    BY <1>4 DEF ExecuteForWallet
  <2>2. wallets' \subseteq Managers \X Nfts
    BY <1>0, <1>a, <2>1
  <2>3. CASE SendFromWallet(m, n, receiver, amount)
    <3>1. Draw(m, n, receiver, amount) /\ allowance' \in PerWallet
      BY <2>3 DEF SendFromWallet, EInv, EscrowTypeOK
    <3>2. QED
      BY <1>0, <2>2, <3>1, EscrowAssumption, DrawKeepsEInv
  <2>4. CASE ApproveFromWallet(m, n, amount)
    <3>1. /\ allowance' = [allowance EXCEPT ![m][n] = amount]
          /\ UNCHANGED <<managersVars, cash, fees, depositFee, held, principal, drawn, rescued>>
      BY <2>4 DEF ApproveFromWallet
    <3> HIDE DEF m
    <3>2. allowance' \in PerWallet
      BY <1>0, <3>1, EscrowAssumption DEF EInv, EscrowTypeOK, PerWallet
    <3>3. QED
      BY <2>2, <3>1, <3>2 DEF EInv, ManagersTypeOK, EscrowTypeOK, Backed, managersVars, registryVars,
                             ruleVars
  <2>5. QED
    BY <1>4, <2>3, <2>4 DEF ExecuteForWallet
<1>5. QED
  BY <1>1, <1>2, <1>3, <1>4

\* Refreshing the principal makes the books equal to the tokens, and whoever
\* sends tokens to a wallet only adds to them.
LEMMA OpenStepKeepsEInv == EInv /\ OpenStep => EInv'
<1> SUFFICES ASSUME EInv, OpenStep PROVE EInv'
  OBVIOUS
<1> USE DEF EInv, EscrowTypeOK, PerWallet
<1>1. ManagersTypeOK'
  <2>1. managersVars' = managersVars
    <3>1. \A n \in Nfts, id \in ManagerIds : RefreshWalletPrincipal(n, id) => managersVars' = managersVars
      BY DEF RefreshWalletPrincipal
    <3>2. \A a \in Accounts, m \in Managers, n \in Nfts, amount \in Nat :
             SendToWallet(a, m, n, amount) \/ SpendAllowance(m, n, a, amount)
             => managersVars' = managersVars
      BY DEF SendToWallet, SpendAllowance, Draw
    <3>3. QED
      BY <3>1, <3>2, EscrowAssumption DEF OpenStep
  <2>2. QED
    BY <2>1 DEF ManagersTypeOK, managersVars, registryVars, ruleVars
<1>2. ASSUME NEW n \in Nfts, NEW id \in ManagerIds, RefreshWalletPrincipal(n, id)
      PROVE  EscrowTypeOK' /\ Backed'
  <2> DEFINE m == managerOf[id]
  <2>0. m \in Managers
    BY <1>2, EnabledManager DEF RefreshWalletPrincipal
  <2>1. /\ principal' = [principal EXCEPT ![m][n] = held[m][n]]
        /\ drawn' = [drawn EXCEPT ![m][n] = 0]
        /\ rescued' = [rescued EXCEPT ![m][n] = 0]
        /\ UNCHANGED <<cash, fees, depositFee, wallets, held, allowance>>
    BY <1>2 DEF RefreshWalletPrincipal
  <2> HIDE DEF m
  <2>2. principal' \in PerWallet /\ drawn' \in PerWallet /\ rescued' \in PerWallet
    BY <2>0, <2>1
  <2>3. EscrowTypeOK'
    BY <2>1, <2>2
  <2>4. Backed'
    <3> SUFFICES ASSUME NEW w \in Managers, NEW p \in Nfts
                 PROVE  held'[w][p] + drawn'[w][p] + rescued'[w][p] >= principal'[w][p]
      BY DEF Backed
    <3>1. CASE w = m /\ p = n
      <4>1. held[w][p] \in Nat
        OBVIOUS
      <4>2. /\ principal'[w][p] = held[w][p] /\ drawn'[w][p] = 0 /\ rescued'[w][p] = 0
            /\ held'[w][p] = held[w][p]
        BY <2>1, <3>1
      <4>3. QED
        BY <4>1, <4>2
    <3>2. CASE ~(w = m /\ p = n)
      <4>1. /\ principal'[w][p] = principal[w][p] /\ drawn'[w][p] = drawn[w][p]
            /\ rescued'[w][p] = rescued[w][p] /\ held'[w][p] = held[w][p]
        BY <2>1, <3>2
      <4>2. QED
        BY <4>1 DEF Backed
    <3>3. QED
      BY <3>1, <3>2
  <2>5. QED
    BY <2>3, <2>4
<1>3. ASSUME NEW a \in Accounts, NEW m \in Managers, NEW n \in Nfts, NEW amount \in GiftChoices,
             SendToWallet(a, m, n, amount)
      PROVE  EscrowTypeOK' /\ Backed'
  <2>1. amount \in Nat /\ cash[a] - amount \in Nat /\ held[m][n] + amount \in Nat
    BY <1>3, EscrowAssumption DEF SendToWallet
  <2>2. cash' \in [Accounts -> Nat] /\ held' \in PerWallet
    BY <1>3, <2>1 DEF SendToWallet
  <2>3. EscrowTypeOK'
    BY <1>3, <2>2 DEF SendToWallet
  <2>4. ASSUME NEW w \in Managers, NEW p \in Nfts
        PROVE  held'[w][p] >= held[w][p]
    BY <1>3, <2>1 DEF SendToWallet
  <2>5. Backed'
    <3> SUFFICES ASSUME NEW w \in Managers, NEW p \in Nfts
                 PROVE  held'[w][p] + drawn'[w][p] + rescued'[w][p] >= principal'[w][p]
      BY DEF Backed
    <3>1. drawn' = drawn /\ rescued' = rescued /\ principal' = principal
      BY <1>3 DEF SendToWallet
    <3>2. /\ held[w][p] \in Nat /\ held'[w][p] \in Nat /\ principal[w][p] \in Nat
          /\ drawn[w][p] \in Nat /\ rescued[w][p] \in Nat
      BY <2>2
    <3>3. held[w][p] + drawn[w][p] + rescued[w][p] >= principal[w][p]
      BY DEF Backed
    <3>4. QED
      BY <2>4, <3>1, <3>2, <3>3
  <2>6. QED
    BY <2>3, <2>5
<1>4. ASSUME NEW a \in Accounts, NEW m \in Managers, NEW n \in Nfts, NEW amount \in SplitterChoices,
             SpendAllowance(m, n, a, amount)
      PROVE  EInv'
  <2>1. Draw(m, n, a, amount) /\ wallets' = wallets /\ amount \in Nat
    BY <1>4, EscrowAssumption DEF SpendAllowance
  <2>2. allowance[m][n] - amount \in Nat
    BY <1>4, <2>1 DEF SpendAllowance
  <2>3. allowance' \in PerWallet
    BY <1>4, <2>2 DEF SpendAllowance
  <2>4. QED
    BY <2>1, <2>3, DrawKeepsEInv
<1>5. QED
  BY <1>1, <1>2, <1>3, <1>4 DEF OpenStep

\* What the protocol's owner and the managers' owner do is accounted for.
LEMMA AdminStepKeepsEInv == EInv /\ AdminStep => EInv'
<1> SUFFICES ASSUME EInv, AdminStep PROVE EInv'
  OBVIOUS
<1> USE DEF EInv, EscrowTypeOK, PerWallet
<1>1. ManagersTypeOK'
  BY DEF AdminStep, SetDepositFee, WithdrawErc20, RescueERC20, ManagersTypeOK, managersVars,
         registryVars, ruleVars
<1>2. ASSUME NEW fee \in FeeChoices, SetDepositFee(fee)
      PROVE  EscrowTypeOK' /\ Backed'
  BY <1>2, EscrowAssumption DEF SetDepositFee, Backed
<1>3. ASSUME NEW receiver \in Accounts, NEW amount \in AmountChoices, WithdrawErc20(receiver, amount)
      PROVE  EscrowTypeOK' /\ Backed'
  BY <1>3, EscrowAssumption DEF WithdrawErc20, Backed
<1>4. ASSUME NEW m \in Managers, NEW n \in Nfts, NEW receiver \in Accounts,
             NEW amount \in RescueChoices, RescueERC20(m, n, receiver, amount)
      PROVE  EscrowTypeOK' /\ Backed'
  <2>0. amount \in Nat
    BY EscrowAssumption
  <2>1. /\ held[m][n] - amount \in Nat /\ rescued[m][n] + amount \in Nat
        /\ cash[receiver] + amount \in Nat
    BY <1>4, <2>0 DEF RescueERC20
  <2>2. held' \in PerWallet /\ rescued' \in PerWallet /\ cash' \in [Accounts -> Nat]
    BY <1>4, <2>1 DEF RescueERC20
  <2>3. EscrowTypeOK'
    BY <1>4, <2>2 DEF RescueERC20
  <2>4. Backed'
    <3> SUFFICES ASSUME NEW w \in Managers, NEW p \in Nfts
                 PROVE  held'[w][p] + drawn'[w][p] + rescued'[w][p] >= principal'[w][p]
      BY DEF Backed
    <3>1. held[w][p] + drawn[w][p] + rescued[w][p] >= principal[w][p]
      BY DEF Backed
    <3>2. /\ held[w][p] \in Nat /\ principal[w][p] \in Nat
          /\ drawn[w][p] \in Nat /\ rescued[w][p] \in Nat
          /\ principal' = principal /\ drawn' = drawn
      BY <1>4 DEF RescueERC20
    <3>3. CASE w = m /\ p = n
      <4>1. held'[w][p] = held[w][p] - amount /\ rescued'[w][p] = rescued[w][p] + amount
        BY <1>4, <3>3 DEF RescueERC20
      <4>2. QED
        BY <2>0, <3>1, <3>2, <4>1
    <3>4. CASE ~(w = m /\ p = n)
      <4>1. held'[w][p] = held[w][p] /\ rescued'[w][p] = rescued[w][p]
        BY <1>4, <3>4 DEF RescueERC20
      <4>2. QED
        BY <3>1, <3>2, <4>1
    <3>5. QED
      BY <3>3, <3>4
  <2>5. QED
    BY <2>3, <2>4
<1>5. QED
  BY <1>1, <1>2, <1>3, <1>4 DEF AdminStep

\* Every step keeps the types and the backing.
LEMMA ENextInv == EInv /\ [ENext]_evars => EInv'
<1> SUFFICES ASSUME EInv, [ENext]_evars PROVE EInv'
  OBVIOUS
<1>1. CASE UNCHANGED <<managersVars, escrowVars>>
  BY <1>1 DEF EInv, ManagersTypeOK, EscrowTypeOK, Backed, managersVars, registryVars, ruleVars,
              escrowVars
<1>2. CASE ManagersStep /\ UNCHANGED escrowVars
  BY <1>2, ManagersStepType DEF EInv, EscrowTypeOK, Backed, escrowVars
<1>3. CASE DepositStep
  BY <1>3, DepositKeepsEInv, EscrowAssumption DEF DepositStep
<1>4. QED
  BY <1>1, <1>2, <1>3, UserStepKeepsEInv, OpenStepKeepsEInv, AdminStepKeepsEInv
     DEF ENext, evars, ParticleStep

\* No operation of the protocol leaves a wallet with less than the principal
\* it owes, except what its own particle's owner, or the managers' owner, took
\* out since the last refresh (deposit, withdraw, withdrawAmount,
\* withdrawRewards, refreshPrincipal).
THEOREM WalletsBacked == ESpec => []Backed
<1>1. EInv => Backed
  BY DEF EInv
<1>2. QED
  BY <1>1, EInitInv, ENextInv, PTL DEF ESpec

\* Registry, rules, cash and wallets keep their types.
THEOREM EscrowTypeCorrect == ESpec => [](ManagersTypeOK /\ EscrowTypeOK)
<1>1. EInv => ManagersTypeOK /\ EscrowTypeOK
  BY DEF EInv
<1>2. QED
  BY <1>1, EInitInv, ENextInv, PTL DEF ESpec

-----------------------------------------------------------------------------
(* Locks and pauses *)

\* A step that takes tokens from a wallet, and is neither the managers' owner's
\* nor covered by an allowance, or that gives an allowance, does so in one
\* wallet of an enabled manager, in a release that passes the gate.
Lets(m, n) ==
    \/ held'[m][n] < held[m][n] /\ ~TakenFromAllowance(m, n)
    \/ allowance'[m][n] > allowance[m][n]

LEMMA TakerPasses ==
  ASSUME EInv, [ENext]_evars, NEW m \in Managers, NEW n \in Nfts, Lets(m, n), rescued' = rescued
  PROVE  \E s \in Senders, id \in ManagerIds :
            /\ PassRelease(s, n)
            /\ managerOf[id] = m /\ IsManagerEnabled(id)
<1> USE DEF EInv, EscrowTypeOK, PerWallet
<1>0. held[m][n] \in Nat /\ allowance[m][n] \in Nat
  OBVIOUS
<1>1. ~(held'[m][n] = held[m][n] /\ allowance'[m][n] = allowance[m][n])
  BY <1>0 DEF Lets
<1>2. ~DepositStep
  <2> SUFFICES ASSUME NEW s \in Senders, NEW p \in Nfts, NEW id \in ManagerIds,
                      NEW amount \in AmountChoices, EnergizeParticle(s, p, id, amount)
               PROVE  FALSE
    BY DEF DepositStep
  <2> DEFINE w == managerOf[id]
  <2>1. held' = [held EXCEPT ![w][p] = @ + amount] /\ allowance' = allowance
    BY DEF EnergizeParticle
  <2>2. w \in Managers /\ amount \in Nat
    BY EnabledManager, EscrowAssumption DEF EnergizeParticle
  <2> HIDE DEF w
  <2>3. held'[m][n] = held[m][n] \/ held'[m][n] = held[m][n] + amount
    BY <2>1, <2>2
  <2>4. QED
    BY <1>0, <2>1, <2>2, <2>3 DEF Lets
<1>3. ~OpenStep
  <2>1. ASSUME NEW p \in Nfts, NEW id \in ManagerIds, RefreshWalletPrincipal(p, id)
        PROVE  FALSE
    BY <1>1, <2>1 DEF RefreshWalletPrincipal
  <2>2. ASSUME NEW a \in Accounts, NEW w \in Managers, NEW p \in Nfts, NEW amount \in GiftChoices,
               SendToWallet(a, w, p, amount)
        PROVE  FALSE
    <3>1. held'[m][n] = held[m][n] \/ held'[m][n] = held[m][n] + amount
      BY <2>2 DEF SendToWallet
    <3>2. allowance' = allowance
      BY <2>2 DEF SendToWallet
    <3>3. QED
      BY <1>0, <3>1, <3>2, EscrowAssumption DEF Lets
  <2>3. ASSUME NEW a \in Accounts, NEW w \in Managers, NEW p \in Nfts, NEW amount \in SplitterChoices,
               SpendAllowance(w, p, a, amount)
        PROVE  FALSE
    <3>1. /\ held' = [held EXCEPT ![w][p] = @ - amount]
          /\ allowance' = [allowance EXCEPT ![w][p] = @ - amount]
      BY <2>3 DEF SpendAllowance, Draw
    <3>2. CASE w = m /\ p = n
      <4>1. held'[m][n] = held[m][n] - amount /\ allowance'[m][n] = allowance[m][n] - amount
        BY <3>1, <3>2
      <4>2. amount \in Nat
        BY EscrowAssumption
      <4>3. TakenFromAllowance(m, n) /\ ~(allowance'[m][n] > allowance[m][n])
        BY <1>0, <4>1, <4>2 DEF TakenFromAllowance
      <4>4. QED
        BY <4>3 DEF Lets
    <3>3. CASE ~(w = m /\ p = n)
      BY <1>1, <3>1, <3>3
    <3>4. QED
      BY <3>2, <3>3
  <2>4. QED
    BY <2>1, <2>2, <2>3 DEF OpenStep
<1>4. ~AdminStep
  <2>1. ASSUME NEW w \in Managers, NEW p \in Nfts, NEW receiver \in Accounts,
               NEW amount \in RescueChoices, RescueERC20(w, p, receiver, amount)
        PROVE  FALSE
    <3>1. rescued[w][p] \in Nat /\ amount \in Nat
      BY EscrowAssumption
    <3>2. rescued'[w][p] = rescued[w][p] + amount
      BY <2>1 DEF RescueERC20
    <3>2a. rescued'[w][p] = rescued[w][p]
      BY <1>1
    <3>3. amount = 0
      BY <3>1, <3>2, <3>2a
    <3>4. held'[m][n] = held[m][n] \/ held'[m][n] = held[m][n] - amount
      BY <2>1 DEF RescueERC20
    <3>5. allowance' = allowance
      BY <2>1 DEF RescueERC20
    <3>6. QED
      BY <1>0, <1>1, <3>3, <3>4, <3>5
  <2>2. QED
    BY <1>1, <2>1 DEF AdminStep, SetDepositFee, WithdrawErc20
<1>5. PICK s \in Senders, p \in Nfts, id \in ManagerIds, receiver \in Accounts :
         \/ ReleaseParticle(s, receiver, p, id)
         \/ \E amount \in AmountChoices : ReleaseParticleAmount(s, receiver, p, id, amount)
         \/ \E amount \in SplitterChoices :
               \/ WithdrawWalletRewards(s, receiver, p, id, amount)
               \/ \E withEther \in BOOLEAN :
                     ExecuteForWallet(s, receiver, p, id, amount, withEther)
  BY <1>1, <1>2, <1>3, <1>4 DEF ENext, evars, escrowVars, ParticleStep, UserStep
<1>6. PassRelease(s, p) /\ IsManagerEnabled(id)
  BY <1>5 DEF ReleaseParticle, ReleaseParticleAmount, WithdrawWalletRewards, ExecuteForWallet
<1> DEFINE w == managerOf[id]
<1>7. \/ \E amount : held' = [held EXCEPT ![w][p] = @ - amount] /\ allowance' = allowance
      \/ \E amount : allowance' = [allowance EXCEPT ![w][p] = amount] /\ held' = held
  BY <1>5 DEF ReleaseParticle, ReleaseParticleAmount, WithdrawWalletRewards, ExecuteForWallet,
              PayFromPrincipal, SendFromWallet, ApproveFromWallet, Draw
<1>8. w = m /\ p = n
  <2> HIDE DEF w
  <2> SUFFICES ASSUME ~(w = m /\ p = n) PROVE FALSE
    OBVIOUS
  <2>1. held'[m][n] = held[m][n] /\ allowance'[m][n] = allowance[m][n]
    <3>1. CASE \E amount : held' = [held EXCEPT ![w][p] = @ - amount] /\ allowance' = allowance
      BY <3>1
    <3>2. CASE \E amount : allowance' = [allowance EXCEPT ![w][p] = amount] /\ held' = held
      BY <3>2
    <3>3. QED
      BY <1>7, <3>1, <3>2
  <2>2. QED
    BY <1>1, <2>1
<1>9. QED
  BY <1>6, <1>8

\* Locked money stays: whoever asks, through whichever contract and manager,
\* no tokens leave a particle's wallets while a release timelock on it runs,
\* but those that somebody had an allowance for when the lock was set.
THEOREM FundsStayLocked == ESpec => LockedFundsStay
<1>1. HIInv /\ EInv /\ [ENext]_evars => LeavesUnlocked
  <2> SUFFICES ASSUME HIInv, EInv, [ENext]_evars, NEW m \in Managers, NEW n \in Nfts,
                      Lets(m, n), rescued' = rescued
               PROVE  /\ commitments["release"][n] = {}
                      /\ lastTx'.event = "withdraw" /\ lastTx'.kind = "release" /\ lastTx'.nft = n
    BY DEF LeavesUnlocked, Lets
  <2>1. PICK s \in Senders : PassRelease(s, n)
    BY TakerPasses
  <2>2. commitments["release"][n] = {}
    BY <2>1, GatePassedUnlocked, EscrowAssumption DEF PassRelease, Withdraw
  <2>3. lastTx'.event = "withdraw" /\ lastTx'.kind = "release" /\ lastTx'.nft = n
    BY <2>1 DEF PassRelease, Withdraw, PassGate
  <2>4. QED
    BY <2>2, <2>3
<1>2. ESpec => []HIInv
  BY GateImplemented, PromisesInvariant
<1>3. QED
  BY <1>1, <1>2, EInitInv, ENextInv, PTL DEF ESpec, LockedFundsStay

\* A paused or unregistered manager's wallets keep what they hold, but for the
\* allowances they have given.
THEOREM FrozenFunds == ESpec => FrozenWalletsKeepFunds
<1>1. EInv /\ EInv' /\ [ENext]_evars => FrozenKeeps
  <2> SUFFICES ASSUME EInv, EInv', [ENext]_evars, NEW m \in Managers, NEW n \in Nfts,
                      m \in paused \/ \A id \in ManagerIds : managerOf[id] # m,
                      rescued' = rescued
               PROVE  /\ held'[m][n] >= held[m][n] \/ TakenFromAllowance(m, n)
                      /\ allowance'[m][n] <= allowance[m][n]
    BY DEF FrozenKeeps
  <2>1. /\ held[m][n] \in Nat /\ held'[m][n] \in Nat
        /\ allowance[m][n] \in Nat /\ allowance'[m][n] \in Nat
    BY DEF EInv, EscrowTypeOK, PerWallet
  <2>2. ~Lets(m, n)
    BY TakerPasses DEF IsManagerEnabled
  <2>3. QED
    BY <2>1, <2>2 DEF Lets
<1>2. QED
  BY <1>1, EInitInv, ENextInv, PTL DEF ESpec, FrozenWalletsKeepFunds
-----------------------------------------------------------------------------
(* No token is made or lost *)

\* A wallet's balance that changes changes the sum of them as much.
LEMMA HeldMoves ==
  ASSUME IsFiniteSet(Managers), IsFiniteSet(Nfts), EInv, NEW m \in Managers, NEW n \in Nfts, NEW x \in Int,
         held' = [held EXCEPT ![m][n] = held[m][n] + x]
  PROVE  /\ SumFunction(HeldBy) \in Int
         /\ SumFunction(HeldBy)' = SumFunction(HeldBy) + x
<1> DEFINE f == HeldBy
           g == HeldBy'
           a == <<m, n>>
           S == Managers \X Nfts
<1>1. IsFiniteSet(S)
  BY FS_Product
<1>2. held \in [Managers -> [Nfts -> Int]]
  BY DEF EInv, EscrowTypeOK, PerWallet
<1>3. /\ DOMAIN f = S /\ DOMAIN g = S /\ a \in S
      /\ \A w \in Managers, p \in Nfts : f[<<w, p>>] = held[w][p] /\ g[<<w, p>>] = held'[w][p]
  BY DEF HeldBy
<1>4. ASSUME NEW w \in Managers, NEW p \in Nfts
      PROVE  held'[w][p] = IF w = m /\ p = n THEN held[m][n] + x ELSE held[w][p]
  BY <1>2
<1> HIDE DEF f, g
<1>5. ASSUME NEW y \in S
      PROVE  f[y] \in Int /\ g[y] = IF y = a THEN f[a] + x ELSE f[y]
  <2>1. PICK w \in Managers, p \in Nfts : y = <<w, p>>
    OBVIOUS
  <2>2. f[y] = held[w][p] /\ g[y] = held'[w][p] /\ f[a] = held[m][n]
    BY <1>3, <2>1
  <2>3. y = a <=> w = m /\ p = n
    BY <2>1
  <2>4. held[w][p] \in Int
    BY <1>2
  <2>5. QED
    BY <1>4, <2>2, <2>3, <2>4
<1>6. /\ \A y \in S : f[y] \in Int
      /\ \A y \in S \ {a} : g[y] = f[y]
      /\ g[a] = f[a] + x
  BY <1>3, <1>5
<1> HIDE DEF a, S
<1>7. SumFunctionOnSet(f, S) \in Int /\ SumFunctionOnSet(g, S) = SumFunctionOnSet(f, S) + x
  BY <1>1, <1>3, <1>6, SumMoves
<1>8. SumFunction(f) \in Int /\ SumFunction(g) = SumFunction(f) + x
  BY <1>3, <1>7 DEF SumFunction
<1>9. QED
  BY <1>8 DEF f, g

\* So does an account's.
LEMMA CashMoves ==
  ASSUME IsFiniteSet(Accounts), EInv, NEW a \in Accounts, NEW x \in Int,
         cash' = [cash EXCEPT ![a] = cash[a] + x]
  PROVE  /\ SumFunction(cash) \in Int
         /\ SumFunction(cash)' = SumFunction(cash) + x
<1> DEFINE f == cash
           g == cash'
<1>1. DOMAIN f = Accounts /\ DOMAIN g = Accounts /\ \A y \in Accounts : f[y] \in Int
  BY DEF EInv, EscrowTypeOK
<1>2. g[a] = f[a] + x /\ \A y \in Accounts \ {a} : g[y] = f[y]
  BY DEF EInv, EscrowTypeOK
<1> HIDE DEF f, g
<1>3. /\ SumFunctionOnSet(f, Accounts) \in Int
      /\ SumFunctionOnSet(g, Accounts) = SumFunctionOnSet(f, Accounts) + x
  BY <1>1, <1>2, SumMoves
<1>4. QED
  BY <1>1, <1>3 DEF SumFunction, f, g

\* Tokens that go from a wallet to an account, or back, with a fee.
LEMMA MovesConserve ==
  ASSUME IsFiniteSet(Accounts), IsFiniteSet(Managers), IsFiniteSet(Nfts), EInv, Conservation,
         NEW a \in Accounts, NEW m \in Managers, NEW n \in Nfts, NEW x \in Int, NEW fee \in Int,
         cash' = [cash EXCEPT ![a] = cash[a] + (x - fee)],
         fees' = fees + fee,
         held' = [held EXCEPT ![m][n] = held[m][n] + (0 - x)]
  PROVE  Conservation'
<1> DEFINE all == SumFunction(cash)
           inWallets == SumFunction(HeldBy)
<1>1. all \in Int /\ all' = all + (x - fee)
  <2>1. x - fee \in Int
    OBVIOUS
  <2>2. QED
    BY <2>1, CashMoves
<1>2. inWallets \in Int /\ inWallets' = inWallets + (0 - x)
  <2>1. 0 - x \in Int
    OBVIOUS
  <2>2. QED
    BY <2>1, HeldMoves
<1>3. fees \in Int /\ all + fees + inWallets = Cardinality(Accounts) * InitialCash
  BY DEF EInv, EscrowTypeOK, Conservation
<1> HIDE DEF all, inWallets
<1>4. all' + fees' + inWallets' = all + fees + inWallets
  BY <1>1, <1>2, <1>3
<1>5. all' + fees' + inWallets' = Cardinality(Accounts) * InitialCash
  BY <1>3, <1>4
<1>6. QED
  BY <1>5 DEF Conservation, all, inWallets

\* A payment takes from a wallet what an account receives.
PaysOut ==
  \E m \in Managers, n \in Nfts, receiver \in Accounts, amount \in Nat :
     /\ held' = [held EXCEPT ![m][n] = @ - amount]
     /\ cash' = [cash EXCEPT ![receiver] = @ + amount]
     /\ fees' = fees
     /\ principal' = [principal EXCEPT ![m][n] = @ - amount] \/ UNCHANGED principal

LEMMA PaymentsConserve ==
  ASSUME IsFiniteSet(Accounts), IsFiniteSet(Managers), IsFiniteSet(Nfts), EInv, Conservation, PaysOut
  PROVE  Conservation'
<1>1. PICK m \in Managers, n \in Nfts, receiver \in Accounts, amount \in Nat :
         /\ held' = [held EXCEPT ![m][n] = @ - amount]
         /\ cash' = [cash EXCEPT ![receiver] = @ + amount]
         /\ fees' = fees
         /\ principal' = [principal EXCEPT ![m][n] = @ - amount] \/ UNCHANGED principal
  BY DEF PaysOut
<1>2. held[m][n] \in Nat /\ cash[receiver] \in Nat /\ fees \in Nat
  BY DEF EInv, EscrowTypeOK, PerWallet
<1>3. /\ held[m][n] - amount = held[m][n] + (0 - amount)
      /\ cash[receiver] + amount = cash[receiver] + (amount - 0)
      /\ fees = fees + 0
  BY <1>2
<1>4. /\ held' = [held EXCEPT ![m][n] = held[m][n] + (0 - amount)]
      /\ cash' = [cash EXCEPT ![receiver] = cash[receiver] + (amount - 0)]
      /\ fees' = fees + 0
  BY <1>1, <1>3
<1>5. amount \in Int /\ 0 \in Int
  OBVIOUS
<1>6. QED
  BY <1>4, <1>5, MovesConserve

\* What users take out is a payment; all else they can do is to approve.
LEMMA UsersPayOut == EInv /\ UserStep => PaysOut \/ UNCHANGED <<cash, fees, held>>
<1> SUFFICES ASSUME EInv, NEW s \in Senders, NEW n \in Nfts, NEW id \in ManagerIds,
                    NEW receiver \in Accounts,
                    \/ ReleaseParticle(s, receiver, n, id)
                    \/ \E amount \in AmountChoices : ReleaseParticleAmount(s, receiver, n, id, amount)
                    \/ \E amount \in SplitterChoices :
                          \/ WithdrawWalletRewards(s, receiver, n, id, amount)
                          \/ \E withEther \in BOOLEAN :
                                ExecuteForWallet(s, receiver, n, id, amount, withEther)
             PROVE  PaysOut \/ UNCHANGED <<cash, fees, held>>
  BY DEF UserStep
<1> DEFINE m == managerOf[id]
<1>0. m \in Managers
  BY EnabledManager DEF EInv, ReleaseParticle, ReleaseParticleAmount, WithdrawWalletRewards,
                        ExecuteForWallet
<1>a. principal[m][n] \in Nat
  BY <1>0 DEF EInv, EscrowTypeOK, PerWallet
<1>b. ASSUME NEW amount \in Nat, PayFromPrincipal(m, n, receiver, amount)
      PROVE  PaysOut
  BY <1>0, <1>b DEF PayFromPrincipal, PaysOut
<1>c. ASSUME NEW amount \in SplitterChoices, SendFromWallet(m, n, receiver, amount)
      PROVE  PaysOut
  BY <1>0, <1>c, EscrowAssumption DEF SendFromWallet, Draw, PaysOut
<1>1. CASE ReleaseParticle(s, receiver, n, id)
  BY <1>1, <1>a, <1>b DEF ReleaseParticle
<1>2. ASSUME NEW amount \in AmountChoices, ReleaseParticleAmount(s, receiver, n, id, amount)
      PROVE  PaysOut
  <2> DEFINE paid == IF principal[m][n] >= amount THEN amount ELSE principal[m][n]
  <2>1. PayFromPrincipal(m, n, receiver, paid)
    BY <1>2 DEF ReleaseParticleAmount
  <2>2. paid \in Nat
    BY <1>a, EscrowAssumption
  <2> HIDE DEF paid, m
  <2>3. QED
    BY <1>b, <2>1, <2>2
<1>3. ASSUME NEW amount \in SplitterChoices, WithdrawWalletRewards(s, receiver, n, id, amount)
      PROVE  PaysOut
  BY <1>3, <1>c DEF WithdrawWalletRewards
<1>4. ASSUME NEW amount \in SplitterChoices, NEW withEther \in BOOLEAN,
             ExecuteForWallet(s, receiver, n, id, amount, withEther)
      PROVE  PaysOut \/ UNCHANGED <<cash, fees, held>>
  <2>1. CASE SendFromWallet(m, n, receiver, amount)
    BY <2>1, <1>c
  <2>2. CASE ApproveFromWallet(m, n, amount)
    BY <2>2 DEF ApproveFromWallet
  <2>3. QED
    BY <1>4, <2>1, <2>2 DEF ExecuteForWallet
<1>5. QED
  BY <1>1, <1>2, <1>3, <1>4

\* Deposits with their fees, gifts, and the fees paid out to the protocol's
\* owner make and lose nothing.
LEMMA DepositsConserve ==
  ASSUME IsFiniteSet(Accounts), IsFiniteSet(Managers), IsFiniteSet(Nfts), EInv, Conservation,
         DepositStep \/ OpenStep \/ AdminStep
  PROVE  Conservation'
<1>1. ASSUME NEW a \in Accounts, NEW m \in Managers, NEW n \in Nfts, NEW amount \in Nat, NEW fee \in Nat,
             cash' = [cash EXCEPT ![a] = @ - (amount + fee)], fees' = fees + fee,
             held' = [held EXCEPT ![m][n] = @ + amount]
      PROVE  Conservation'
  <2>1. held[m][n] \in Nat /\ cash[a] \in Nat
    BY DEF EInv, EscrowTypeOK, PerWallet
  <2> DEFINE x == 0 - amount
  <2>2. /\ x \in Int /\ fee \in Int
        /\ cash[a] - (amount + fee) = cash[a] + (x - fee)
        /\ held[m][n] + amount = held[m][n] + (0 - x)
    BY <2>1
  <2> HIDE DEF x
  <2>3. /\ cash' = [cash EXCEPT ![a] = cash[a] + (x - fee)]
        /\ held' = [held EXCEPT ![m][n] = held[m][n] + (0 - x)]
    BY <1>1, <2>2
  <2>4. QED
    <3>1. fees' = fees + fee
      BY <1>1
    <3>2. QED
      BY <2>2, <2>3, <3>1, MovesConserve
<1>2. CASE DepositStep
  <2>1. PICK s \in Senders, n \in Nfts, id \in ManagerIds, amount \in AmountChoices :
           EnergizeParticle(s, n, id, amount)
    BY <1>2 DEF DepositStep
  <2> DEFINE m == managerOf[id]
             fee == FeesForDeposit(amount)
  <2>2. m \in Managers /\ s \in Accounts
    BY <2>1, EnabledManager DEF EInv, EnergizeParticle
  <2>3. amount \in Nat /\ fee \in Nat
    BY FeeIsNat, EscrowAssumption DEF EInv
  <2>4. /\ cash' = [cash EXCEPT ![s] = @ - (amount + fee)] /\ fees' = fees + fee
        /\ held' = [held EXCEPT ![m][n] = @ + amount]
    BY <2>1 DEF EnergizeParticle
  <2> HIDE DEF m, fee
  <2>5. QED
    BY <1>1, <2>2, <2>3, <2>4
<1>3. ASSUME NEW a \in Accounts, NEW m \in Managers, NEW n \in Nfts, NEW amount \in GiftChoices,
             SendToWallet(a, m, n, amount)
      PROVE  Conservation'
  <2>1. amount \in Nat /\ 0 \in Nat /\ fees \in Nat
    BY EscrowAssumption DEF EInv, EscrowTypeOK
  <2>2. amount = amount + 0 /\ fees = fees + 0
    BY <2>1
  <2>3. /\ cash' = [cash EXCEPT ![a] = @ - (amount + 0)] /\ fees' = fees + 0
        /\ held' = [held EXCEPT ![m][n] = @ + amount]
    BY <1>3, <2>2 DEF SendToWallet
  <2>4. QED
    BY <1>1, <2>1, <2>3
<1>4. ASSUME NEW receiver \in Accounts, NEW amount \in AmountChoices, WithdrawErc20(receiver, amount)
      PROVE  Conservation'
  <2>1. amount \in Int /\ fees \in Int
    BY EscrowAssumption DEF EInv, EscrowTypeOK
  <2>2. /\ fees' = fees - amount
        /\ SumFunction(cash) \in Int /\ SumFunction(cash)' = SumFunction(cash) + amount
    BY <1>4, <2>1, CashMoves DEF WithdrawErc20
  <2>3. SumFunction(HeldBy)' = SumFunction(HeldBy)
    BY <1>4 DEF WithdrawErc20, HeldBy
  <2>4. SumFunction(cash)' + fees' = SumFunction(cash) + fees
    BY <2>1, <2>2
  <2>5. QED
    BY <2>3, <2>4 DEF Conservation
<1>5. ASSUME NEW m \in Managers, NEW n \in Nfts, NEW receiver \in Accounts, NEW amount \in RescueChoices,
             RescueERC20(m, n, receiver, amount)
      PROVE  Conservation'
  BY <1>5, PaymentsConserve, EscrowAssumption DEF PaysOut, RescueERC20
<1>6. CASE UNCHANGED <<cash, fees, held>>
  BY <1>6 DEF Conservation, HeldBy
<1>7. ASSUME NEW a \in Accounts, NEW m \in Managers, NEW n \in Nfts, NEW amount \in SplitterChoices,
             SpendAllowance(m, n, a, amount)
      PROVE  Conservation'
  BY <1>7, PaymentsConserve, EscrowAssumption DEF PaysOut, SpendAllowance, Draw
<1>8. QED
  BY <1>2, <1>3, <1>4, <1>5, <1>6, <1>7
  DEF OpenStep, AdminStep, RefreshWalletPrincipal, SetDepositFee

\* No operation makes or destroys tokens: energizing with its fee, releasing,
\* drawing through the splitter, rescuing and paying out fees only move them.
THEOREM TokensKept ==
  ASSUME IsFiniteSet(Accounts), IsFiniteSet(Managers), IsFiniteSet(Nfts)
  PROVE  ESpec => []Conservation
<1>1. EInit => Conservation
  <2> SUFFICES ASSUME EInit PROVE Conservation
    OBVIOUS
  <2>1. cash = [a \in Accounts |-> InitialCash] /\ fees = 0
    BY DEF EInit
  <2>2. HeldBy = [w \in Managers \X Nfts |-> 0]
    BY DEF EInit, HeldBy, Nothing
  <2>3. SumFunctionOnSet(cash, Accounts) = Cardinality(Accounts) * InitialCash
    BY <2>1, SumOfEqual, EscrowAssumption
  <2>4. SumFunctionOnSet(HeldBy, Managers \X Nfts) = Cardinality(Managers \X Nfts) * 0
    <3> DEFINE S == Managers \X Nfts
               f == HeldBy
    <3>1. IsFiniteSet(S) /\ \A w \in S : f[w] = 0
      BY <2>2, FS_Product
    <3> HIDE DEF S, f
    <3>2. SumFunctionOnSet(f, S) = Cardinality(S) * 0
      BY <3>1, SumOfEqual
    <3>3. QED
      BY <3>2 DEF S, f
  <2>5. Cardinality(Managers \X Nfts) \in Nat /\ Cardinality(Accounts) \in Nat
    BY FS_Product, FS_CardinalityType
  <2>6. Cardinality(Managers \X Nfts) * 0 = 0 /\ Cardinality(Accounts) * InitialCash \in Nat
    BY <2>5, EscrowAssumption
  <2>7. SumFunction(cash) = Cardinality(Accounts) * InitialCash /\ SumFunction(HeldBy) = 0
    BY <2>1, <2>2, <2>3, <2>4, <2>6 DEF SumFunction
  <2>8. QED
    BY <2>1, <2>6, <2>7 DEF Conservation
<1>2. EInv /\ Conservation /\ [ENext]_evars => Conservation'
  <2> SUFFICES ASSUME EInv, Conservation, [ENext]_evars PROVE Conservation'
    OBVIOUS
  <2>1. CASE UNCHANGED escrowVars
    BY <2>1 DEF escrowVars, Conservation, HeldBy
  <2>2. CASE UNCHANGED <<cash, fees, held>>
    BY <2>2 DEF Conservation, HeldBy
  <2>3. QED
    BY <2>1, <2>2, UsersPayOut, PaymentsConserve, DepositsConserve DEF ENext, evars, ParticleStep
<1>3. QED
  BY <1>1, <1>2, EInitInv, ENextInv, PTL DEF ESpec
=============================================================================
