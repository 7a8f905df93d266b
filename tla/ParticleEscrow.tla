--------------------------- MODULE ParticleEscrow ---------------------------
(***************************************************************************)
(* Money in particles: contracts/ChargedParticles.sol energizing and       *)
(* releasing, contracts/ParticleSplitter.sol drawing on the wallets for    *)
(* the owners, and the wallets themselves                                  *)
(* (yield/generic/ERC20/GenericWalletManagerB.sol and                      *)
(* GenericSmartWalletB.sol, on lib/WalletManagerBase.sol), behind the gate *)
(* of ChargedState and the registry and rules of ChargedManagers.          *)
(*                                                                         *)
(* One asset token.  Each particle has one wallet per manager.  A wallet   *)
(* of these managers earns no interest: the discharge operations return 0  *)
(* and change nothing (AaveWallet has the interest).  The Universe hooks   *)
(* are left out: the reward program is a component of its own.             *)
(*                                                                         *)
(* Amounts are natural numbers; SafeMath and the ERC20 token revert        *)
(* instead of going below zero.                                            *)
(***************************************************************************)
EXTENDS ChargedManagers, FiniteSetsExt

CONSTANTS
    PERCENTAGE_SCALE,  \* 1e4
    InitialCash,       \* bound: what every account starts with
    AmountChoices,     \* bound: amounts deposited, asked for, sent
    FeeChoices,        \* bound: the deposit fees
    GiftChoices,       \* bound: amounts sent to a wallet past the protocol
    SplitterChoices,   \* bound: amounts owners draw through the splitter
    RescueChoices,     \* bound: amounts the managers' owner takes out
    MaxDrawn           \* bound: drawn or rescued from a wallet between two refreshes

ASSUME EscrowAssumption ==
    /\ "release" \in Kinds
    /\ PERCENTAGE_SCALE \in Nat \ {0}
    /\ InitialCash \in Nat
    /\ AmountChoices \subseteq Nat
    /\ FeeChoices \subseteq 0..(PERCENTAGE_SCALE - 1)
    /\ GiftChoices \subseteq Nat
    /\ SplitterChoices \subseteq Nat
    /\ RescueChoices \subseteq Nat
    /\ MaxDrawn \in Nat

VARIABLES
    cash,       \* the asset's balance of every account
    fees,       \* the asset's balance of the ChargedParticles contract
    depositFee,
    wallets,    \* _wallets: the pairs <<manager, particle>> that have one
    held,       \* the asset's balance of every wallet
    principal,  \* _assetPrincipalBalance of every wallet
    allowance,  \* the asset's allowance that every wallet has left with others
    drawn,      \* history: drawn by the owner through the splitter, or taken
                \*   from an allowance, since the principal was last refreshed
    rescued     \* history: taken out by the managers' owner since then

escrowVars == <<cash, fees, depositFee, wallets, held, principal, allowance, drawn, rescued>>
evars == <<hvars, managersVars, escrowVars>>

PerWallet == [Managers -> [Nfts -> Nat]]
Nothing == [m \in Managers |-> [n \in Nfts |-> 0]]

EscrowTypeOK ==
    /\ cash \in [Accounts -> Nat]
    /\ fees \in Nat
    /\ depositFee \in 0..(PERCENTAGE_SCALE - 1)
    /\ wallets \subseteq Managers \X Nfts
    /\ held \in PerWallet
    /\ principal \in PerWallet
    /\ allowance \in PerWallet
    /\ drawn \in PerWallet
    /\ rescued \in PerWallet

EInit ==
    /\ HInit
    /\ ManagersInit
    /\ cash = [a \in Accounts |-> InitialCash]
    /\ fees = 0
    /\ depositFee = 0
    /\ wallets = {}
    /\ held = Nothing /\ principal = Nothing /\ allowance = Nothing
    /\ drawn = Nothing /\ rescued = Nothing

HasWallet(m, n) == <<m, n>> \in wallets

\* mutant of PassRelease: the sender's right is not validated
PassUnchecked(s, n) ==
    /\ lastTx' = [event |-> "withdraw", kind |-> "release", nft |-> n, by |-> s,
                  holder |-> owner[n]]
    /\ UNCHANGED <<block, owner, accessVars, lockVars, settingVars>>
    /\ Remember

\* The gate: validateRelease by the sender, a transaction of ChargedState.
PassRelease(s, n) == Withdraw(s, n, "release") /\ Remember

-----------------------------------------------------------------------------
(* ChargedParticles *)

FeesForDeposit(amount) == (amount * depositFee) \div PERCENTAGE_SCALE

\* mutant of EnergizeParticle: the fee is booked, the amount alone collected
EnergizeWithoutFee(s, n, id, amount) ==
    LET m == managerOf[id]
    IN /\ IsManagerEnabled(id)
       /\ s \in Accounts
       /\ ValidateDeposit(s, n, id, principal[m][n], amount)
       /\ cash[s] >= amount
       /\ cash' = [cash EXCEPT ![s] = @ - amount]
       /\ fees' = fees + FeesForDeposit(amount)
       /\ wallets' = wallets \cup {<<m, n>>}
       /\ held' = [held EXCEPT ![m][n] = @ + amount]
       /\ principal' = [principal EXCEPT ![m][n] = @ + amount]
       /\ UNCHANGED <<hvars, managersVars, depositFee, allowance, drawn, rescued>>

\* energizeParticle: the wallet is created when there is none
EnergizeParticle(s, n, id, amount) ==
    LET m == managerOf[id]
        fee == FeesForDeposit(amount)
    IN /\ IsManagerEnabled(id)
       /\ s \in Accounts
       /\ ValidateDeposit(s, n, id, principal[m][n], amount)
       /\ cash[s] >= amount + fee
       /\ cash' = [cash EXCEPT ![s] = @ - (amount + fee)]
       /\ fees' = fees + fee
       /\ wallets' = wallets \cup {<<m, n>>}
       /\ held' = [held EXCEPT ![m][n] = @ + amount]
       /\ principal' = [principal EXCEPT ![m][n] = @ + amount]
       /\ UNCHANGED <<hvars, managersVars, depositFee, allowance, drawn, rescued>>

\* mutant of PayFromPrincipal: the payment is not taken off the principal
PayUntracked(m, n, receiver, amount) ==
    /\ HasWallet(m, n)
    /\ held[m][n] >= amount
    /\ held' = [held EXCEPT ![m][n] = @ - amount]
    /\ cash' = [cash EXCEPT ![receiver] = @ + amount]
    /\ UNCHANGED <<managersVars, fees, depositFee, wallets, principal, allowance, drawn, rescued>>

\* the smart wallet's withdraw and withdrawAmount
PayFromPrincipal(m, n, receiver, amount) ==
    /\ HasWallet(m, n)
    /\ held[m][n] >= amount
    /\ held' = [held EXCEPT ![m][n] = @ - amount]
    /\ principal' = [principal EXCEPT ![m][n] = @ - amount]
    /\ cash' = [cash EXCEPT ![receiver] = @ + amount]
    /\ UNCHANGED <<managersVars, fees, depositFee, wallets, allowance, drawn, rescued>>

ReleaseParticle(s, receiver, n, id) ==
    /\ IsManagerEnabled(id)
    /\ PassRelease(s, n)
    /\ PayFromPrincipal(managerOf[id], n, receiver, principal[managerOf[id]][n])

\* mutant of ReleaseParticleAmount: the amount is not capped by the principal
ReleaseUncapped(s, receiver, n, id, amount) ==
    /\ IsManagerEnabled(id)
    /\ PassRelease(s, n)
    /\ PayFromPrincipal(managerOf[id], n, receiver, amount)

\* Asking for more than the principal pays the principal.
ReleaseParticleAmount(s, receiver, n, id, amount) ==
    /\ IsManagerEnabled(id)
    /\ PassRelease(s, n)
    /\ LET whole == principal[managerOf[id]][n]
       IN PayFromPrincipal(managerOf[id], n, receiver, IF whole >= amount THEN amount ELSE whole)

SetDepositFee(fee) ==
    /\ depositFee' = fee
    /\ UNCHANGED <<hvars, managersVars, cash, fees, wallets, held, principal, allowance, drawn, rescued>>

\* withdrawErc20 of ChargedParticles, by the protocol's owner
WithdrawErc20(receiver, amount) ==
    /\ fees >= amount
    /\ fees' = fees - amount
    /\ cash' = [cash EXCEPT ![receiver] = @ + amount]
    /\ UNCHANGED <<hvars, managersVars, depositFee, wallets, held, principal, allowance, drawn, rescued>>

-----------------------------------------------------------------------------
(* ParticleSplitter *)

\* The wallet's tokens are sent; its books are not told.
Draw(m, n, receiver, amount) ==
    /\ held[m][n] >= amount
    /\ drawn[m][n] + amount <= MaxDrawn
    /\ held' = [held EXCEPT ![m][n] = @ - amount]
    /\ drawn' = [drawn EXCEPT ![m][n] = @ + amount]
    /\ cash' = [cash EXCEPT ![receiver] = @ + amount]
    /\ UNCHANGED <<managersVars, fees, depositFee, principal, rescued>>

SendFromWallet(m, n, receiver, amount) == Draw(m, n, receiver, amount) /\ UNCHANGED allowance

\* The wallet lets another contract, or a person, have tokens later.
ApproveFromWallet(m, n, amount) ==
    /\ allowance' = [allowance EXCEPT ![m][n] = amount]
    /\ UNCHANGED <<managersVars, cash, fees, depositFee, held, principal, drawn, rescued>>

\* mutant of WithdrawWalletRewards: being the owner is enough
WithdrawWalletRewardsUngated(s, receiver, n, id, amount) ==
    /\ s = owner[n]
    /\ IsManagerEnabled(id)
    /\ UNCHANGED hvars
    /\ HasWallet(managerOf[id], n)
    /\ SendFromWallet(managerOf[id], n, receiver, amount)
    /\ UNCHANGED wallets

\* withdrawWalletRewards of the asset itself
WithdrawWalletRewards(s, receiver, n, id, amount) ==
    /\ s = owner[n]
    /\ IsManagerEnabled(id)
    /\ PassRelease(s, n)
    /\ HasWallet(managerOf[id], n)
    /\ SendFromWallet(managerOf[id], n, receiver, amount)
    /\ UNCHANGED wallets

\* executeForWallet on an allowed contract that moves the asset on, or on the
\* asset itself to approve a spender; the wallet is created first when ether is
\* sent along.
ExecuteForWallet(s, receiver, n, id, amount, withEther) ==
    /\ s = owner[n]
    /\ IsManagerEnabled(id)
    /\ PassRelease(s, n)
    /\ HasWallet(managerOf[id], n) \/ withEther
    /\ wallets' = wallets \cup {<<managerOf[id], n>>}
    /\ \/ SendFromWallet(managerOf[id], n, receiver, amount)
       \/ ApproveFromWallet(managerOf[id], n, amount)

\* external: whom a wallet has approved takes tokens, through neither contract
SpendAllowance(m, n, receiver, amount) ==
    /\ allowance[m][n] >= amount
    /\ Draw(m, n, receiver, amount)
    /\ allowance' = [allowance EXCEPT ![m][n] = @ - amount]
    /\ UNCHANGED <<hvars, wallets>>

\* refreshWalletPrincipal, by anyone
RefreshWalletPrincipal(n, id) ==
    LET m == managerOf[id]
    IN /\ IsManagerEnabled(id)
       /\ HasWallet(m, n)
       /\ principal' = [principal EXCEPT ![m][n] = held[m][n]]
       /\ drawn' = [drawn EXCEPT ![m][n] = 0]
       /\ rescued' = [rescued EXCEPT ![m][n] = 0]
       /\ UNCHANGED <<hvars, managersVars, cash, fees, depositFee, wallets, held, allowance>>

-----------------------------------------------------------------------------
(* The managers' owner, and the asset itself *)

\* WalletManagerBase.withdrawERC20; the manager itself holds none
RescueERC20(m, n, receiver, amount) ==
    /\ HasWallet(m, n)
    /\ held[m][n] >= amount
    /\ rescued[m][n] + amount <= MaxDrawn
    /\ held' = [held EXCEPT ![m][n] = @ - amount]
    /\ rescued' = [rescued EXCEPT ![m][n] = @ + amount]
    /\ cash' = [cash EXCEPT ![receiver] = @ + amount]
    /\ UNCHANGED <<hvars, managersVars, fees, depositFee, wallets, principal, allowance, drawn>>

\* external: a transfer of the asset to the address of a wallet
SendToWallet(a, m, n, amount) ==
    /\ HasWallet(m, n)
    /\ cash[a] >= amount
    /\ cash' = [cash EXCEPT ![a] = @ - amount]
    /\ held' = [held EXCEPT ![m][n] = @ + amount]
    /\ UNCHANGED <<hvars, managersVars, fees, depositFee, wallets, principal, allowance, drawn, rescued>>

-----------------------------------------------------------------------------
UserStep ==
    \E s \in Senders, n \in Nfts, id \in ManagerIds, receiver \in Accounts :
        \/ ReleaseParticle(s, receiver, n, id)
        \/ \E amount \in AmountChoices : ReleaseParticleAmount(s, receiver, n, id, amount)
        \/ \E amount \in SplitterChoices :
              \/ WithdrawWalletRewards(s, receiver, n, id, amount)
              \/ \E withEther \in BOOLEAN : ExecuteForWallet(s, receiver, n, id, amount, withEther)

DepositStep ==
    \E s \in Senders, n \in Nfts, id \in ManagerIds, amount \in AmountChoices :
        EnergizeParticle(s, n, id, amount)

OpenStep ==
    \/ \E n \in Nfts, id \in ManagerIds : RefreshWalletPrincipal(n, id)
    \/ \E a \in Accounts, m \in Managers, n \in Nfts :
          \/ \E amount \in GiftChoices : SendToWallet(a, m, n, amount)
          \/ \E amount \in SplitterChoices : SpendAllowance(m, n, a, amount)

AdminStep ==
    \/ \E fee \in FeeChoices : SetDepositFee(fee)
    \/ \E receiver \in Accounts, amount \in AmountChoices : WithdrawErc20(receiver, amount)
    \/ \E m \in Managers, n \in Nfts, receiver \in Accounts, amount \in RescueChoices :
          RescueERC20(m, n, receiver, amount)

\* The gate's own transactions and the moves of the particles.
ParticleStep ==
    /\ GateStep \/ \E n \in Nfts, to \in Holders : TransferToken(n, to)
    /\ Remember
    /\ UNCHANGED <<managersVars, escrowVars>>

ENext ==
    \/ ParticleStep
    \/ ManagersStep /\ UNCHANGED escrowVars
    \/ UserStep
    \/ DepositStep
    \/ OpenStep
    \/ AdminStep

ESpec == EInit /\ [][ENext]_evars

-----------------------------------------------------------------------------
(* Properties *)

\* Every wallet holds the principal it owes, but for what its own particle's
\* owner drew through the splitter or let others take, and the managers' owner
\* took out, since the principal was last refreshed: no other operation breaks
\* the backing.
Backed ==
    \A m \in Managers, n \in Nfts : held[m][n] + drawn[m][n] + rescued[m][n] >= principal[m][n]

\* No transaction makes or destroys tokens: what the accounts, the protocol
\* and the wallets hold is what the accounts started with.
HeldBy == [w \in Managers \X Nfts |-> held[w[1]][w[2]]]
Conservation == SumFunction(cash) + fees + SumFunction(HeldBy) = Cardinality(Accounts) * InitialCash

\* What has left a wallet was taken from the allowance it had given.
TakenFromAllowance(m, n) == held[m][n] - held'[m][n] = allowance[m][n] - allowance'[m][n]

\* While a release timelock that was accepted is running, no tokens leave any
\* wallet of that particle, by whatever manager, contract or caller, and no
\* allowance is given; what leaves, or is allowed, at other times is so in a
\* release that the gate let through.  Allowances from before the lock are the
\* one way past it: they are spent at any time (ParticleSplitter.sol:90).
LeavesUnlocked ==
    \A m \in Managers, n \in Nfts :
        /\ rescued' = rescued
        /\ \/ held'[m][n] < held[m][n] /\ ~TakenFromAllowance(m, n)
           \/ allowance'[m][n] > allowance[m][n]
        => /\ commitments["release"][n] = {}
           /\ lastTx'.event = "withdraw" /\ lastTx'.kind = "release" /\ lastTx'.nft = n
LockedFundsStay == [][LeavesUnlocked]_evars

\* A manager that is paused, or that no id names any more, keeps what its
\* wallets hold, whichever of the two contracts is asked (ChargedParticles,
\* ParticleSplitter): only the managers' owner gets at it, and who was given
\* an allowance before.
FrozenKeeps ==
    \A m \in Managers, n \in Nfts :
        /\ m \in paused \/ \A id \in ManagerIds : managerOf[id] # m
        /\ rescued' = rescued
        => /\ held'[m][n] >= held[m][n] \/ TakenFromAllowance(m, n)
           /\ allowance'[m][n] <= allowance[m][n]
FrozenWalletsKeepFunds == [][FrozenKeeps]_evars
=============================================================================
