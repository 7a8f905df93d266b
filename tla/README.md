# Charged Particles: models, checks and proofs

Charged Particles lets an NFT (a *particle*) own assets: ERC20 tokens in *smart
wallets* and other NFTs in *smart baskets*, with approvals, timelocks and the NFT
contract's rules deciding who may put things in and take them out. This directory
holds TLA+ models of the Solidity contracts in `src/contracts` and of the scripts
in `src/deploy` and `src/js-helpers` that put them in place, TLC
configurations that check them on small instances, and TLAPS proofs that hold for
every instance.

    tlc -workers 2 -config MCChargedState_locks.cfg MCChargedState   # one run
    tlapm ChargedStateProofs.tla                                     # one module of proofs

## 1. The system

### Parts

| Part | Source | State it keeps | Operations | Where |
|---|---|---|---|---|
| Gate | `ChargedState.sol` | approvals per NFT *and holder*, permission flags per NFT, a timelock (block, maker) per NFT and kind of withdrawal, a temporary lock | `set*Approval`, `setApprovalForAll`, `setPermsFor*`, `set*Timelock`, `setTemporaryLock`, `migrateToken`; read by `get*State` | `ChargedState` |
| Managers | `ChargedManagers.sol` | registry: id -> wallet / basket manager | `register*Manager`; `validateDeposit`, `validateNftDeposit`, `validateDischarge/Release/BreakBond` | `ChargedManagers`, `ChargedState` |
| Settings | `ChargedSettings.sol` | rules per NFT contract (flags, required managers, limits, maximum of NFTs), cap and invalidity per asset, timelock permissions, annuity percentage per NFT | the setters | `ChargedManagers`, `ChargedState`, `AaveWallet` |
| Entry points | `ChargedParticles.sol` | deposit fee, the fees it collected | `energizeParticle`, `discharge*`, `release*`, `covalentBond`, `breakCovalentBond` | `ParticleEscrow`, `CovalentBonds` |
| Splitter | `ParticleSplitter.sol` | allowed external contracts | `executeForWallet/Basket`, `withdrawWallet/BasketRewards`, `refreshWalletPrincipal` | `ParticleEscrow`, `CovalentBonds` |
| Generic wallets | `yield/generic/ERC20/*B.sol` on `lib/WalletManagerBase.sol`, `lib/SmartWalletBaseB.sol` | wallet per particle, principal per asset, pause | `energize`, `release*`, `withdrawRewards`, `executeForAccount`, `refreshPrincipal` | `ParticleEscrow` |
| Aave wallets | `yield/aave/*B.sol`, `yield/aave/v2/AaveBridgeV2.sol` | as above, and what the creator took ahead | as above with `discharge*` | `AaveWallet` |
| Generic baskets | `yield/generic/ERC721/*B.sol` | basket per particle, counters per nested NFT and in total | `prepareTransferAmount`, `addToBasket`, `removeFromBasket`, `executeForAccount` | `CovalentBonds` |
| Universe | `UniverseRP.sol` (`Universe.sol` before it) | reward program per asset | `on*` hooks called at the end of every entry point, `setRewardProgram`, `removeRewardProgram` | `RewardProgram` |
| Rewards | `incentives/RewardProgram.sol` | stake per particle, bonded multipliers, claimable rewards, the fund | `registerAsset*`, `registerNft*`, `registerExistingDeposits`, `fundProgram` | `RewardProgram` |
| Staking | `incentives/Staking*.sol`, `YieldFarm*.sol` | checkpoints per user, pool size per epoch, epochs harvested | `deposit`, `withdraw`, `manualEpochInit`, `harvest`, `massHarvest` | planned |
| Distribution | `incentives/MerkleDistributor*.sol`, `vesting/VestingClaim7.sol` | claimed bits | `claim`, `expire` | planned |
| Protons | `tokens/Proton*.sol`, `lib/BaseProton.sol` | price, last price, creator, royalties | minting, sale with a temporary lock | planned |
| Leptons, Ionx, test tokens | `tokens/*` | tiers | `buyLepton` | not modelled |
| A versions | `AaveWalletManager.sol`, `GenericBasketManager.sol`, ... | sets instead of counters | superseded | not modelled |
| Script runner | `js-helpers/executeTx.js`, `js-helpers/deploy.js`, hardhat-deploy | `__skipTo`, what a script holds in its variables; on disk `deployments/<network>`, `migration_data/<network>` | `executeTx`, `skipToTxId`, `getDeployData`, `saveDeploymentData`, `saveMigrationData` | `ScriptRunner` |
| Scripts | `src/deploy/*.js`, `js-helpers/configProtocol.js`, `scripts/ionx_lepton_reward_setup.js` | none of their own | deploy, wire, upgrade, migrate, fund | `ProtocolScripts` |
| Configuration, test helpers | `hardhat.config.js`, `deploy/C_verify.js`, `scripts/run-tx.js`, other helpers | none | | not modelled |

### How they interact

A user's transaction enters `ChargedParticles` or `ParticleSplitter`, which ask
`ChargedManagers` to validate it. `ChargedManagers` reads `ChargedState` (may this
sender withdraw, does a lock run?) and `ChargedSettings` (may this asset come in, and
how much of it?) and hands over the manager registered for the id the user named.
The manager finds the particle's wallet or basket, which moves tokens and keeps the
books. Ownership is known to the NFT contract alone: a transfer is announced to
nobody, so everything the contracts remember about a particle is remembered across
owners.

At the end of every entry point `ChargedParticles` calls the universe it was given, if
any, within the same transaction. `UniverseRP` hands the news on to the program of the
asset, or of the NFT contract, that moved. A program that reverts takes the deposit or the
release with it.

Everything above is put in place, upgraded and fed by an operator who runs scripts.
They meet the contracts through transactions, and one another through the records
that one script saves and the next one loads.

### What is hard

*In the contracts.* The EVM runs one transaction after another, so there are no interleavings *inside* an
entry point (and `nonReentrant` keeps callbacks out). The difficulty lies in long
sequences of legal transactions by parties who do not trust one another: owners,
former owners, approved operators, creators, NFT contracts, the managers' owner.

* State that outlives its author: approvals, permissions and timelocks of former owners.
* Two contracts that reach the same wallet, with different guards.
* Books (`principal`, counters) that the tokens can leave behind, because wallets
  and baskets also execute arbitrary calls, receive gifts and are rescued.
* Interest shared between two parties who withdraw it in any order, with roundings
  and one memory (`_nftCreatorAmountDischarged`) for all assets.
* Ids that name one manager today and another tomorrow, and pauses.
* Limits that are checked at one moment against one manager's count.
* Allowances and operators that an executed call leaves behind and that are used later.
* Stakes that begin and end with deposits, bonds, and programs that come and go, each on
  its own; a wallet that is refreshed without the program hearing of it.

*In the scripts.* A script is a process that may die between any two of its steps, and
its transactions land although their receipts are lost. What it knew is gone; what it
saved and what the chain holds stay.

* `executeTx` sends a transaction again until its receipt arrives, done or not, even one
  that can land only once.
* A rerun deploys everything anew: which instances do the records, and the wires, name?
* `skipToTxId` goes on in the middle, by an id that need not be unique.
* A live escrow is switched to a universe whose program does not yet accept it.
* Funds are sent, and records migrated, before the file that says so is written.

`PROJECT.json` lists each of these under `hazards` at its line, with the properties
that are aimed at it.

### What makes each part correct

* *Gate*: an accepted timelock stands until its block or its maker lifts it; nobody
  withdraws while it runs; who withdraws has the consent of the present holder.
* *Escrow*: tokens are conserved; wallets are backed; money leaves a wallet only
  through the gate; paused and unregistered managers keep what they hold.
* *Aave wallets*: deposits never go to the creator, interest is never paid out of the
  principal, the creator gets at most his percentage, and what he takes ahead does not keep the owner from his.
* *Baskets*: the books match custody wherever nothing went past them; NFTs leave only
  through the gate; paused and unregistered managers keep theirs.
* *Rewards*: a deposit with a program can leave, at the latest after a call that everyone may
  make; multipliers come from NFTs that are bonded and only ever add, up to ten times;
  what is owed is dropped only when it is paid.
* *Scripts*: whatever fails and is run again, every step is done, in order, and all are done in the
  end unless `executeTx` hangs; the recorded
  contracts are wired to each other; rewards go live complete; what is tracked is
  migrated; only faults leave funds behind.
* *Staking* (planned): pool sizes are the sums of the users' balances of the epoch; an
  epoch's harvests never exceed its budget.
* *Distribution* (planned): every index is claimed at most once.
* *Protons* (planned): the price is paid in full to owner and creator; what is listed
  cannot be emptied before the sale.

## 2. The modules

    ChargedState  <-  ChargedStateHistory  <-  ChargedManagers  <-  ParticleEscrow
                                                                <-  CovalentBonds
    AaveWallet          RewardProgram           (<- : is extended by)
    ScriptPlans  <-  ScriptRunner  <-  ProtocolScripts
    OrderedSteps  <=  ScriptRunner              (<= : is implemented by)

    ChargedStateProofs  <-  ChargedManagersProofs  <-  ParticleEscrowProofs, CovalentBondsProofs
    NumberLemmas  <-  ParticleEscrowProofs, CovalentBondsProofs, RewardProgramProofs, AaveWalletProofs
    ScriptRunnerProofs

Each `MC*` module extends one of them and gives its constants names and values; a
definition that stands next to another under the comment *mutant of X* is a faulty X
that the properties were tried against.

**In the models of contracts an action is one transaction that succeeds.** A `require` that fails reverts, so it
is a guard and nothing else. The parameters of an action are the sender (`s`), the
particle (`n`) and the function's arguments, taken from small sets in the `...Step`
definitions.

**ChargedState** is the contract and the gate derived from it. The code keeps three
textually identical copies of its mappings and handlers, for discharge, release and
breaking bonds; here they are one function over `Kinds`. An NFT stands for its (contract,
token id) pair, which the code hashes. `owner`, with `TransferToken`, is the NFT
contract: minting, selling and burning at any time. `Withdraw` and `WithdrawNft` are
what the gate lets through; the modules above say what leaves. `Operators` (ERC721
`isApprovedForAll`) is constant.

**ChargedStateHistory** adds what the code does not remember: the timelocks that were
accepted (`commitments`), whom holders ever approved (`consents`), which particles were
opened to everyone (`opened`). Histories are computed from transactions, not from the
mappings they judge. `HSpec` is the abstract specification of the gate: everything that
is put on top of it has to be a behaviour of `HSpec`.

**ChargedManagers** has the registry, the pauses and the rules. Wallet and basket
managers are registered and paused by the same code and share `Managers` and
`ManagerIds`. Who may call which setter is left out (the NFT contract's owner or the
protocol's), because no property depends on it: rules may change at any time.

**ParticleEscrow** puts money behind the gate: deposits with their fee, both releases,
the splitter's ways into a wallet, refreshes, gifts and rescues. `held` is the token's
balance of each wallet, `principal` what its books say. The generic wallets earn nothing, so
their discharges change nothing and are left out. `drawn` and `rescued` are histories
that say by how much the books may lag.

`ExecuteForWallet` is an arbitrary call. What it can do to the asset is to move some of it at once
(`SendFromWallet`) or to approve a spender (`ApproveFromWallet`); `allowance` outlives the call, and
`SpendAllowance` uses it at any later time, whatever locks and pauses there are by then. That is the
one way past the gate, besides rescues, and the properties name it. A spender needs no identity: whoever
was approved takes the tokens to anybody.

**CovalentBonds** puts NFTs behind the gate. Baskets are accounts: an NFT is in a basket
when the NFT contract says that the basket owns it, so a nested particle is released and
bonded by the same `owner` variable that the gate reads. `count` and `total` are
`_nftContractTokenBalance` and `_nestedNftCount`, words of `MaxUint + 1` values that wrap,
as Solidity 0.6 `+=` and `-=` do. `strayed` remembers the NFTs that went in or out
unbooked, or booked with an amount that stands for more than the one there is.
`ExecuteForBasket` moves an NFT or makes somebody an operator of all that the basket holds of a contract
(`operated`, which covers the approval of one NFT); `TakeAsOperator` is what an operator may do from then on.

**AaveWallet** is the arithmetic of one wallet over several assets, action by action as
`AaveWalletManagerB` calls `AaveSmartWalletB`. It stands alone because its question is
how interest is split, whoever was let in. `Accrue` is the lending pool.

**RewardProgram** is the program with the universe's hooks in front of it, and as much of the
escrow as the hooks see: `principal` per particle, manager and asset, and the NFTs
that are `bonded`. The actions named after entry points of `ChargedParticles` are the whole
transaction as the program sees it: what the manager does to the principal, then the hook.
A hook that reverts is a guard of the entry point: `HasStake`, because without a stake the
program asks for the manager of an empty id, and the condition of `ReleaseParticleAmount`, because
`onRelease` subtracts the principal that is reported from what was paid, and the generic
managers (`WholeReporters`) report all of it. `RefreshPrincipal` is every change of the books
that the universe does not hear of. `untold` is a history: NFTs that were unbonded while no
program was set. The fund is the reward token's balance; `Unit` is the conversion of decimals.

**ScriptPlans** says what a script is: `Plan` gives the steps of each, `Needs` the connections that the
protocol cannot do without, `Programs` what has to be set before an escrow calls a reward universe,
`Purse` which contracts are funded. What the properties of the runner take of the scripts is assumed here by
name. Each assumption can be read off the text of a plan, and TLC evaluates it for the plans of
`ProtocolScripts` and the agendas of the runs:

| Assumption | a script, or a command |
|---|---|
| `LoadsFirst` | loads or deploys before it uses |
| `TracksWhatItSent` | tracks what the step before migrated |
| `NeedsAreMet` | writes what the protocol needs where the protocol needs it |
| `CommandsConnect` | that records new contracts makes every connection after the last record it is about |
| `ProgramsAreSetUp` | that makes the escrow call a universe has deployed it, told it its escrow and its program, and set up the program, before; nothing else writes these connections once it is called |
| `FundsAreRecorded` | that deploys, funds and records a contract does so with one, in the script that deploys it, finds the records it loads and does not throw; any other contract it funds is the recorded one, and no later command of the agenda records that anew |

The last one fails for the airdrop on a test network, which throws after it has funded a distributor: no
agenda of the runs has it, and it is a hazard without a property.

**ScriptRunner** runs the scripts and is about no script in particular. A step loads records, deploys, saves records, sends a transaction, marks
a record as migrated, or throws. An action is one such step, whole. The variables are
grouped by where they live, because that decides what survives: the operator's agenda
(`todo`, `at`), the process (`running`, `pc`, `skipTo`, `mem`), the disk (`recorded`,
`tracked`), the chain (`deployed`, `wire`, `added`). A crash and a script that throws end the
process (`Abort`); `LoseReceipt` is a transaction that lands while its `wait` fails, after which
`executeTx` sends it again and a direct call throws. A transaction that can land once (`once`), or that uses up
what others have added (`draws`), `Reverts` when it is sent again: a direct call throws (`Refused`), and
`executeTx` tries it again for ever (`Hangs`), until the process is ended from outside. The operator runs the command again
from the script that failed or from an earlier one (`Rerun`), or sets `skipToTxId` to the id
of the transaction that failed (`Resume`) in the one script that has a place for it,
`configProtocol`. `UserChange` is a user who changes what was migrated for his token.

`OrderedSteps` is the abstract specification: the steps of an agenda, in order, started over a
bounded number of times. `ScriptRunner` implements it under `Prefix`, which forgets the
process, the disk and the chain and keeps how far the script has come: with `skipTo` set, up
to the step before it; otherwise up to `pc`.

**ProtocolScripts** has the scripts themselves, a `...Plan` for each tag, the connections that the
protocol needs (`ProtocolNeeds`), what a reward program needs (`RewardPrograms`), and which contracts are
funded (`ProtocolPurse`). `DepositsResume` is about these scripts and none else. A plan keeps the order of loads, deployments, saves and transactions, the ids, which
transactions go through `executeTx`, whom they set to whom, and the conditions on the chain. Amounts,
addresses of other protocols, prices and texts are the word `"given"`.

What the abstractions leave out:

* *ERC1155* tokens (nested amounts, fungible baskets); *ether* sent along or rescued,
  except that it may create a wallet.
* *Executed calls*: what they do besides moving the asset or the nested NFTs, at once or by an approval.
* *Universe hooks* are in `RewardProgram` alone: the other models behave as with no Universe set.
* *Rewards*: one base multiplier; the owner's withdrawals of the fund; deposits through
  `ParticleSplitter`; partial releases that ask for more than there is.
* *Scripts*: zkEVM (1442), where records are missing from the start; `reward-deploy` with the
  records of another chain (`chainOverride`, Kovan and Polygon); `verify`, which reads only. A
  transaction that always reverts is no step: `executeTx` would send it for ever, as it does where a lepton
  type has no price for the chain. `pause-all` and the minting of `mint-ionx` do not wait for receipts: a step is
  done when it is sent. The old leptons are taken to be at most the 100 of one `migrate-leptons`.
* One asset token, except in `AaveWallet`: rules of different assets never meet in one condition. Rules of
  different NFT contracts do (`maxNfts` is per nested contract and compared with a basket's total over
  all, `ChargedManagers.sol:361`); the model has them, for any contracts, and the runs use one contract.
* The receiver of a broken bond is a person; sending the NFT straight on into a basket is
  `SendToBasket` afterwards.
* `setController`, `migrateToken` of `ChargedSettings`, and the withdrawals of tokens that were
  sent to `ChargedState`, `ChargedManagers` or `ChargedSettings` by mistake.
* Meta-transactions: the sender is whom `_msgSender` returns.

## 3. The runs

| Run | Instance | Properties | States |
|---|---|---|---|
| `locks` | one particle, two people, its contract; two kinds of timelock, temporary locks, migration, timelock permissions; 3 blocks | `HTypeOK`, `CommitmentsStand`, `NoOrphanLock` | 177,021 |
| `access` | one particle, three people of whom one has an ERC721 operator; approvals, permissions, one timelock; 2 blocks | `WithdrawalsRespectCommitments`, `WithdrawalsByConsent` | 204,356 |
| `custody` | one wallet, two people, timelocks, transfers, draws through the splitter, allowances, gifts, rescues | `EscrowTypeOK`, `Backed`, `LockedFundsStay`, `HSpec` | 101,548 |
| `rules` | two managers under one id, a pause, calls out of wallets, allowances, a cap, fees, rescues | `Conservation`, `FrozenWalletsKeepFunds` | 417,376 |
| `bond_locks` | two particles that bond into each other, timelocks of both kinds, calls out of baskets, operators, rescues | `BondsTypeOK`, `BondsHold`, `HSpec` | 61,708 |
| `bond_books` | one manager under two ids, amounts 0 and 2, words of two bits | `BooksMatchCustody`, `TotalsAddUp` | 358,640 |
| `bond_rules` | two particles, two managers, a pause, calls out of baskets, operators, rescues | `FrozenBasketsKeepNfts` | 129,720 |
| `split` | one asset, percentage 0 or 1/2, executed calls | `TypeOK`, `Conservation`, `PrincipalCovered`, `DepositsBelongToOwner`, `CreatorNeverOverpaid`, `DischargeKeepsPrincipal`, `AdvanceStaysCovered` | 43,491 |
| `rewards` | one particle, two managers, one of which reports whole principals, three leptons of which two are equal; 3 blocks | `TypeOK`, `MultipliersComeFromBonds`, `MultipliersOnlyAdd`, `DepositsCanLeave`, `RewardsAreSettled` | about 1,900,000 |
| `rollout` | four agendas of scripts from nothing: Mumbai with upgrade, rewards and migration, the local chain with test tokens and funds, mainnet twice; 1 fault | `TypeOK`, `WiresAreDeployed`, `ProtocolIsWired`, `OrphansAreFaults`, `TrackedIsMigrated`, `ChangesAreKept` | 108,240 |
| `programs` | the two reward deployments, the setup and the migration on a protocol that is deployed; 2 faults | `LiveProgramsAreComplete`, `DepositsResume`, `ImplementsOrderedSteps`, `AgendaCompletes` | 54,542 |
| `overpaid` | two assets, percentage 1/2 | `CreatorNeverOverpaid` is violated | |

The violation is a disagreement between the code and what its documents say;
`PROJECT.json` quotes both under `findings`: a release of one asset forgets what the
creator took ahead in another, and he is paid more than his percentage.

### What the code does that one might not expect

Met while modelling; the models behave this way, and no property says otherwise.

* The limits do not hold as they are documented. `ChargedSettings.sol:343-344` (`depositMin`, `depositMax`) and `:369-372`
  (`maxNfts`: "held by a given NFT") speak of the NFT; the code compares with the wallet, or the
  basket, of the one manager that is named (`ChargedManagers.sol:305`, `:361-363`), so that with two managers a particle
  holds twice the maximum. `refreshPrincipal` books gifts past it (`GenericSmartWalletB.sol:172`). The maximum of NFTs is compared
  with the amount the caller passes, so 0 passes at the limit and is booked as 1 afterwards
  (`GenericBasketManagerB.sol:131`), and a huge amount wraps. The guards are in the models as they are in the code; no property
  claims the limits.
* An allowance, or an operator, that an executed call leaves behind is good for ever, timelocks and pauses notwithstanding
  (`ParticleSplitter.sol:90`, `:132`): `LockedFundsStay`, `FrozenWalletsKeepFunds`, `BondsHold` and `FrozenBasketsKeepNfts` except it
  by name.
* `migrateToken` overwrites a timelock in force (`ChargedState.sol:569`). `CommitmentsStand` takes the migration by the
  protocol's owner to void the commitment; what comes later has to respect the migrated lock.
* A particle bonded into itself is refused, a cycle of two is not (`ChargedManagers.sol:342`).
* After the creator took his share ahead, a discharge of a part by the owner can block the wallet. The creator takes
  4 of 8; the owner then discharges 1, for which nothing is set off, because the creator has nothing due (`AaveSmartWalletB.sol:210`);
  now half of 3 that are left and 4 that were taken is less than the 4, and `_getInterest` reverts (`:327`), and with it every
  discharge and release, also of the principal, until interest has grown again. `InterestComputable` is therefore a guard of the
  actions of `AaveWallet`, and `AdvanceStaysCovered` tells when this can begin: the percentage is lowered, an executed call
  takes tokens, or the owner is paid when the creator's share has one unit left at most. That one unit is the rounding of
  `_withdraw`, not slack: with amounts whose products pass the ray (44 of interest and a ray of 5, in small) the same
  happens when one unit is left.
* A part of a deposit in a generic wallet cannot be released while its asset has a reward
  program, the whole can (`UniverseRP.sol:176`); `DepositsCanLeave` is about the whole.
* Of two multiplier NFTs that are equal, breaking one takes the multiplier away while the other is still bonded
  (`RewardProgram.sol:220`): `MultipliersComeFromBonds` is an inclusion, that no multiplier is without an NFT, and not
  that every NFT has its multiplier; two different ones multiply by half of their sum (`RewardProgram.sol:404`),
  so that bonding a small one beside a big one lowers it, and a multiplier that was bonded
  and broken before the deposit still counts, up to the length of the deposit
  (`RewardProgram.sol:260`).
* The airdrop throws on every chain but the local one: `merkleDistributor2` is out of scope where
  it is used (`O_community_airdrop.js:104`, `124`), on test networks after the first distributor was
  funded. The transfer of ownership throws before it transfers anything (`9_transfer_owner.js:90`: `owner`).
* `pause-all` unpauses (`A_pause_all.js:15`).
* The fake rewards leave the live escrow with the fake leptons
  (`J_deploy_fake_reward_program.js:181`), and an upgrade after `reward-deploy` registers the old universe again
  (`configProtocol.js:149`), which ends the rewards. `LiveProgramsAreComplete` is about universes that an
  escrow does call.
* When its receipt is lost, a transaction that adds (lepton types, allowances, test tokens, funds from the deployer's balance) is
  done twice, but for those that can land once: `3-k` of the fake rewards mints the whole supply
  (`J_deploy_fake_reward_program.js:253`), after which `Ionx.sol:72` refuses for a year, and `3-m` uses up the allowance of
  `3-l`. `executeTx` sends them again without end (`executeTx.js:59-62`), and the script hangs; `AgendaCompletes` excepts that. In
  `mint-ionx` and `migrate-leptons` the second attempt throws instead, at every rerun.

### Bounds, and why they suffice

* *Particles, people, managers.* Every mapping is keyed by particle, so interactions need
  a second particle only where one goes into another. Two people show former and present owners; a third is an operator
  of neither. Two managers show what one id can name in turn.
* *Blocks.* A lock is before, at or after its block: three blocks show it set, running and
  lapsed, and a second one set after it.
* *Amounts.* 1 and 2 (and 4) tell a part from the whole, and below, at and above a cap apart. The percentage scale
  is 2 and the ray 1000 in `AaveWallet`, so that half a unit of interest is already a
  rounding.
* *Words* have two bits in `bond_books`, so that counters wrap within a few bonds.
* *Rewards.* Three blocks tell a stake of length 0, 1 and 2 apart, and a multiplier that is
  bonded before, with or after the deposit. An interest of 10 and a fund of 15 let a claim be covered, covered
  in part, and not at all, and a second claim come on top of one that waits. Three leptons with two
  values show one, two and twice the same; the sets of five and six that `TotalMultiplier` treats
  apart are not reached by the run, but what they come to is checked for the six lepton types
  (`TotalsInScale`).
* *Scripts.* Two or three instances of every contract are the ones of the first run and of
  each rerun. One fault at any step of whole agendas, and two in the single commands that
  change a live protocol, so that a rerun or a retry may fail itself. `MaxInstances`, `MaxFaults` (of
  faults and of reruns) and `MaxUserChanges` bound the environment, not the code; `Deploy` waits
  where instances run out, which only runs with more reruns than `MaxInstances` allows would notice.
* `MaxBlock`, `MaxDeposit`, `MaxClaim`, `MaxFund`, `MaxPrincipal`, `MaxAccrued`, `MaxDrawn` and the `...Choices`, `LockNfts`,
  `PermContracts`, `StrayNfts`, `StrayBaskets` sets are bounds of the instances and of nothing in the code.
  The proofs use none of them. In `bond_locks` and `bond_rules` gifts to a basket, calls
  out of it and rescues are about the second particle in a basket of the first, while both bond into each other. The runs
  with pauses have the calls through `ParticleSplitter`, and the allowances and operators they leave.

### Fairness and liveness

In the models of contracts none is assumed, and there are no liveness properties: nothing in the code
obliges anyone to send a transaction, and no contract acts by itself. What must *remain possible*
is a state predicate (`DepositsCanLeave`).

The scripts do have an obligation. `Fairness == WF_vars(Advance)` in `ScriptRunner` says that a running script
goes on (nothing in it waits for anything but its own transactions), that `executeTx` tries again
until a transaction is confirmed (its `catch` calls it again, without a limit), and that the operator
starts what is left to do and starts again what failed, as long as reruns are left. Faults are not fair: they
may happen, `MaxFaults` times. Under it

* `DepositsResume`: the window in which the escrow's universe is refused by its program, and
  with it every deposit of the asset, closes again;
* `AgendaCompletes`: the agenda is completed, or `executeTx` hangs from some time on. Nobody is obliged to notice
  that a process hangs and to end it; a `Crash`, after which the operator goes on, may.

(`ImplementsOrderedSteps` is a safety property: a behaviour of `OrderedSteps`, that is, nothing is left out.) Whether a script completes when it throws by itself is not a matter of fairness, so the agendas of `programs` have
none that does.

## 4. The proofs

Checked by `tlapm` with no assumption but the modules' `ASSUME`s and the hypotheses that a theorem
states itself, for any number of particles, people, contracts, managers, ids, and for any amounts
and limits; those about the scripts for any scripts that keep to the assumptions on plans.

| Hypothesis | of | why it is there |
|---|---|---|
| finite sets of particles (and people, managers) | `TokensKept`, `TotalsTrue` | what is added up or counted is finite, as it is on a chain |
| `Assets = {a}` | `CreatorShareBounded`, `AdvancesStayCovered` | what the creator took is one number for all assets: with two, the code breaks the first (run `overpaid`), and an advance on one asset uncovers the other |
| `MultipliersInScale` | `MultipliersAdd` | `RewardProgram` believes any multiplier its owner sets; those of the repository are in scale, which `MCRewardProgram` evaluates (`PresetsInScale`) |

**ChargedStateProofs.** The invariant is `HIInv`. The safety properties are not inductive:
`CommitmentsStand` needs `LiveCommitments` (what lapses is void, so that a relock after expiry
breaks no promise), `WithdrawalsByConsent` needs to know that approvals that are stored were
given (`ApprovalsWereGiven`) and that particles that are open were opened
(`OpenWasOpened`). Frame lemmas say which transactions touch timelocks
(`TimelockFrame`), which touch approvals (`AccessFrame`) and what a withdrawal shows
(`WithdrawFrame`); the inductive step combines them.

`WithdrawalsRespectCommitments` is `CommitmentsStand` seen from a withdrawal: the gate asks for a lock that is
not running, and a commitment that stands has one.

* `StateTypeCorrect` (of the contract by itself), `TypeCorrect`, `TimelocksHold`, `WithdrawalsWait`,
  `ConsentHolds`, `LocksHaveHolders`.

**NumberLemmas** is about numbers and not about this system: sums over finite sets (`SumFunction` of the
community modules), maxima and minima, quotients and remainders, words that wrap (`SumWraps`). The
library computes a sum with a fold, whose defining equation no theorem of the library gives for an operator
as parameter. It is derived here from the definition itself: `AddsUp(g, f, S)` says that `g` is the
sum of `f` over every subset of `S`, that such a `g` exists and that any two agree is proved by
taking a smallest finite set that is a counterexample (`MinimalSubset`). `SumChange`, `SumMoves` and `SumSame` are
what the books need: the sum after one, or two, or no entries have changed.

**ParticleEscrowProofs.** First refinement: every step of the escrow is a step of the gate or
leaves the gate alone (`ENextIsHNext`), so `GateImplemented == ESpec => HSpec`, and every
theorem about the gate holds of the escrow. Then `EInv`, types and `Backed`, one lemma per
group of actions. The action properties combine the two: only a release takes
tokens out of a wallet or gives an allowance, but for what is taken from an allowance (`TakerPasses`), a release passes the gate, and no commitment runs when
something passes (`GatePassedUnlocked`). `Conservation` is a sum over wallets and people: every action
moves an amount from one place of the sum to another, and `HeldBy` reads the wallets
as one function, so that an action changes it in one place.

* `GateImplemented`, `EscrowTypeCorrect`, `WalletsBacked`, `FundsStayLocked`, `FrozenFunds`,
  `TokensKept`.

**CovalentBondsProofs.** The bonds are the second refinement of the gate: `BNextIsHNext`, hence
`BondsImplementGate`. The invariant `BTypes` is needed because only a registered manager has
baskets: what `IsManagerEnabled` lets through is in `Managers`. `LeaverPasses` says how an NFT can
leave a basket at all, `OpenerPasses` how a basket gets an operator, and `BondsHoldFast` and `FrozenBonds` follow from them, the first with the
gate's invariant. `BooksTrue` is inductive together with the types: an NFT that moves by a bond
takes its count from 0 to 1 or back (`BookedMoves`), one that moves otherwise is marked
(`StrayMoves`), and everything else moves nothing in or out of a basket (`UnbookedMoves`); it needs
that no two particles or managers share a basket (`BasketFacts`) and that a word holds at least 0 and 1.
`TotalsAddUp` compares a word with a sum of words: adding to a counter and to the total wraps
differently, and the two agree modulo the size of a word (`SumWraps`).

* `BondsTypeCorrect`, `BondsImplementGate`, `BondsHoldFast`, `FrozenBonds`, `BooksTrue`, `TotalsTrue`.

**AaveWalletProofs.** The invariant is `WalletInv`. `_withdraw` has a branch for interest and one for the
principal, each of which settles what the creator took ahead or does not; all of them are shown to be one thing, a
`Payment`, that pays owner and creator out of interest and only then touches the principal
(`InterestPayment`, `PrincipalPayment`, `WithdrawPays`). `DepositsBelongToOwner` is not inductive: it needs
`PaidFromInterest`, that what the creator got and what is still unpaid never exceed what accrued. For one asset,
`ShareOf` bounds the creator's share three times: of all that accrued, of what accrued without the part he took ahead,
and of the interest that both have been paid. The last one is what a division that rounds down preserves
(`DivBounds`). `AdvancesStayCovered` looks at the other side of the same divisions: how much less than the exact proportion
the creator is set off. Two roundings lose at most two units (`RatioLosesLittle`), the share itself rounds down by less than
one, so an advance at least two units within the share stays within the share of what is left (`RestIsCovered`); an advance
within the share, interest that grows and a percentage that rises keep it there (`AdvanceStaysWithinShare`, `GrowthKeepsCover`).

* `WalletTypeCorrect`, `TokensConserved`, `PrincipalBacked`, `DepositsStayOwners`, `DischargesAreInterest`,
  `CreatorShareBounded`, `AdvancesStayCovered`.

**ChargedManagersProofs** has what both share: the registry and the rules keep their types
and are no transactions of the gate.

**ScriptRunnerProofs.** `TypeOK` is its own inductive invariant, because it contains `InPlace`: the process is
within the script that the operator has in progress, and not past the transaction it skips to. Its
hard case is the end of the skipping (`SkippedIsAhead`: every transaction before `skipTo` is skipped, so that
`pc` cannot pass it). `WiresAreDeployed` needs more, `WInv`: what the process holds in `mem` is deployed, and it holds
whatever the script has loaded or deployed up to `pc`. The second half rests on the assumption `LoadsFirst`, that a
script uses nothing before it has loaded it, which TLC evaluates for the scripts of the
repository. `Ordering` is the refinement: each action is a step of `OrderedSteps`, or a restart, or
a stutter, under `Prefix` (`OtherStepsInOrder`, `NothingDone`, one case per action).

The migration has two. `TInv` adds to `TrackedIsMigrated` that a process that is about to track a record has
sent it (`SentBefore`). `ChangesAreKept` is a count: a record that is migrated, not tracked, and not about to be
tracked (`Pending`) may be overwritten later, and only a fault makes one; so `FInv` counts overwritings together with
those that may still happen, `overwritten + Cardinality(Pending) <= faults`.

`ProtocolIsWired` speaks of the end of a command, and its invariant `CInv` of everything before: the process holds the
recorded instance of what it has loaded or saved and not deployed since (`Current`); a connection made by a step that is
done, with no later record of either end in the command, stands (`MadeHold`), where *done* is what
`Prefix` counts, so that a script that is resumed in the middle keeps what it did and one that is run again
does not; a command that saves no contract of the protocol leaves it whole (`KeptWhole`); and the commands left to
do are of one of the two shapes (`Shaped`). When a command that connects has ended, every step of it is done.

`LiveProgramsAreComplete` relates what a universe is told to what its program is told, by transactions of which any
may be the last one before a crash. `LInv` adds what the script in progress has achieved: each connection that it has made once
and for all stands (`Linked`: a script that no one may resume in the middle has skipped nothing), and no escrow calls the
universe it has deployed before it says so itself (`Uncalled`: a new instance is higher than all that is wired). A
transaction that makes a universe live finds it complete by the first (`LandCompletes`), and one that would change the
connections of a live universe would need to hold it, against the second (`LandKeepsLive`).

`OrphansAreFaults` counts, and the orphans alone are no inductive count: a funded instance may become one when a later run
replaces its record. `AtRisk` holds the orphans and the funded instances whose record the command will make
again, and its size never exceeds the faults. No step of a script adds to it (`RiskStep`, `RiskSave`), nor does a start, an
end or a rerun (`RiskEnter`); a process that dies adds at most one (`RiskAbort`, `OneAtStake`), because a command remakes at
most one contract, and of that one either the instance not recorded yet or the recorded one is exposed; it does not fail by itself, by a
`throw` or a transaction that is refused (`Fails`). For this the process
pays only what it has deployed and not recorded, or the recorded instance (`PaidIsRecorded`), what is not recorded yet is newer
than the record (`Newest`), commands that are not started have paid nothing that they will record (`LaterUnpaid`), what a command has
saved so far is recorded (`SavedIsRecorded`), and so the loads of a command that remakes something do not fail (`RemakesRun`).

* `Typing`, `Wiring`, `Ordering`, `TrackingIsTrue`,
  `OverwritesAreFaults`, `ProtocolStaysWired`, `RewardsStartComplete`, `OrphansCostFaults`.

**RewardProgramProofs.** `DepositsLeave` is about stakes that name a manager that is none: the invariant `SInv`
has the shape of the stakes, and that a stake which has begun names a manager and an asset
(`StakesNamed`). `MultipliersAreBonded` is inductive as it stands with the types it needs. Both leave
`TotalMultiplier` folded: what it comes to is nothing their arguments depend on. `TypeOK` does depend on it, and on
`StakesSound`: stakes are of known assets and have begun, and the multipliers of a stake are finitely many. `MultipliersAdd`
opens it: its sets of up to four, of five and of six multipliers come to between one and ten
(`TotalsInScale`), and the multiplier of every stake stays there (`InScale`). `RewardsAreSettled` needs
nothing but the types: a claim that is dropped was paid, or the fund is empty.

* `RewardTypeCorrect`, `DepositsLeave`, `MultipliersAreBonded`, `MultipliersAdd`, `RewardsSettle`.

Every safety property of a passing run is stated by a theorem; `CreatorNeverOverpaid` and
`AdvanceStaysCovered`, which are false for several assets, by one for a single asset. Only model-checked, and out of the prover's reach here, is liveness under
fairness: `DepositsResume` and `AgendaCompletes`.

## 5. Not modelled, and the plan

*Modelled*: gate, escrow, bonds, Aave wallets, rewards, scripts; *proved*: what section 4 lists.

Next, in this order:

1. `Staking` and `YieldFarm`: checkpoints and epochs as functions, against the reference
   definition of an epoch's balance; pool sizes as sums; harvests within budget.
2. `ProtonSale`: listing, temporary lock, purchase, royalties, on top of `ChargedState`.
3. `MerkleClaims` (distribution and vesting), `Leptons`.
4. The A baskets as a second implementation of what `CovalentBonds` promises.

Left out for good: hardhat's configuration, verification of sources and the helpers of the
tests, in which nothing of the protocol's state changes.
