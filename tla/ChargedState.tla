---------------------------- MODULE ChargedState ----------------------------
(***************************************************************************)
(* Who may discharge, release, break the bonds of, or lock a particle, and *)
(* when: the state kept by contracts/ChargedState.sol, the gate that       *)
(* contracts/ChargedManagers.sol derives from it, and the three flags of   *)
(* contracts/ChargedSettings.sol that it reads.                            *)
(*                                                                         *)
(* An NFT is one value of Nfts and stands for a pair (contract, token id); *)
(* the code keys every mapping by the keccak256 hash of that pair.  The    *)
(* three kinds of withdrawal ("discharge", "release", "breakBond") have    *)
(* three textually identical copies of every mapping and handler; here     *)
(* they are one function over Kinds.                                       *)
(*                                                                         *)
(* Every action is one transaction that succeeds; a transaction whose      *)
(* require fails reverts and changes nothing.                              *)
(***************************************************************************)
EXTENDS Integers

CONSTANTS
    Nfts,           \* the particles
    Contracts,      \* NFT contracts (and other contracts with an address)
    Accounts,       \* externally owned accounts
    ContractOf,     \* the contract each NFT belongs to
    Operators,      \* pairs <<o, p>>: the ERC721 isApprovedForAll(o, p)
    NullAddr,       \* address(0)
    Kinds,          \* the kinds of withdrawal that are modelled
    MaxBlock,        \* bound: the last block number
    LockNfts,        \* bound: the NFTs whose locks change
    PermContracts,   \* bound: the contracts whose timelock permissions change
    OperatorChoices, \* bound: whom owners try to approve
    PermChoices,     \* bound: the permission flags owners touch
    UnlockChoices,   \* bound: the unlock blocks asked for
    TempLockChoices  \* bound: the values of _tempLockExpiryBlocks

Senders == Accounts \cup Contracts
Addresses == Senders \cup {NullAddr}
Holders == Accounts \cup {NullAddr}   \* whom ownerOf, or its failure, can name
AllKinds == {"discharge", "release", "breakBond"}
ApprovalKinds == Kinds \cup {"timelock"}

\* The five PERM_* flags; an action permission word is a set of them.
AllowPerm == [k \in AllKinds |->
                CASE k = "discharge" -> "allowDischarge"
                  [] k = "release"   -> "allowRelease"
                  [] k = "breakBond" -> "allowBreakBond"]
Perms == {"allowDischarge", "allowRelease", "allowBreakBond", "restrictEnergize", "restrictBond"}

ASSUME AddressAssumption ==
    /\ Accounts \cap Contracts = {}
    /\ NullAddr \notin Senders
    /\ ContractOf \in [Nfts -> Contracts]
    /\ Operators \subseteq Accounts \X Senders
    /\ Kinds \subseteq AllKinds

ASSUME BoundAssumption ==
    /\ MaxBlock \in Nat
    /\ LockNfts \subseteq Nfts
    /\ PermContracts \subseteq Contracts
    /\ OperatorChoices \subseteq Addresses
    /\ PermChoices \subseteq Perms
    /\ UnlockChoices \subseteq Nat
    /\ TempLockChoices \subseteq Nat

VARIABLES
    block,          \* block.number
    owner,          \* ERC721 ownerOf; NullAddr: not minted, or burned
    approval,       \* _nft{Discharge,Release,BreakBond,Timelock}Approval
    actionPerms,    \* _nftActionPerms
    unlockBlock,    \* _nft{Discharge,Release,BreakBond}TimelockUnlockBlock
    lockedBy,       \* _nft{Discharge,Release,BreakBond}TimelockLockedBy
    tempLockExpiry, \* _nftTempLockExpiry
    timelockAny,    \* ChargedSettings: contracts with PERM_TIMELOCK_ANY_NFT
    timelockOwn,    \* ChargedSettings: contracts with PERM_TIMELOCK_OWN_NFT
    tempLockBlocks, \* ChargedSettings._tempLockExpiryBlocks
    lastTx          \* the last transaction's event: name, kind, nft, sender and,
                    \*   of a withdrawal, who held the NFT

lockVars == <<unlockBlock, lockedBy, tempLockExpiry>>
accessVars == <<approval, actionPerms>>
settingVars == <<timelockAny, timelockOwn, tempLockBlocks>>
vars == <<block, owner, accessVars, lockVars, settingVars, lastTx>>

Events == {"none", "access", "timelock", "tempLock", "migrate", "settings",
           "transfer", "withdraw"}
Tx(event, kind, n, s) ==
    [event |-> event, kind |-> kind, nft |-> n, by |-> s, holder |-> NullAddr]
NoTx == Tx("none", "none", NullAddr, NullAddr)
Transactions == [event : Events, kind : Kinds \cup {"none"},
                 nft : Nfts \cup {NullAddr}, by : Addresses, holder : Holders]

TypeOK ==
    /\ block \in Nat
    /\ owner \in [Nfts -> Holders]
    /\ approval \in [ApprovalKinds -> [Nfts -> [Holders -> Addresses]]]
    /\ actionPerms \in [Nfts -> SUBSET Perms]
    /\ unlockBlock \in [Kinds -> [Nfts -> Nat]]
    /\ lockedBy \in [Kinds -> [Nfts -> Addresses]]
    /\ tempLockExpiry \in [Nfts -> Nat]
    /\ timelockAny \subseteq Contracts
    /\ timelockOwn \subseteq Contracts
    /\ tempLockBlocks \in Nat
    /\ lastTx \in Transactions

Init ==
    /\ block = 1
    /\ owner \in [Nfts -> Holders]
    /\ approval = [k \in ApprovalKinds |->
                      [n \in Nfts |-> [o \in Holders |-> NullAddr]]]
    /\ actionPerms = [n \in Nfts |-> {}]
    /\ unlockBlock = [k \in Kinds |-> [n \in Nfts |-> 0]]
    /\ lockedBy = [k \in Kinds |-> [n \in Nfts |-> NullAddr]]
    /\ tempLockExpiry = [n \in Nfts |-> 0]
    /\ timelockAny = {}
    /\ timelockOwn = {}
    /\ tempLockBlocks = 0
    /\ lastTx = NoTx

-----------------------------------------------------------------------------
(* Who is who *)

\* TokenInfoProxy.isNFTOwnerOrOperator
IsNFTOwnerOrOperator(n, s) == s = owner[n] \/ <<owner[n], s>> \in Operators

\* mutant of IsApprovedFor: approvals are not keyed by the holder who gave them
IsApprovedByAnyHolder(k, n, s) ==
    \/ s = ContractOf[n]
    \/ s = owner[n]
    \/ \E o \in Holders : s = approval[k][n][o]

\* _isApprovedForDischarge, _isApprovedForRelease, _isApprovedForBreakBond
IsApprovedFor(k, n, s) ==
    \/ s = ContractOf[n]
    \/ s = owner[n]
    \/ s = approval[k][n][owner[n]]

\* _isApprovedForTimelock
IsApprovedForTimelock(n, s) ==
    \/ s \in timelockAny
    \/ s \in timelockOwn /\ s = ContractOf[n]
    \/ s = owner[n]
    \/ s = approval["timelock"][n][owner[n]]

\* mutant of ValidateState: what is open to everyone is open in spite of locks
ValidateStateOpenFirst(k, n, s) ==
    \/ AllowPerm[k] \in actionPerms[n]
    \/ /\ IsApprovedFor(k, n, s)
       /\ unlockBlock[k][n] > 0 => block >= unlockBlock[k][n]
       /\ tempLockExpiry[n] > 0 => block >= tempLockExpiry[n]

\* ChargedManagers._validateState on get{Discharge,Release,BreakBond}State
ValidateState(k, n, s) ==
    /\ AllowPerm[k] \in actionPerms[n] \/ IsApprovedFor(k, n, s)
    /\ unlockBlock[k][n] > 0 => block >= unlockBlock[k][n]
    /\ tempLockExpiry[n] > 0 => block >= tempLockExpiry[n]

-----------------------------------------------------------------------------
(* Approvals and permissions, by the owner of the NFT or its operators *)

SetApproval(s, n, k, operator) ==
    /\ IsNFTOwnerOrOperator(n, s)
    /\ operator # owner[n]
    /\ approval' = [approval EXCEPT ![k][n][owner[n]] = operator]
    /\ lastTx' = Tx("access", "none", n, s)
    /\ UNCHANGED <<block, owner, actionPerms, lockVars, settingVars>>

SetApprovalForAll(s, n, operator) ==
    /\ IsNFTOwnerOrOperator(n, s)
    /\ operator # owner[n]
    /\ approval' = [k \in ApprovalKinds |-> [approval[k] EXCEPT ![n][owner[n]] = operator]]
    /\ lastTx' = Tx("access", "none", n, s)
    /\ UNCHANGED <<block, owner, actionPerms, lockVars, settingVars>>

\* setPermsForRestrictCharge, ...AllowDischarge, ...AllowRelease, ...
SetPerms(s, n, perm, state) ==
    /\ IsNFTOwnerOrOperator(n, s)
    /\ actionPerms' = [actionPerms EXCEPT ![n] = IF state THEN @ \cup {perm} ELSE @ \ {perm}]
    /\ lastTx' = Tx("access", "none", n, s)
    /\ UNCHANGED <<block, owner, approval, lockVars, settingVars>>

-----------------------------------------------------------------------------
(* Locks *)

\* set{Discharge,Release,BreakBond}Timelock, first branch
ClearTimelock(s, n, k) ==
    /\ lockedBy[k][n] = s
    /\ unlockBlock' = [unlockBlock EXCEPT ![k][n] = 0]
    /\ lockedBy' = [lockedBy EXCEPT ![k][n] = NullAddr]
    /\ lastTx' = Tx("timelock", k, n, s)
    /\ UNCHANGED <<block, owner, accessVars, tempLockExpiry, settingVars>>

\* mutant of SetTimelock: the running lock is not checked
SetTimelockAnytime(s, n, k, until) ==
    /\ ~(until = 0 /\ lockedBy[k][n] = s)
    /\ IsApprovedForTimelock(n, s)
    /\ unlockBlock' = [unlockBlock EXCEPT ![k][n] = until]
    /\ lockedBy' = [lockedBy EXCEPT ![k][n] = s]
    /\ lastTx' = Tx("timelock", k, n, s)
    /\ UNCHANGED <<block, owner, accessVars, tempLockExpiry, settingVars>>

\* mutant of SetTimelock: the blocks that are left are stored, not the block
SetTimelockRelative(s, n, k, until) ==
    /\ ~(until = 0 /\ lockedBy[k][n] = s)
    /\ IsApprovedForTimelock(n, s)
    /\ block >= unlockBlock[k][n]
    /\ unlockBlock' = [unlockBlock EXCEPT ![k][n] = until - block]
    /\ lockedBy' = [lockedBy EXCEPT ![k][n] = s]
    /\ lastTx' = Tx("timelock", k, n, s)
    /\ UNCHANGED <<block, owner, accessVars, tempLockExpiry, settingVars>>

\* set{Discharge,Release,BreakBond}Timelock, second branch
SetTimelock(s, n, k, until) ==
    /\ ~(until = 0 /\ lockedBy[k][n] = s)
    /\ IsApprovedForTimelock(n, s)
    /\ block >= unlockBlock[k][n]
    /\ unlockBlock' = [unlockBlock EXCEPT ![k][n] = until]
    /\ lockedBy' = [lockedBy EXCEPT ![k][n] = s]
    /\ lastTx' = Tx("timelock", k, n, s)
    /\ UNCHANGED <<block, owner, accessVars, tempLockExpiry, settingVars>>

\* setTemporaryLock: the sender is the NFT's own contract
SetTemporaryLock(n, isLocked) ==
    /\ tempLockExpiry' = [tempLockExpiry EXCEPT ![n] =
                             IF ~isLocked THEN 0
                             ELSE IF @ = 0 THEN block + tempLockBlocks ELSE @]
    /\ lastTx' = Tx("tempLock", "none", n, ContractOf[n])
    /\ UNCHANGED <<block, owner, accessVars, unlockBlock, lockedBy, settingVars>>

\* mutant of MigrateToken: an expiry is migrated with whatever locker it has
MigrateTokenUnnamed(n, releaseExpiry, releaseBy, tempExpiry) ==
    /\ "release" \in Kinds
    /\ LET migrated == releaseExpiry > block
       IN /\ unlockBlock' = [unlockBlock EXCEPT !["release"][n] =
                                IF migrated THEN releaseExpiry ELSE @]
          /\ lockedBy' = [lockedBy EXCEPT !["release"][n] =
                             IF migrated THEN releaseBy ELSE @]
          /\ lastTx' = Tx(IF migrated THEN "migrate" ELSE "none", "none", n, NullAddr)
    /\ tempLockExpiry' = [tempLockExpiry EXCEPT ![n] = IF tempExpiry > 0 THEN tempExpiry ELSE @]
    /\ UNCHANGED <<block, owner, accessVars, settingVars>>

\* migrateToken, by the protocol's owner
MigrateToken(n, releaseExpiry, releaseBy, tempExpiry) ==
    /\ "release" \in Kinds
    /\ LET migrated == releaseExpiry > block /\ releaseBy # NullAddr
       IN /\ unlockBlock' = [unlockBlock EXCEPT !["release"][n] =
                                IF migrated THEN releaseExpiry ELSE @]
          /\ lockedBy' = [lockedBy EXCEPT !["release"][n] =
                             IF migrated THEN releaseBy ELSE @]
          /\ lastTx' = Tx(IF migrated THEN "migrate" ELSE "none", "none", n, NullAddr)
    /\ tempLockExpiry' = [tempLockExpiry EXCEPT ![n] = IF tempExpiry > 0 THEN tempExpiry ELSE @]
    /\ UNCHANGED <<block, owner, accessVars, settingVars>>

-----------------------------------------------------------------------------
(* Settings, by the protocol's owner *)

SetPermsForTimelockAny(c, state) ==
    /\ timelockAny' = IF state THEN timelockAny \cup {c} ELSE timelockAny \ {c}
    /\ lastTx' = Tx("settings", "none", NullAddr, NullAddr)
    /\ UNCHANGED <<block, owner, accessVars, lockVars, timelockOwn, tempLockBlocks>>

SetPermsForTimelockSelf(c, state) ==
    /\ timelockOwn' = IF state THEN timelockOwn \cup {c} ELSE timelockOwn \ {c}
    /\ lastTx' = Tx("settings", "none", NullAddr, NullAddr)
    /\ UNCHANGED <<block, owner, accessVars, lockVars, timelockAny, tempLockBlocks>>

SetTempLockExpiryBlocks(numBlocks) ==
    /\ tempLockBlocks' = numBlocks
    /\ lastTx' = Tx("settings", "none", NullAddr, NullAddr)
    /\ UNCHANGED <<block, owner, accessVars, lockVars, timelockAny, timelockOwn>>

-----------------------------------------------------------------------------
(* The NFT contract, the chain, and the withdrawals the gate lets through *)

\* external: a mint, a transfer, or a burn; nothing here is told about it
TransferToken(n, to) ==
    /\ to # owner[n]
    /\ owner' = [owner EXCEPT ![n] = to]
    /\ lastTx' = Tx("transfer", "none", n, NullAddr)
    /\ UNCHANGED <<block, accessVars, lockVars, settingVars>>

\* validate{Discharge,Release,BreakBond} as ChargedParticles calls it
PassGate(s, n, k) ==
    /\ ValidateState(k, n, s)
    /\ lastTx' = [event |-> "withdraw", kind |-> k, nft |-> n, by |-> s, holder |-> owner[n]]
    /\ UNCHANGED <<block, accessVars, lockVars, settingVars>>

\* A withdrawal of money from n, and one that moves the NFT x.
Withdraw(s, n, k) == PassGate(s, n, k) /\ UNCHANGED owner

WithdrawNft(s, n, k, x, to) == PassGate(s, n, k) /\ owner' = [owner EXCEPT ![x] = to]

NextBlock ==
    /\ block < MaxBlock
    /\ block' = block + 1
    /\ lastTx' = NoTx
    /\ UNCHANGED <<owner, accessVars, lockVars, settingVars>>

-----------------------------------------------------------------------------
AccessStep ==
    \E s \in Senders, n \in Nfts :
        \/ \E operator \in OperatorChoices :
              \/ \E k \in ApprovalKinds : SetApproval(s, n, k, operator)
              \/ SetApprovalForAll(s, n, operator)
        \/ \E perm \in PermChoices, state \in BOOLEAN : SetPerms(s, n, perm, state)

LockStep ==
    \/ \E s \in Senders, n \in LockNfts, k \in Kinds :
          \/ ClearTimelock(s, n, k)
          \/ \E until \in UnlockChoices : SetTimelock(s, n, k, until)
    \/ \E n \in LockNfts, isLocked \in BOOLEAN : SetTemporaryLock(n, isLocked)

MigrateStep ==
    \E n \in LockNfts, releaseBy \in Addresses, releaseExpiry, tempExpiry \in UnlockChoices :
        MigrateToken(n, releaseExpiry, releaseBy, tempExpiry)

SettingsStep ==
    \/ \E c \in PermContracts, state \in BOOLEAN :
          SetPermsForTimelockAny(c, state) \/ SetPermsForTimelockSelf(c, state)
    \/ \E numBlocks \in TempLockChoices : SetTempLockExpiryBlocks(numBlocks)

\* Everything but the moves of the NFTs and the withdrawals.
GateStep == AccessStep \/ LockStep \/ MigrateStep \/ SettingsStep \/ NextBlock

WithdrawStep ==
    \E s \in Senders, n \in Nfts, k \in Kinds :
        Withdraw(s, n, k) \/ \E x \in Nfts, to \in Accounts : WithdrawNft(s, n, k, x, to)

Next ==
    \/ GateStep
    \/ \E n \in Nfts, to \in Holders : TransferToken(n, to)
    \/ WithdrawStep

Spec == Init /\ [][Next]_vars
=============================================================================
