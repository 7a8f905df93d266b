------------------------ MODULE ChargedStateHistory -------------------------
(***************************************************************************)
(* The promises that ChargedState makes to the people who use it, stated   *)
(* over history variables that the code does not have: what was promised   *)
(* is read off the transactions (lastTx and the parameters they leave in   *)
(* the state), never off the mappings that are meant to keep the promise.  *)
(***************************************************************************)
EXTENDS ChargedState

VARIABLES
    commitments,  \* [k][n]: timelocks accepted, not yet expired or taken back
    consents,     \* [k][n][o]: whom o, or an operator of o, ever approved for k
    opened        \* [k]: the NFTs whose owner last left k open to everyone

historyVars == <<commitments, consents, opened>>
hvars == <<vars, historyVars>>

Commitment == [by : Addresses, until : Nat]

HInit ==
    /\ Init
    /\ commitments = [k \in Kinds |-> [n \in Nfts |-> {}]]
    /\ consents = [k \in Kinds |-> [n \in Nfts |-> [o \in Holders |-> {}]]]
    /\ opened = [k \in Kinds |-> {}]

\* The transaction that ends in the next state is a set*Timelock of k on n.
LocksNow(k, n) == lastTx'.event = "timelock" /\ lastTx'.kind = k /\ lastTx'.nft = n

\* c is void: it lapsed, its maker took it back, or the protocol's owner
\* overwrote the release timelock in a migration.
Void(c, k, n) ==
    \/ c.until <= block'
    \/ LocksNow(k, n) /\ lastTx'.by = c.by /\ unlockBlock'[k][n] = 0
    \/ k = "release" /\ lastTx'.event = "migrate" /\ lastTx'.nft = n

Made(k, n) ==
    IF LocksNow(k, n) /\ unlockBlock'[k][n] > block'
    THEN {[by |-> lastTx'.by, until |-> unlockBlock'[k][n]]}
    ELSE {}

\* The signer of an access transaction acts for the NFT's current owner.
ActsForOwner(n) ==
    /\ lastTx'.event = "access"
    /\ lastTx'.nft = n
    /\ lastTx'.by = owner[n] \/ <<owner[n], lastTx'.by>> \in Operators

\* Who is approved in this transaction, by its owner, to withdraw from n.
GivenNow(k, n, o) ==
    IF ActsForOwner(n) /\ o = owner[n]
    THEN {p \in Senders : \E c \in Holders :
             approval'[k][n][c] = p /\ approval[k][n][c] # p}
    ELSE {}

\* What the transaction that ends in the next state adds to the histories.
Remember ==
    /\ commitments' = [k \in Kinds |-> [n \in Nfts |->
                          {c \in commitments[k][n] : ~Void(c, k, n)} \cup Made(k, n)]]
    /\ consents' = [k \in Kinds |-> [n \in Nfts |-> [o \in Holders |->
                       consents[k][n][o] \cup GivenNow(k, n, o)]]]
    /\ opened' = [k \in Kinds |-> {n \in Nfts :
                     IF ActsForOwner(n) THEN AllowPerm[k] \in actionPerms'[n] ELSE n \in opened[k]}]

HNext == Next /\ Remember

HSpec == HInit /\ [][HNext]_hvars

HTypeOK ==
    /\ TypeOK
    /\ commitments \in [Kinds -> [Nfts -> SUBSET Commitment]]
    /\ consents \in [Kinds -> [Nfts -> [Holders -> SUBSET Senders]]]
    /\ opened \in [Kinds -> SUBSET Nfts]

-----------------------------------------------------------------------------
(* Properties *)

\* Whatever locks, relocks, transfers and settings follow, a timelock that
\* was accepted stands until its block: at any time the mappings still hold
\* the NFT at least that long and still name its maker, who alone may lift it
\* (set*Timelock; migrateToken is the one documented override).
CommitmentsStand ==
    \A k \in Kinds, n \in Nfts : \A c \in commitments[k][n] :
        unlockBlock[k][n] >= c.until /\ lockedBy[k][n] = c.by

\* Nothing leaves an NFT while somebody's timelock on that kind of withdrawal
\* is running, whoever asks: owner, contract, approved operator or, where the
\* owner opened the NFT to everyone, anyone (ChargedManagers._validateState).
WithdrawalsRespectCommitments ==
    lastTx.event = "withdraw" =>
        \A c \in commitments[lastTx.kind][lastTx.nft] : c.until <= block

\* Only the owner, the NFT's own contract, someone an operator or the owner
\* approved while that owner held the NFT, or anyone once it was opened, gets
\* through the gate: a former owner's approvals are dead after a transfer.
WithdrawalsByConsent ==
    lastTx.event = "withdraw" =>
        LET k == lastTx.kind
            n == lastTx.nft
            s == lastTx.by
        IN \/ s = lastTx.holder
           \/ s = ContractOf[n]
           \/ s \in consents[k][n][lastTx.holder]
           \/ n \in opened[k]

\* What makes the promises inductive: commitments are about the future, an
\* approval that is stored was given by the owner it is stored under, and an
\* NFT that is open to everyone was opened by an owner.
LiveCommitments ==
    \A k \in Kinds, n \in Nfts : \A c \in commitments[k][n] : c.until > block

ApprovalsWereGiven ==
    \A k \in Kinds, n \in Nfts, o \in Holders :
        approval[k][n][o] # NullAddr => approval[k][n][o] \in consents[k][n][o]

OpenWasOpened ==
    \A k \in Kinds, n \in Nfts : AllowPerm[k] \in actionPerms[n] => n \in opened[k]

\* Every timelock that is set, in force or lapsed, names someone who can lift it.
NoOrphanLock ==
    \A k \in Kinds, n \in Nfts : unlockBlock[k][n] > 0 => lockedBy[k][n] # NullAddr

HIInv ==
    /\ HTypeOK
    /\ LiveCommitments
    /\ CommitmentsStand
    /\ ApprovalsWereGiven
    /\ OpenWasOpened
    /\ WithdrawalsRespectCommitments
    /\ WithdrawalsByConsent
    /\ NoOrphanLock
=============================================================================
