------------------------- MODULE ChargedStateProofs -------------------------
(***************************************************************************)
(* What holds of ChargedState, and of the promises ChargedStateHistory     *)
(* records, for every set of NFTs, contracts and accounts.                 *)
(***************************************************************************)
EXTENDS ChargedStateHistory, TLAPS

-----------------------------------------------------------------------------
(* Type correctness *)

\* Every state of ChargedState is well typed: initialisation gives every
\* mapping a value of its type.
LEMMA InitTypeOK == Init => TypeOK
<1> SUFFICES ASSUME Init PROVE TypeOK
  OBVIOUS
<1> USE AddressAssumption, BoundAssumption DEF Init
<1>1. block \in Nat /\ owner \in [Nfts -> Holders]
  OBVIOUS
<1>2. approval \in [ApprovalKinds -> [Nfts -> [Holders -> Addresses]]]
  BY DEF Addresses, Holders
<1>3. actionPerms \in [Nfts -> SUBSET Perms]
  OBVIOUS
<1>4. unlockBlock \in [Kinds -> [Nfts -> Nat]] /\ tempLockExpiry \in [Nfts -> Nat]
  OBVIOUS
<1>5. lockedBy \in [Kinds -> [Nfts -> Addresses]]
  BY DEF Addresses, Holders
<1>6. lastTx \in Transactions
  BY DEF NoTx, Tx, Events, Addresses, Holders, Transactions
<1>7. QED
  BY <1>1, <1>2, <1>3, <1>4, <1>5, <1>6 DEF TypeOK

\* The event of a transaction has its type.
LEMMA TxType ==
  ASSUME NEW event \in Events, NEW k \in Kinds \cup {"none"},
         NEW n \in Nfts \cup {NullAddr}, NEW s \in Addresses
  PROVE  Tx(event, k, n, s) \in Transactions
BY DEF Tx, Transactions, Holders

\* Every transaction and every new block keeps the mappings well typed.
LEMMA NextTypeOK == TypeOK /\ [Next]_vars => TypeOK'
<1> SUFFICES ASSUME TypeOK, [Next]_vars PROVE TypeOK'
  OBVIOUS
<1>a. /\ NullAddr \in Addresses /\ Senders \subseteq Addresses
      /\ \A n \in Nfts : ContractOf[n] \in Addresses
      /\ OperatorChoices \subseteq Addresses
  BY AddressAssumption, BoundAssumption DEF Addresses, Senders
<1>b. \A n \in Nfts : owner[n] \in Holders
  BY DEF TypeOK
<1>1. ASSUME NEW s \in Senders, NEW n \in Nfts, NEW operator \in OperatorChoices,
             NEW k \in ApprovalKinds, SetApproval(s, n, k, operator)
      PROVE  TypeOK'
  <2>1. lastTx' \in Transactions
    BY <1>1, <1>a, TxType DEF SetApproval, Events
  <2>2. approval' \in [ApprovalKinds -> [Nfts -> [Holders -> Addresses]]]
    BY <1>1, <1>a, <1>b DEF SetApproval, TypeOK
  <2>3. QED
    BY <1>1, <2>1, <2>2 DEF SetApproval, TypeOK, lockVars, settingVars
<1>2. ASSUME NEW s \in Senders, NEW n \in Nfts, NEW operator \in OperatorChoices,
             SetApprovalForAll(s, n, operator)
      PROVE  TypeOK'
  <2>1. lastTx' \in Transactions
    BY <1>2, <1>a, TxType DEF SetApprovalForAll, Events
  <2>2. approval' \in [ApprovalKinds -> [Nfts -> [Holders -> Addresses]]]
    <3>1. \A k \in ApprovalKinds :
             [approval[k] EXCEPT ![n][owner[n]] = operator] \in [Nfts -> [Holders -> Addresses]]
      BY <1>a, <1>b DEF TypeOK
    <3>2. QED
      BY <1>2, <3>1 DEF SetApprovalForAll
  <2>3. QED
    BY <1>2, <2>1, <2>2 DEF SetApprovalForAll, TypeOK, lockVars, settingVars
<1>3. ASSUME NEW s \in Senders, NEW n \in Nfts, NEW perm \in PermChoices,
             NEW state \in BOOLEAN, SetPerms(s, n, perm, state)
      PROVE  TypeOK'
  <2>1. lastTx' \in Transactions
    BY <1>3, <1>a, TxType DEF SetPerms, Events
  <2>2. actionPerms' \in [Nfts -> SUBSET Perms]
    <3>1. actionPerms[n] \cup {perm} \in SUBSET Perms /\ actionPerms[n] \ {perm} \in SUBSET Perms
      BY BoundAssumption DEF TypeOK
    <3>2. (IF state THEN actionPerms[n] \cup {perm} ELSE actionPerms[n] \ {perm}) \in SUBSET Perms
      BY <3>1
    <3>3. QED
      BY <1>3, <3>2 DEF SetPerms, TypeOK
  <2>3. QED
    BY <1>3, <2>1, <2>2 DEF SetPerms, TypeOK, lockVars, settingVars
<1>4. ASSUME NEW s \in Senders, NEW n \in Nfts, NEW k \in Kinds, ClearTimelock(s, n, k)
      PROVE  TypeOK'
  <2>1. lastTx' \in Transactions
    BY <1>4, <1>a, TxType DEF ClearTimelock, Events
  <2>2. QED
    BY <1>4, <1>a, <2>1 DEF ClearTimelock, TypeOK, accessVars, settingVars
<1>5. ASSUME NEW s \in Senders, NEW n \in Nfts, NEW k \in Kinds,
             NEW until \in UnlockChoices, SetTimelock(s, n, k, until)
      PROVE  TypeOK'
  <2>1. lastTx' \in Transactions
    BY <1>5, <1>a, TxType DEF SetTimelock, Events
  <2>2. until \in Nat
    BY BoundAssumption
  <2>3. QED
    BY <1>5, <1>a, <2>1, <2>2 DEF SetTimelock, TypeOK, accessVars, settingVars
<1>6. ASSUME NEW n \in Nfts, NEW isLocked \in BOOLEAN, SetTemporaryLock(n, isLocked)
      PROVE  TypeOK'
  <2>1. lastTx' \in Transactions
    BY <1>6, <1>a, TxType DEF SetTemporaryLock, Events
  <2>2. tempLockExpiry' \in [Nfts -> Nat]
    <3>1. (IF ~isLocked THEN 0 ELSE IF tempLockExpiry[n] = 0 THEN block + tempLockBlocks
                                    ELSE tempLockExpiry[n]) \in Nat
      BY DEF TypeOK
    <3>2. QED
      BY <1>6, <3>1 DEF SetTemporaryLock, TypeOK
  <2>3. QED
    BY <1>6, <2>1, <2>2 DEF SetTemporaryLock, TypeOK, accessVars, settingVars
<1>7. ASSUME NEW n \in Nfts, NEW releaseBy \in Addresses, NEW releaseExpiry \in UnlockChoices,
             NEW tempExpiry \in UnlockChoices,
             MigrateToken(n, releaseExpiry, releaseBy, tempExpiry)
      PROVE  TypeOK'
  <2> DEFINE migrated == releaseExpiry > block /\ releaseBy # NullAddr
  <2>1. "release" \in Kinds /\ releaseExpiry \in Nat /\ tempExpiry \in Nat
    BY <1>7, BoundAssumption DEF MigrateToken
  <2>2. lastTx' \in Transactions
    BY <1>7, <1>a, TxType DEF MigrateToken, Events
  <2>3. unlockBlock' \in [Kinds -> [Nfts -> Nat]]
    <3>1. CASE migrated
      BY <1>7, <2>1, <3>1 DEF MigrateToken, TypeOK
    <3>2. CASE ~migrated
      BY <1>7, <2>1, <3>2 DEF MigrateToken, TypeOK
    <3>3. QED
      BY <3>1, <3>2
  <2>4. lockedBy' \in [Kinds -> [Nfts -> Addresses]]
    <3>1. CASE migrated
      BY <1>7, <2>1, <3>1 DEF MigrateToken, TypeOK
    <3>2. CASE ~migrated
      BY <1>7, <2>1, <3>2 DEF MigrateToken, TypeOK
    <3>3. QED
      BY <3>1, <3>2
  <2>5. tempLockExpiry' \in [Nfts -> Nat]
    BY <1>7, <2>1 DEF MigrateToken, TypeOK
  <2>6. QED
    BY <1>7, <2>2, <2>3, <2>4, <2>5 DEF MigrateToken, TypeOK, accessVars, settingVars
<1>8. ASSUME NEW c \in Contracts, NEW state \in BOOLEAN,
             SetPermsForTimelockAny(c, state) \/ SetPermsForTimelockSelf(c, state)
      PROVE  TypeOK'
  <2>1. lastTx' \in Transactions
    BY <1>8, <1>a, TxType DEF SetPermsForTimelockAny, SetPermsForTimelockSelf, Events
  <2>2. timelockAny' \subseteq Contracts /\ timelockOwn' \subseteq Contracts
    BY <1>8 DEF SetPermsForTimelockAny, SetPermsForTimelockSelf, TypeOK
  <2>3. QED
    BY <1>8, <2>1, <2>2
    DEF SetPermsForTimelockAny, SetPermsForTimelockSelf, TypeOK, accessVars, lockVars
<1>9. ASSUME NEW numBlocks \in TempLockChoices, SetTempLockExpiryBlocks(numBlocks)
      PROVE  TypeOK'
  <2>1. lastTx' \in Transactions
    BY <1>9, <1>a, TxType DEF SetTempLockExpiryBlocks, Events
  <2>2. QED
    BY <1>9, <2>1, BoundAssumption DEF SetTempLockExpiryBlocks, TypeOK, accessVars, lockVars
<1>10. ASSUME NEW n \in Nfts, NEW to \in Holders, TransferToken(n, to)
       PROVE  TypeOK'
  <2>1. lastTx' \in Transactions
    BY <1>10, <1>a, TxType DEF TransferToken, Events
  <2>2. QED
    BY <1>10, <2>1 DEF TransferToken, TypeOK, accessVars, lockVars, settingVars
<1>11. CASE WithdrawStep
  <2>1. PICK s \in Senders, n \in Nfts, k \in Kinds :
           Withdraw(s, n, k) \/ \E x \in Nfts, to \in Accounts : WithdrawNft(s, n, k, x, to)
    BY <1>11 DEF WithdrawStep
  <2>2. PassGate(s, n, k)
    BY <2>1 DEF Withdraw, WithdrawNft
  <2>3. owner' \in [Nfts -> Holders]
    BY <2>1 DEF Withdraw, WithdrawNft, TypeOK, Holders
  <2>4. lastTx' \in Transactions
    BY <2>2, <1>a, <1>b, TxType DEF PassGate, Events, Transactions
  <2>5. QED
    BY <2>2, <2>3, <2>4 DEF PassGate, TypeOK, accessVars, lockVars, settingVars
<1>12. CASE NextBlock
  <2>1. NoTx \in Transactions
    BY <1>a, TxType DEF NoTx, Events
  <2>2. QED
    BY <1>12, <2>1 DEF NextBlock, TypeOK, accessVars, lockVars, settingVars
<1>13. CASE UNCHANGED vars
  BY <1>13 DEF TypeOK, vars, accessVars, lockVars, settingVars
<1>14. LockNfts \subseteq Nfts /\ PermContracts \subseteq Contracts
  BY BoundAssumption
<1>15. QED
  BY <1>1, <1>2, <1>3, <1>4, <1>5, <1>6, <1>7, <1>8, <1>9, <1>10, <1>11, <1>12, <1>13, <1>14
  DEF Next, GateStep, AccessStep, LockStep, MigrateStep, SettingsStep

\* Type correctness of the access-control state (ChargedState.sol's mappings).
THEOREM StateTypeCorrect == Spec => []TypeOK
<1>1. QED
  BY InitTypeOK, NextTypeOK, PTL DEF Spec

-----------------------------------------------------------------------------
(* The promises *)

\* Only set*Timelock and migrateToken touch the timelocks.
LEMMA TimelockFrame ==
  ASSUME TypeOK, [Next]_vars
  PROVE  \/ UNCHANGED <<unlockBlock, lockedBy>>
         \/ \E s \in Senders, n \in Nfts, k \in Kinds :
               \/ ClearTimelock(s, n, k)
               \/ \E until \in UnlockChoices : SetTimelock(s, n, k, until)
         \/ \E n \in Nfts, by \in Addresses, r, t \in UnlockChoices : MigrateToken(n, r, by, t)
<1>1. CASE AccessStep
  BY <1>1 DEF AccessStep, SetApproval, SetApprovalForAll, SetPerms, lockVars
<1>2. CASE LockStep
  BY <1>2, BoundAssumption DEF LockStep, SetTemporaryLock
<1>3. CASE MigrateStep
  BY <1>3, BoundAssumption DEF MigrateStep
<1>4. CASE SettingsStep
  BY <1>4 DEF SettingsStep, SetPermsForTimelockAny, SetPermsForTimelockSelf,
              SetTempLockExpiryBlocks, lockVars
<1>5. CASE \E n \in Nfts, to \in Holders : TransferToken(n, to)
  BY <1>5 DEF TransferToken, lockVars
<1>6. CASE WithdrawStep
  BY <1>6 DEF WithdrawStep, Withdraw, WithdrawNft, PassGate, lockVars
<1>7. CASE NextBlock
  BY <1>7 DEF NextBlock, lockVars
<1>8. CASE UNCHANGED vars
  BY <1>8 DEF vars, lockVars
<1>9. QED
  BY <1>1, <1>2, <1>3, <1>4, <1>5, <1>6, <1>7, <1>8 DEF Next, GateStep

\* A commitment that a transaction does not void is kept by that transaction:
\* relocking is refused while it runs and clearing takes its maker.
LEMMA CommitmentKept ==
  ASSUME TypeOK, [Next]_vars,
         NEW k \in Kinds, NEW n \in Nfts, NEW c \in Commitment,
         c.until > block, unlockBlock[k][n] >= c.until, lockedBy[k][n] = c.by,
         ~Void(c, k, n)
  PROVE  unlockBlock'[k][n] >= c.until /\ lockedBy'[k][n] = c.by
<1> USE DEF TypeOK, Commitment
<1>1. CASE UNCHANGED <<unlockBlock, lockedBy>>
  BY <1>1
<1>2. ASSUME NEW s \in Senders, NEW m \in Nfts, NEW j \in Kinds, ClearTimelock(s, m, j)
      PROVE  unlockBlock'[k][n] >= c.until /\ lockedBy'[k][n] = c.by
  <2>1. CASE j = k /\ m = n
    <3>1. lastTx'.by = c.by /\ LocksNow(k, n) /\ unlockBlock'[k][n] = 0
      BY <1>2, <2>1 DEF ClearTimelock, LocksNow, Tx
    <3>2. QED
      BY <3>1 DEF Void
  <2>2. CASE ~(j = k /\ m = n)
    BY <1>2, <2>2 DEF ClearTimelock
  <2>3. QED
    BY <2>1, <2>2
<1>3. ASSUME NEW s \in Senders, NEW m \in Nfts, NEW j \in Kinds, NEW until \in UnlockChoices,
             SetTimelock(s, m, j, until)
      PROVE  unlockBlock'[k][n] >= c.until /\ lockedBy'[k][n] = c.by
  <2>1. ~(j = k /\ m = n)
    BY <1>3 DEF SetTimelock
  <2>2. QED
    BY <1>3, <2>1 DEF SetTimelock
<1>4. ASSUME NEW m \in Nfts, NEW by \in Addresses, NEW r \in UnlockChoices, NEW t \in UnlockChoices,
             MigrateToken(m, r, by, t)
      PROVE  unlockBlock'[k][n] >= c.until /\ lockedBy'[k][n] = c.by
  <2>1. CASE r > block /\ by # NullAddr
    <3>1. lastTx'.event = "migrate" /\ lastTx'.nft = m
      BY <1>4, <2>1 DEF MigrateToken, Tx
    <3>2. ~(k = "release" /\ n = m)
      BY <3>1 DEF Void
    <3>3. QED
      BY <1>4, <3>2 DEF MigrateToken
  <2>2. CASE ~(r > block /\ by # NullAddr)
    BY <1>4, <2>2 DEF MigrateToken
  <2>3. QED
    BY <2>1, <2>2
<1>5. QED
  BY <1>1, <1>2, <1>3, <1>4, TimelockFrame

\* The history variables start well typed and the promises hold of the
\* initial state, in which nothing has been promised.
LEMMA HInitInv == HInit => HIInv
<1> SUFFICES ASSUME HInit PROVE HIInv
  OBVIOUS
<1>1. HTypeOK
  BY InitTypeOK DEF HInit, HTypeOK, Commitment
<1>2. LiveCommitments /\ CommitmentsStand
  BY DEF HInit, LiveCommitments, CommitmentsStand
<1>3. ApprovalsWereGiven
  BY DEF HInit, Init, ApprovalsWereGiven, ApprovalKinds
<1>4. OpenWasOpened
  BY DEF HInit, Init, OpenWasOpened
<1>5. WithdrawalsRespectCommitments /\ WithdrawalsByConsent
  BY DEF HInit, Init, NoTx, Tx, WithdrawalsRespectCommitments, WithdrawalsByConsent
<1>6. NoOrphanLock
  BY DEF HInit, Init, NoOrphanLock
<1>7. QED
  BY <1>1, <1>2, <1>3, <1>4, <1>5, <1>6 DEF HIInv

\* Only the access transactions touch approvals and permissions; they are
\* signed by the owner of the NFT or an operator of that owner.
LEMMA AccessFrame ==
  ASSUME TypeOK, [Next]_vars
  PROVE  \/ UNCHANGED accessVars
         \/ \E n \in Nfts :
               /\ ActsForOwner(n)
               /\ UNCHANGED owner
               /\ \A m \in Nfts \ {n} : /\ actionPerms'[m] = actionPerms[m]
                                        /\ \A k \in ApprovalKinds : approval'[k][m] = approval[k][m]
               /\ \A k \in ApprovalKinds, o \in Holders \ {owner[n]} :
                     approval'[k][n][o] = approval[k][n][o]
<1> USE DEF TypeOK
<1>1. ASSUME NEW s \in Senders, NEW n \in Nfts, NEW operator \in OperatorChoices,
             NEW k \in ApprovalKinds, SetApproval(s, n, k, operator)
      PROVE  /\ ActsForOwner(n)
             /\ UNCHANGED owner
             /\ \A m \in Nfts \ {n} : /\ actionPerms'[m] = actionPerms[m]
                                      /\ \A j \in ApprovalKinds : approval'[j][m] = approval[j][m]
             /\ \A j \in ApprovalKinds, o \in Holders \ {owner[n]} :
                   approval'[j][n][o] = approval[j][n][o]
  BY <1>1 DEF SetApproval, ActsForOwner, IsNFTOwnerOrOperator, Tx
<1>2. ASSUME NEW s \in Senders, NEW n \in Nfts, NEW operator \in OperatorChoices,
             SetApprovalForAll(s, n, operator)
      PROVE  /\ ActsForOwner(n)
             /\ UNCHANGED owner
             /\ \A m \in Nfts \ {n} : /\ actionPerms'[m] = actionPerms[m]
                                      /\ \A j \in ApprovalKinds : approval'[j][m] = approval[j][m]
             /\ \A j \in ApprovalKinds, o \in Holders \ {owner[n]} :
                   approval'[j][n][o] = approval[j][n][o]
  <2>1. \A j \in ApprovalKinds :
           approval'[j] = [approval[j] EXCEPT ![n][owner[n]] = operator]
    BY <1>2 DEF SetApprovalForAll
  <2>2. ActsForOwner(n) /\ UNCHANGED <<owner, actionPerms>>
    BY <1>2 DEF SetApprovalForAll, ActsForOwner, IsNFTOwnerOrOperator, Tx
  <2>3. ASSUME NEW j \in ApprovalKinds
        PROVE  /\ \A m \in Nfts \ {n} : approval'[j][m] = approval[j][m]
               /\ \A o \in Holders \ {owner[n]} : approval'[j][n][o] = approval[j][n][o]
    <3> DEFINE f == approval[j]
               g == approval'[j]
               o1 == owner[n]
    <3>1. f \in [Nfts -> [Holders -> Addresses]] /\ o1 \in Holders
      OBVIOUS
    <3>2. g = [f EXCEPT ![n][o1] = operator]
      BY <2>1
    <3> HIDE DEF f, g, o1
    <3>3. /\ \A m \in Nfts \ {n} : g[m] = f[m]
          /\ \A o \in Holders \ {o1} : g[n][o] = f[n][o]
      BY <3>1, <3>2
    <3>4. QED
      BY <3>3 DEF f, g, o1
  <2>4. QED
    BY <2>2, <2>3
<1>3. ASSUME NEW s \in Senders, NEW n \in Nfts, NEW perm \in PermChoices,
             NEW state \in BOOLEAN, SetPerms(s, n, perm, state)
      PROVE  /\ ActsForOwner(n)
             /\ UNCHANGED owner
             /\ \A m \in Nfts \ {n} : /\ actionPerms'[m] = actionPerms[m]
                                      /\ \A j \in ApprovalKinds : approval'[j][m] = approval[j][m]
             /\ \A j \in ApprovalKinds, o \in Holders \ {owner[n]} :
                   approval'[j][n][o] = approval[j][n][o]
  BY <1>3 DEF SetPerms, ActsForOwner, IsNFTOwnerOrOperator, Tx
<1>4. CASE AccessStep
  <2>1. PICK s \in Senders, n \in Nfts :
           \/ \E operator \in OperatorChoices :
                 \/ \E k \in ApprovalKinds : SetApproval(s, n, k, operator)
                 \/ SetApprovalForAll(s, n, operator)
           \/ \E perm \in PermChoices, state \in BOOLEAN : SetPerms(s, n, perm, state)
    BY <1>4 DEF AccessStep
  <2>2. CASE \E operator \in OperatorChoices, k \in ApprovalKinds : SetApproval(s, n, k, operator)
    BY <1>1, <2>2
  <2>3. CASE \E operator \in OperatorChoices : SetApprovalForAll(s, n, operator)
    BY <1>2, <2>3
  <2>4. CASE \E perm \in PermChoices, state \in BOOLEAN : SetPerms(s, n, perm, state)
    BY <1>3, <2>4
  <2>5. QED
    BY <2>1, <2>2, <2>3, <2>4
<1>5. CASE LockStep
  BY <1>5 DEF LockStep, ClearTimelock, SetTimelock, SetTemporaryLock
<1>6. CASE MigrateStep
  BY <1>6 DEF MigrateStep, MigrateToken
<1>7. CASE SettingsStep
  BY <1>7 DEF SettingsStep, SetPermsForTimelockAny, SetPermsForTimelockSelf, SetTempLockExpiryBlocks
<1>8. CASE \E n \in Nfts, to \in Holders : TransferToken(n, to)
  BY <1>8 DEF TransferToken
<1>9. CASE WithdrawStep
  BY <1>9 DEF WithdrawStep, Withdraw, WithdrawNft, PassGate
<1>10. CASE NextBlock
  BY <1>10 DEF NextBlock
<1>11. CASE UNCHANGED vars
  BY <1>11 DEF vars
<1>12. QED
  BY <1>4, <1>5, <1>6, <1>7, <1>8, <1>9, <1>10, <1>11 DEF Next, GateStep

\* Only set*Timelock writes "timelock" to the log.
LEMMA TimelockEvent ==
  ASSUME TypeOK, Next, lastTx'.event = "timelock"
  PROVE  \E s \in Senders, n \in Nfts, k \in Kinds :
            \/ ClearTimelock(s, n, k)
            \/ \E until \in UnlockChoices : SetTimelock(s, n, k, until)
<1> USE DEF Tx
<1>1. ~AccessStep
  BY DEF AccessStep, SetApproval, SetApprovalForAll, SetPerms
<1>2. ~MigrateStep
  BY DEF MigrateStep, MigrateToken
<1>3. ~SettingsStep
  BY DEF SettingsStep, SetPermsForTimelockAny, SetPermsForTimelockSelf, SetTempLockExpiryBlocks
<1>4. ~(\E n \in Nfts, to \in Holders : TransferToken(n, to))
  BY DEF TransferToken
<1>5. ~WithdrawStep
  BY DEF WithdrawStep, Withdraw, WithdrawNft, PassGate
<1>6. ~NextBlock
  BY DEF NextBlock, NoTx
<1>7. ~(\E n \in LockNfts, isLocked \in BOOLEAN : SetTemporaryLock(n, isLocked))
  BY DEF SetTemporaryLock
<1>8. LockStep
  BY <1>1, <1>2, <1>3, <1>4, <1>5, <1>6 DEF Next, GateStep
<1>9. QED
  BY <1>7, <1>8, BoundAssumption DEF LockStep

\* Only withdrawals write "withdraw" to the log.
LEMMA WithdrawFrame ==
  ASSUME TypeOK, Next, lastTx'.event = "withdraw"
  PROVE  \E s \in Senders, n \in Nfts, k \in Kinds : PassGate(s, n, k)
<1> USE DEF Tx
<1>1. ~AccessStep
  BY DEF AccessStep, SetApproval, SetApprovalForAll, SetPerms
<1>2. ~LockStep
  BY DEF LockStep, ClearTimelock, SetTimelock, SetTemporaryLock
<1>3. ~MigrateStep
  BY DEF MigrateStep, MigrateToken
<1>4. ~SettingsStep
  BY DEF SettingsStep, SetPermsForTimelockAny, SetPermsForTimelockSelf, SetTempLockExpiryBlocks
<1>5. ~(\E n \in Nfts, to \in Holders : TransferToken(n, to))
  BY DEF TransferToken
<1>6. ~NextBlock
  BY DEF NextBlock, NoTx
<1>7. WithdrawStep
  BY <1>1, <1>2, <1>3, <1>4, <1>5, <1>6 DEF Next, GateStep
<1>8. QED
  BY <1>7 DEF WithdrawStep, Withdraw, WithdrawNft

\* A stutter of the history specification is a stutter of ChargedState.
LEMMA HNextIsNext == [HNext]_hvars => [Next]_vars
BY DEF HNext, hvars

\* Each transaction and each block keeps every promise.
LEMMA HNextInv == HIInv /\ [HNext]_hvars => HIInv'
<1> SUFFICES ASSUME HIInv, [HNext]_hvars PROVE HIInv'
  OBVIOUS
<1>0. TypeOK /\ TypeOK' /\ [Next]_vars
  BY HNextIsNext, NextTypeOK DEF HIInv, HTypeOK
<1>1. CASE UNCHANGED hvars
  BY <1>0, <1>1
  DEF HIInv, HTypeOK, LiveCommitments, CommitmentsStand, ApprovalsWereGiven, OpenWasOpened,
      WithdrawalsRespectCommitments, WithdrawalsByConsent, NoOrphanLock, hvars, historyVars,
      vars, accessVars, lockVars, settingVars
<1>2. CASE HNext
  <2>1. HTypeOK'
    <3>1. \A k \in Kinds, n \in Nfts : Made(k, n) \in SUBSET Commitment
      BY <1>0 DEF Made, Commitment, TypeOK, Transactions
    <3>2. \A k \in Kinds, n \in Nfts :
             {c \in commitments[k][n] : ~Void(c, k, n)} \cup Made(k, n) \in SUBSET Commitment
      BY <3>1 DEF HIInv, HTypeOK
    <3>3. commitments' \in [Kinds -> [Nfts -> SUBSET Commitment]]
      BY <1>2, <3>2 DEF HNext, Remember
    <3>4. \A k \in Kinds, n \in Nfts, o \in Holders :
             consents[k][n][o] \cup GivenNow(k, n, o) \in SUBSET Senders
      BY DEF HIInv, HTypeOK, GivenNow
    <3>5. consents' \in [Kinds -> [Nfts -> [Holders -> SUBSET Senders]]]
      BY <1>2, <3>4 DEF HNext, Remember
    <3>7. opened' \in [Kinds -> SUBSET Nfts]
      BY <1>2 DEF HNext, Remember
    <3>8. QED
      BY <1>0, <3>3, <3>5, <3>7 DEF HTypeOK
  <2>2. ASSUME NEW k \in Kinds, NEW n \in Nfts, NEW c \in commitments'[k][n]
        PROVE  /\ c.until > block'
               /\ unlockBlock'[k][n] >= c.until /\ lockedBy'[k][n] = c.by
    <3>1. c \in {d \in commitments[k][n] : ~Void(d, k, n)} \cup Made(k, n)
      BY <1>2, <2>2 DEF HNext, Remember
    <3>2. CASE c \in Made(k, n)
      <4>1. /\ LocksNow(k, n) /\ unlockBlock'[k][n] > block'
            /\ c = [by |-> lastTx'.by, until |-> unlockBlock'[k][n]]
        BY <3>2 DEF Made
      <4>2. lockedBy'[k][n] = lastTx'.by
        <5>1. PICK s \in Senders, m \in Nfts, j \in Kinds :
                 \/ ClearTimelock(s, m, j)
                 \/ \E until \in UnlockChoices : SetTimelock(s, m, j, until)
          BY <1>2, <4>1, <1>0, TimelockEvent DEF LocksNow, HNext, Remember
        <5>2. j = k /\ m = n /\ s = lastTx'.by
          BY <5>1, <4>1 DEF LocksNow, ClearTimelock, SetTimelock, Tx
        <5>3. CASE ClearTimelock(s, m, j)
          BY <5>2, <5>3, <4>1, <1>0 DEF ClearTimelock, TypeOK
        <5>4. CASE \E until \in UnlockChoices : SetTimelock(s, m, j, until)
          BY <5>2, <5>4, <1>0 DEF SetTimelock, TypeOK
        <5>5. QED
          BY <5>1, <5>3, <5>4
      <4>3. QED
        BY <4>1, <4>2, <1>0 DEF TypeOK
    <3>3. CASE c \in commitments[k][n] /\ ~Void(c, k, n)
      <4>1. c \in Commitment
        BY <3>3 DEF HIInv, HTypeOK
      <4>2. c.until > block /\ unlockBlock[k][n] >= c.until /\ lockedBy[k][n] = c.by
        BY <3>3 DEF HIInv, LiveCommitments, CommitmentsStand
      <4>3. c.until > block'
        BY <3>3, <4>1, <1>0 DEF Void, Commitment, TypeOK
      <4>4. QED
        BY <1>0, <3>3, <4>1, <4>2, <4>3, CommitmentKept
    <3>4. QED
      BY <3>1, <3>2, <3>3
  <2>3. LiveCommitments' /\ CommitmentsStand'
    BY <2>2 DEF LiveCommitments, CommitmentsStand
  <2>4. ApprovalsWereGiven'
    <3> SUFFICES ASSUME NEW k \in Kinds, NEW n \in Nfts, NEW o \in Holders,
                        approval'[k][n][o] # NullAddr
                 PROVE  approval'[k][n][o] \in consents'[k][n][o]
      BY DEF ApprovalsWereGiven
    <3>1. consents'[k][n][o] = consents[k][n][o] \cup GivenNow(k, n, o)
      BY <1>2 DEF HNext, Remember
    <3>2. k \in ApprovalKinds
      BY DEF ApprovalKinds
    <3>3. CASE approval'[k][n][o] = approval[k][n][o]
      BY <3>1, <3>3 DEF HIInv, ApprovalsWereGiven
    <3>4. CASE approval'[k][n][o] # approval[k][n][o]
      <4>1. ActsForOwner(n) /\ o = owner[n]
        <5>1. ~UNCHANGED accessVars
          BY <3>4 DEF accessVars
        <5>2. QED
          BY <1>0, <3>2, <3>4, <5>1, AccessFrame
      <4>2. approval'[k][n][o] \in Senders
        BY <1>0, <3>2 DEF TypeOK, Addresses
      <4>3. approval'[k][n][o] \in GivenNow(k, n, o)
        BY <3>4, <4>1, <4>2 DEF GivenNow
      <4>4. QED
        BY <3>1, <4>3
    <3>5. QED
      BY <3>3, <3>4
  <2>5. OpenWasOpened'
    <3> SUFFICES ASSUME NEW k \in Kinds, NEW n \in Nfts, AllowPerm[k] \in actionPerms'[n]
                 PROVE  n \in opened'[k]
      BY DEF OpenWasOpened
    <3>1. n \in opened'[k] <=> IF ActsForOwner(n) THEN AllowPerm[k] \in actionPerms'[n]
                                                 ELSE n \in opened[k]
      BY <1>2 DEF HNext, Remember
    <3>2. CASE ActsForOwner(n)
      BY <3>1, <3>2
    <3>3. CASE ~ActsForOwner(n)
      <4>1. actionPerms'[n] = actionPerms[n]
        BY <1>0, <3>3, AccessFrame DEF accessVars
      <4>2. n \in opened[k]
        BY <4>1 DEF HIInv, OpenWasOpened
      <4>3. QED
        BY <3>1, <3>3, <4>2
    <3>4. QED
      BY <3>2, <3>3
  <2>6. WithdrawalsRespectCommitments'
    <3> SUFFICES ASSUME lastTx'.event = "withdraw",
                        NEW c \in commitments'[lastTx'.kind][lastTx'.nft]
                 PROVE  c.until <= block'
      BY DEF WithdrawalsRespectCommitments
    <3>1. PICK s \in Senders, n \in Nfts, k \in Kinds : PassGate(s, n, k)
      BY <1>0, <1>2, WithdrawFrame DEF HNext, Remember
    <3>2. lastTx'.kind = k /\ lastTx'.nft = n
      BY <3>1 DEF PassGate, Tx
    <3>3. c.until > block' /\ unlockBlock'[k][n] >= c.until
      BY <2>2, <3>2
    <3>4. /\ unlockBlock[k][n] > 0 => block >= unlockBlock[k][n]
          /\ unlockBlock' = unlockBlock /\ block' = block
      BY <3>1 DEF PassGate, ValidateState, lockVars
    <3>5. c \in Commitment
      BY <2>1, <3>2 DEF HTypeOK
    <3>6. QED
      BY <1>0, <3>3, <3>4, <3>5 DEF TypeOK, Commitment
  <2>7. WithdrawalsByConsent'
    <3> SUFFICES ASSUME lastTx'.event = "withdraw"
                 PROVE  \/ lastTx'.by = lastTx'.holder
                        \/ lastTx'.by = ContractOf[lastTx'.nft]
                        \/ lastTx'.by \in consents'[lastTx'.kind][lastTx'.nft][lastTx'.holder]
                        \/ lastTx'.nft \in opened'[lastTx'.kind]
      BY DEF WithdrawalsByConsent
    <3>1. PICK s \in Senders, n \in Nfts, k \in Kinds : PassGate(s, n, k)
      BY <1>0, <1>2, WithdrawFrame DEF HNext, Remember
    <3>2. /\ lastTx'.kind = k /\ lastTx'.nft = n /\ lastTx'.by = s
          /\ lastTx'.holder = owner[n] /\ approval' = approval /\ actionPerms' = actionPerms
          /\ AllowPerm[k] \in actionPerms[n] \/ IsApprovedFor(k, n, s)
      BY <3>1 DEF PassGate, ValidateState, accessVars, Tx
    <3>3. CASE AllowPerm[k] \in actionPerms[n]
      BY <2>5, <3>2, <3>3 DEF OpenWasOpened
    <3>4. CASE s = approval[k][n][owner[n]]
      <4>1. s # NullAddr
        BY AddressAssumption
      <4>2. owner[n] \in Holders
        BY <1>0 DEF TypeOK
      <4>3. QED
        BY <2>4, <3>2, <3>4, <4>1, <4>2 DEF ApprovalsWereGiven
    <3>5. QED
      BY <3>2, <3>3, <3>4 DEF IsApprovedFor
  <2>8. NoOrphanLock'
    <3> USE <1>0 DEF TypeOK
    <3>1. CASE UNCHANGED <<unlockBlock, lockedBy>>
      BY <3>1 DEF HIInv, NoOrphanLock
    <3>2. ASSUME NEW s \in Senders, NEW n \in Nfts, NEW k \in Kinds, ClearTimelock(s, n, k)
          PROVE  NoOrphanLock'
      BY <3>2 DEF HIInv, NoOrphanLock, ClearTimelock
    <3>3. ASSUME NEW s \in Senders, NEW n \in Nfts, NEW k \in Kinds, NEW until \in UnlockChoices,
                 SetTimelock(s, n, k, until)
          PROVE  NoOrphanLock'
      <4>1. s # NullAddr
        BY AddressAssumption
      <4>2. QED
        BY <3>3, <4>1 DEF HIInv, NoOrphanLock, SetTimelock
    <3>4. ASSUME NEW n \in Nfts, NEW by \in Addresses, NEW r \in UnlockChoices,
                 NEW t \in UnlockChoices, MigrateToken(n, r, by, t)
          PROVE  NoOrphanLock'
      <4>1. CASE r > block /\ by # NullAddr
        BY <3>4, <4>1 DEF HIInv, NoOrphanLock, MigrateToken
      <4>2. CASE ~(r > block /\ by # NullAddr)
        BY <3>4, <4>2 DEF HIInv, NoOrphanLock, MigrateToken
      <4>3. QED
        BY <4>1, <4>2
    <3>5. QED
      BY <3>1, <3>2, <3>3, <3>4, TimelockFrame
  <2>9. QED
    BY <2>1, <2>3, <2>4, <2>5, <2>6, <2>7, <2>8 DEF HIInv
<1>3. QED
  BY <1>1, <1>2

\* The inductive invariant of the promises.
LEMMA PromisesInvariant == HSpec => []HIInv
<1>1. QED
  BY HInitInv, HNextInv, PTL DEF HSpec

\* A withdrawal that the gate lets through finds no timelock running: the
\* mapping stands at least as long as any timelock that was accepted
\* (get*State, _validateState).
LEMMA GatePassedUnlocked ==
  ASSUME HIInv, NEW k \in Kinds, NEW s, NEW n \in Nfts, PassGate(s, n, k)
  PROVE  commitments[k][n] = {}
<1>1. unlockBlock[k][n] > 0 => block >= unlockBlock[k][n]
  BY DEF PassGate, ValidateState
<1>2. block \in Nat /\ unlockBlock[k][n] \in Nat
  BY DEF HIInv, HTypeOK, TypeOK
<1>3. ASSUME NEW c \in commitments[k][n]
      PROVE  FALSE
  <2>1. c.until > block /\ unlockBlock[k][n] >= c.until
    BY DEF HIInv, LiveCommitments, CommitmentsStand
  <2>2. c.until \in Nat
    <3>1. commitments[k][n] \subseteq Commitment
      BY DEF HIInv, HTypeOK
    <3>2. QED
      BY <3>1 DEF Commitment
  <2>3. QED
    BY <1>1, <1>2, <2>1, <2>2
<1>4. QED
  BY <1>3

\* Type correctness of the gate's state and of the histories (ChargedState.sol).
THEOREM TypeCorrect == HSpec => []HTypeOK
<1>1. HIInv => HTypeOK
  BY DEF HIInv
<1>2. QED
  BY <1>1, PromisesInvariant, PTL

\* A timelock that was accepted stands until its block or until its maker
\* lifts it (set*Timelock; migrateToken excepted).
THEOREM TimelocksHold == HSpec => []CommitmentsStand
<1>1. HIInv => CommitmentsStand
  BY DEF HIInv
<1>2. QED
  BY <1>1, PromisesInvariant, PTL

\* While a timelock that was accepted is running nothing is withdrawn, whoever
\* asks: owner, contract, approved or anyone (_validateState).
THEOREM WithdrawalsWait == HSpec => []WithdrawalsRespectCommitments
<1>1. HIInv => WithdrawalsRespectCommitments
  BY DEF HIInv
<1>2. QED
  BY <1>1, PromisesInvariant, PTL

\* Whoever withdraws is the owner or the contract, was approved by or for the
\* present owner, or finds the NFT opened to everyone (_isApprovedFor*).
THEOREM ConsentHolds == HSpec => []WithdrawalsByConsent
<1>1. HIInv => WithdrawalsByConsent
  BY DEF HIInv
<1>2. QED
  BY <1>1, PromisesInvariant, PTL

\* No timelock is without an address that can lift it (set*Timelock, migrateToken).
THEOREM LocksHaveHolders == HSpec => []NoOrphanLock
<1>1. HIInv => NoOrphanLock
  BY DEF HIInv
<1>2. QED
  BY <1>1, PromisesInvariant, PTL
=============================================================================
