------------------------ MODULE CovalentBondsProofs ------------------------
(***************************************************************************)
(* What holds of the NFTs in particles for every set of particles,         *)
(* accounts, managers and manager ids, for every amount and word size.     *)
(***************************************************************************)
EXTENDS CovalentBonds, ChargedManagersProofs, NumberLemmas

-----------------------------------------------------------------------------
(* Baskets are accounts of their own *)

\* Nobody who signs a transaction or receives an NFT is a basket, and no two
\* particles or managers share one.
LEMMA BasketFacts ==
  /\ Baskets \subseteq Accounts
  /\ People \subseteq Accounts
  /\ \A s \in People \cup Contracts \cup {NullAddr} : s \notin Baskets
  /\ \A m \in Managers, n \in Nfts : BasketOf[m][n] \in Baskets
  /\ \A m1, m2 \in Managers, n1, n2 \in Nfts :
        BasketOf[m1][n1] = BasketOf[m2][n2] => m1 = m2 /\ n1 = n2
<1>1. \A m \in Managers, n \in Nfts : BasketOf[m][n] \in Accounts
  BY BondsAssumption
<1>2. Baskets \subseteq Accounts
  BY <1>1 DEF Baskets
<1>3. \A s \in Contracts \cup {NullAddr} : s \notin Accounts
  BY AddressAssumption DEF Senders
<1>4. QED
  BY <1>1, <1>2, <1>3, BondsAssumption DEF Baskets, People

-----------------------------------------------------------------------------
(* Types *)

BTypes == ManagersTypeOK /\ BondsTypeOK

\* What is booked is a natural number, and a word minus or plus it, wrapped,
\* is a word again.
LEMMA CountedIsNat ==
  ASSUME NEW id, NEW amount \in BondAmounts
  PROVE  Counted(id, amount) \in Nat
BY BondsAssumption DEF Counted

LEMMA WordsWrap ==
  ASSUME NEW word \in 0..MaxUint, NEW change \in Int
  PROVE  (word + change) % (MaxUint + 1) \in 0..MaxUint
<1>1. MaxUint + 1 \in Nat \ {0} /\ word + change \in Int
  BY BondsAssumption
<1>2. \A i \in Int, d \in Nat \ {0} : i % d \in 0..(d - 1)
  OBVIOUS
<1>3. QED
  BY <1>1, <1>2, BondsAssumption

\* There are no baskets at first.
LEMMA BInitTypes == BInit => BTypes
<1> SUFFICES ASSUME BInit PROVE BTypes
  OBVIOUS
<1>1. ManagersTypeOK
  BY ManagersInitType DEF BInit
<1>2. 0 \in 0..MaxUint
  BY BondsAssumption
<1>3. BondsTypeOK
  BY <1>2 DEF BInit, BondsTypeOK
<1>4. QED
  BY <1>1, <1>3 DEF BTypes

\* Booking keeps the counters words.
LEMMA BookingKeepsTypes ==
  ASSUME BondsTypeOK, NEW m \in Managers, NEW n \in Nfts, NEW x \in Nfts, NEW id,
         NEW amount \in BondAmounts, NEW sign \in {1, -1}, BookCounted(m, n, x, id, amount, sign)
  PROVE  /\ count' \in [Managers -> [Nfts -> [Nfts -> 0..MaxUint]]]
         /\ total' \in [Managers -> [Nfts -> 0..MaxUint]]
         /\ strayed' \subseteq Managers \X Nfts \X Nfts
<1> DEFINE change == sign * Counted(id, amount)
<1>1. change \in Int
  BY CountedIsNat
<1> DEFINE words == 0..MaxUint
           newCount == (count[m][n][x] + change) % (MaxUint + 1)
           newTotal == (total[m][n] + change) % (MaxUint + 1)
<1>2. /\ count \in [Managers -> [Nfts -> [Nfts -> words]]]
      /\ total \in [Managers -> [Nfts -> words]]
  BY DEF BondsTypeOK
<1>3. count[m][n][x] \in words /\ total[m][n] \in words
  BY <1>2
<1>4. newCount \in words /\ newTotal \in words
  BY <1>1, <1>3, WordsWrap
<1>5. /\ count' = [count EXCEPT ![m][n][x] = newCount]
      /\ total' = [total EXCEPT ![m][n] = newTotal]
  BY DEF BookCounted, Book
<1>6. strayed' \subseteq Managers \X Nfts \X Nfts
  BY DEF BondsTypeOK, BookCounted, Stray
<1> HIDE DEF words, newCount, newTotal
<1>7. count' \in [Managers -> [Nfts -> [Nfts -> words]]]
  BY <1>2, <1>4, <1>5
<1>8. total' \in [Managers -> [Nfts -> words]]
  BY <1>2, <1>4, <1>5
<1>9. QED
  BY <1>6, <1>7, <1>8 DEF words

\* Making and breaking bonds keeps the types.
LEMMA BondStepTypes == BTypes /\ BondStep => BondsTypeOK'
<1> SUFFICES ASSUME BTypes, BondStep PROVE BondsTypeOK'
  OBVIOUS
<1> USE DEF BTypes
<1>1. ASSUME NEW s, NEW n \in Nfts, NEW id \in ManagerIds, NEW x \in Nfts, NEW amount \in BondAmounts,
             CovalentBond(s, n, id, x, amount)
      PROVE  BondsTypeOK'
  <2> DEFINE m == managerOf[id]
  <2>1. m \in Managers
    BY <1>1, EnabledManager DEF CovalentBond
  <2>2. BookCounted(m, n, x, id, amount, 1)
    BY <1>1 DEF CovalentBond
  <2>3. baskets' \subseteq Managers \X Nfts /\ operated' = operated
    BY <1>1, <2>1 DEF CovalentBond, BondsTypeOK
  <2>4. QED
    BY <2>1, <2>2, <2>3, BookingKeepsTypes DEF BondsTypeOK
<1>2. ASSUME NEW s, NEW receiver, NEW n \in Nfts, NEW id \in ManagerIds, NEW x \in Nfts,
             NEW amount \in BondAmounts, BreakCovalentBond(s, receiver, n, id, x, amount)
      PROVE  BondsTypeOK'
  <2> DEFINE m == managerOf[id]
  <2>1. m \in Managers
    BY <1>2, EnabledManager DEF BreakCovalentBond
  <2>2. BookCounted(m, n, x, id, amount, -1)
    BY <1>2 DEF BreakCovalentBond
  <2>3. baskets' \subseteq Managers \X Nfts /\ operated' = operated
    BY <1>2 DEF BreakCovalentBond, BondsTypeOK
  <2>4. QED
    BY <2>1, <2>2, <2>3, BookingKeepsTypes DEF BondsTypeOK
<1>3. ASSUME NEW s, NEW receiver, NEW n \in Nfts, NEW id \in ManagerIds, NEW x \in Nfts,
             ExecuteForBasket(s, receiver, n, id, x)
      PROVE  BondsTypeOK'
  <2> DEFINE m == managerOf[id]
  <2>1. m \in Managers /\ ContractOf[x] \in Contracts
    BY <1>3, EnabledManager, AddressAssumption DEF ExecuteForBasket
  <2>2. /\ baskets' = baskets \cup {<<m, n>>} /\ UNCHANGED <<count, total>>
        /\ \/ strayed' = strayed \cup {<<m, n, x>>} /\ operated' = operated
           \/ strayed' = strayed /\ operated' = operated \cup {<<m, n, ContractOf[x]>>}
    BY <1>3 DEF ExecuteForBasket, Stray
  <2> HIDE DEF m
  <2>3. QED
    BY <2>1, <2>2 DEF BondsTypeOK
<1>4. QED
  BY <1>1, <1>2, <1>3 DEF BondStep

\* Every step keeps the types.
LEMMA BNextTypes == BTypes /\ [BNext]_bvars => BTypes'
<1> SUFFICES ASSUME BTypes, [BNext]_bvars PROVE BTypes'
  OBVIOUS
<1>1. CASE UNCHANGED bvars
  BY <1>1 DEF BTypes, bvars, managersVars, registryVars, ruleVars, bondVars, ManagersTypeOK, BondsTypeOK
<1>2. CASE ManagersStep /\ UNCHANGED bondVars
  BY <1>2, ManagersStepType DEF BTypes, bondVars, BondsTypeOK
<1>3. CASE UNCHANGED managersVars
  <2>1. ManagersTypeOK'
    BY <1>3 DEF BTypes, managersVars, registryVars, ruleVars, ManagersTypeOK
  <2>2. CASE UNCHANGED bondVars
    BY <2>1, <2>2 DEF BTypes, bondVars, BondsTypeOK
  <2>3. CASE BondStep
    BY <2>1, <2>3, BondStepTypes DEF BTypes
  <2>4. CASE StrayStep
    <3>1. PICK m \in Managers, n \in Nfts, x \in Nfts :
             Stray(m, n, x) /\ UNCHANGED <<baskets, count, total, operated>>
      BY <2>4, BondsAssumption DEF StrayStep, SendToBasket, RescueERC721, TakeAsOperator
    <3>2. QED
      BY <2>1, <3>1 DEF BTypes, Stray, BondsTypeOK
  <2>5. QED
    BY <1>1, <1>2, <2>2, <2>3, <2>4, ManagersStepType
    DEF BNext, GateOnly, TransferBetweenPeople, bondVars
<1>4. CASE BondStep
  BY <1>3, <1>4 DEF BondStep, CovalentBond, BreakCovalentBond, ExecuteForBasket
<1>5. CASE StrayStep
  BY <1>3, <1>5 DEF StrayStep, SendToBasket, RescueERC721, TakeAsOperator
<1>6. QED
  BY <1>1, <1>2, <1>3, <1>4, <1>5 DEF BNext, GateOnly, TransferBetweenPeople

LEMMA BTypesInvariant == BSpec => []BTypes
<1>1. QED
  BY BInitTypes, BNextTypes, PTL DEF BSpec

\* Type correctness of the registry, the rules and the baskets' counters
\* (GenericSmartBasketB's unsigned words).
THEOREM BondsTypeCorrect == BSpec => []BondsTypeOK
<1>1. BTypes => BondsTypeOK
  BY DEF BTypes
<1>2. QED
  BY <1>1, BTypesInvariant, PTL

-----------------------------------------------------------------------------
(* The bonds use the gate as ChargedState specifies it *)

\* Every step that makes, breaks or evades bonds is one of the gate, or
\* leaves it alone.
LEMMA BNextIsHNext == BTypes /\ [BNext]_bvars => [HNext]_hvars
<1> SUFFICES ASSUME BTypes, [BNext]_bvars PROVE [HNext]_hvars
  OBVIOUS
<1> USE BasketFacts, BondsAssumption
<1>1. CASE UNCHANGED bvars
  BY <1>1 DEF bvars
<1>2. CASE GateOnly
  BY <1>2 DEF GateOnly, HNext, Next
<1>3. CASE ManagersStep
  BY <1>3, ManagersStepFrame
<1>4. ASSUME NEW x \in Nfts, NEW to \in Holders, TransferToken(x, to), Remember
      PROVE  HNext
  BY <1>4 DEF HNext, Next
<1>5. ASSUME NEW s \in People \cup Contracts, NEW n \in Nfts, NEW x \in Nfts, NEW receiver \in People,
             NEW k \in {"release", "breakBond"},
             WithdrawNft(s, n, k, x, receiver) \/ Withdraw(s, n, k), Remember
      PROVE  HNext
  <2>1. s \in Senders /\ receiver \in Accounts /\ k \in Kinds
    BY DEF Senders
  <2>2. QED
    BY <1>5, <2>1 DEF HNext, Next, WithdrawStep
<1>6. CASE BondStep
  <2>1. ASSUME NEW s, NEW n \in Nfts, NEW id \in ManagerIds, NEW x \in Nfts, NEW amount,
               CovalentBond(s, n, id, x, amount)
        PROVE  HNext
    <3>1. BasketOf[managerOf[id]][n] \in Holders
      BY <2>1, EnabledManager DEF BTypes, CovalentBond, Holders
    <3>2. QED
      BY <1>4, <2>1, <3>1 DEF CovalentBond
  <2>2. QED
    BY <1>5, <1>6, <2>1 DEF BondStep, BreakCovalentBond, ExecuteForBasket
<1>7. CASE StrayStep
  BY <1>4, <1>7 DEF StrayStep, SendToBasket, RescueERC721, TakeAsOperator, Holders
<1>8. CASE \E x \in Nfts, to \in People \cup {NullAddr} : TransferBetweenPeople(x, to)
  BY <1>4, <1>8 DEF TransferBetweenPeople, Holders
<1>9. QED
  BY <1>1, <1>2, <1>3, <1>6, <1>7, <1>8 DEF BNext

\* The bonds implement the history specification of the gate, so that all
\* that ChargedStateProofs proves of the gate holds of them (ChargedParticles
\* calls validateBreakBond, ParticleSplitter validateRelease).
THEOREM BondsImplementGate == BSpec => HSpec
<1>1. BInit => HInit
  BY DEF BInit
<1>2. QED
  BY <1>1, BTypesInvariant, BNextIsHNext, PTL DEF BSpec, HSpec

-----------------------------------------------------------------------------
(* Ways out of a basket *)

\* The gate's own transactions move no NFT.
LEMMA GateStepKeepsOwner == GateStep => UNCHANGED owner
BY DEF GateStep, AccessStep, LockStep, MigrateStep, SettingsStep, NextBlock, SetApproval,
       SetApprovalForAll, SetPerms, ClearTimelock, SetTimelock, SetTemporaryLock, MigrateToken,
       SetPermsForTimelockAny, SetPermsForTimelockSelf, SetTempLockExpiryBlocks

\* An NFT leaves a basket by a broken bond or a call of the particle's owner,
\* either through the gate and an enabled manager, or by a rescue, or by an
\* operator that the basket has.
LEMMA LeaverPasses ==
  ASSUME BTypes, [BNext]_bvars, NEW m \in Managers, NEW n \in Nfts, NEW x \in Nfts,
         IsNested(m, n, x), owner'[x] # owner[x]
  PROVE  \/ TakenPastGate(m, n, x)
         \/ \E s \in People \cup Contracts, id \in ManagerIds, k \in {"release", "breakBond"} :
               /\ PassGate(s, n, k)
               /\ k = "release" => s = owner[n]
               /\ managerOf[id] = m /\ IsManagerEnabled(id)
<1> USE BasketFacts
<1>0. owner[x] \in Baskets
  BY DEF IsNested
<1>1. CASE BondStep
  <2>1. ASSUME NEW s \in People \cup Contracts, NEW p \in Nfts, NEW id \in ManagerIds, NEW y \in Nfts,
               NEW amount, CovalentBond(s, p, id, y, amount)
        PROVE  FALSE
    <3>1. owner[y] = s /\ owner' = [owner EXCEPT ![y] = BasketOf[managerOf[id]][p]]
      BY <2>1 DEF CovalentBond, TransferToken
    <3>2. y # x
      BY <1>0, <3>1
    <3>3. QED
      BY <3>1, <3>2
  <2>2. ASSUME NEW s \in People \cup Contracts, NEW receiver \in People, NEW p \in Nfts,
               NEW id \in ManagerIds, NEW y \in Nfts, NEW k \in {"release", "breakBond"}, WithdrawNft(s, p, k, y, receiver),
               IsNested(managerOf[id], p, y), IsManagerEnabled(id)
        PROVE  p = n /\ managerOf[id] = m /\ PassGate(s, n, k)
    <3>1. y = x
      BY <2>2 DEF WithdrawNft
    <3>2. managerOf[id] \in Managers
      BY <2>2, EnabledManager DEF BTypes
    <3>3. p = n /\ managerOf[id] = m
      BY <2>2, <3>1, <3>2 DEF IsNested
    <3>4. QED
      BY <2>2, <3>3 DEF WithdrawNft
  <2>3. ASSUME NEW s \in People \cup Contracts, NEW receiver \in People, NEW p \in Nfts,
               NEW id \in ManagerIds, NEW y \in Nfts, NEW amount, BreakCovalentBond(s, receiver, p, id, y, amount)
        PROVE  PassGate(s, n, "breakBond") /\ managerOf[id] = m /\ IsManagerEnabled(id)
    BY <2>2, <2>3 DEF BreakCovalentBond
  <2>4. ASSUME NEW s \in People \cup Contracts, NEW receiver \in People, NEW p \in Nfts,
               NEW id \in ManagerIds, NEW y \in Nfts, ExecuteForBasket(s, receiver, p, id, y)
        PROVE  PassGate(s, n, "release") /\ s = owner[n] /\ managerOf[id] = m /\ IsManagerEnabled(id)
    <3>1. /\ WithdrawNft(s, p, "release", y, receiver) /\ IsNested(managerOf[id], p, y)
          /\ IsManagerEnabled(id) /\ s = owner[p]
      BY <2>4 DEF ExecuteForBasket, Withdraw
    <3>2. p = n /\ managerOf[id] = m /\ PassGate(s, n, "release")
      BY <2>2, <3>1
    <3>3. QED
      BY <3>1, <3>2
  <2>5. CASE \E s \in People \cup Contracts, receiver \in People, p \in Nfts, id \in ManagerIds,
              y \in Nfts, amount \in BondAmounts : BreakCovalentBond(s, receiver, p, id, y, amount)
    BY <2>3, <2>5
  <2>6. CASE \E s \in People \cup Contracts, receiver \in People, p \in Nfts, id \in ManagerIds,
              y \in Nfts : ExecuteForBasket(s, receiver, p, id, y)
    BY <2>4, <2>6
  <2>7. QED
    BY <1>1, <2>1, <2>5, <2>6 DEF BondStep
<1>2. CASE StrayStep
  <2>1. ASSUME NEW w \in Managers, NEW p \in Nfts, NEW y \in Nfts, SendToBasket(w, p, y)
        PROVE  FALSE
    BY <1>0, <2>1 DEF SendToBasket, TransferToken
  <2>2. ASSUME NEW w \in Managers, NEW p \in Nfts, NEW y \in Nfts, NEW receiver \in People,
               RescueERC721(w, p, y, receiver) \/ TakeAsOperator(w, p, y, receiver)
        PROVE  w = m /\ p = n /\ y = x
    <3>1. owner' = [owner EXCEPT ![y] = receiver] /\ IsNested(w, p, y)
      BY <2>2 DEF RescueERC721, TakeAsOperator, TransferToken
    <3>2. y = x
      BY <3>1
    <3>3. QED
      BY <3>1, <3>2 DEF IsNested
  <2>3. QED
    BY <1>2, <2>1, <2>2, BondsAssumption DEF StrayStep, TakenPastGate
<1>3. CASE \E y \in Nfts, to \in People \cup {NullAddr} : TransferBetweenPeople(y, to)
  BY <1>0, <1>3 DEF TransferBetweenPeople, TransferToken
<1>4. QED
  BY <1>1, <1>2, <1>3, GateStepKeepsOwner, ManagersStepFrame
  DEF BNext, GateOnly, bvars, hvars, vars

\* A basket gets operators by a call of the particle's owner, through the gate
\* and an enabled manager.
LEMMA OpenerPasses ==
  ASSUME BTypes, [BNext]_bvars, NEW m \in Managers, NEW n \in Nfts, NEW c,
         <<m, n, c>> \in operated' \ operated
  PROVE  \E s \in People \cup Contracts, id \in ManagerIds :
            /\ PassGate(s, n, "release") /\ s = owner[n]
            /\ managerOf[id] = m /\ IsManagerEnabled(id)
<1>1. CASE BondStep
  <2>1. PICK s \in People \cup Contracts, receiver \in People, p \in Nfts, id \in ManagerIds, y \in Nfts :
           ExecuteForBasket(s, receiver, p, id, y)
    BY <1>1 DEF BondStep, CovalentBond, BreakCovalentBond
  <2>2. /\ operated' = operated \cup {<<managerOf[id], p, ContractOf[y]>>}
        /\ PassGate(s, p, "release") /\ s = owner[p] /\ IsManagerEnabled(id)
    BY <2>1 DEF ExecuteForBasket, Withdraw
  <2>3. p = n /\ managerOf[id] = m
    BY <2>2
  <2>4. QED
    BY <2>2, <2>3
<1>2. QED
  BY <1>1 DEF BNext, GateOnly, StrayStep, SendToBasket, RescueERC721, TakeAsOperator,
              TransferBetweenPeople, bvars, bondVars

\* Bonds hold: whoever asks, through whichever contract and manager, no NFT
\* leaves a particle's baskets, and nobody becomes their operator, past the
\* gate or while a timelock runs.
THEOREM BondsHoldFast == BSpec => BondsHold
<1>1. ASSUME HIInv, NEW s, NEW n \in Nfts, NEW k \in {"release", "breakBond"}, PassGate(s, n, k)
      PROVE  /\ lastTx'.event = "withdraw" /\ lastTx'.kind = k /\ lastTx'.nft = n /\ lastTx'.by = s
             /\ commitments[k][n] = {}
  BY <1>1, GatePassedUnlocked, BondsAssumption DEF PassGate
<1>2. HIInv /\ BTypes /\ [BNext]_bvars => LeavesThroughGate
  <2> SUFFICES ASSUME HIInv, BTypes, [BNext]_bvars, NEW m \in Managers, NEW n \in Nfts
               PROVE  /\ \A x \in Nfts :
                            IsNested(m, n, x) /\ owner'[x] # owner[x] =>
                                \/ /\ lastTx'.event = "withdraw" /\ lastTx'.kind = "breakBond"
                                   /\ lastTx'.nft = n /\ commitments["breakBond"][n] = {}
                                \/ CallsOut(n)
                                \/ TakenPastGate(m, n, x)
                      /\ \A c \in Contracts : <<m, n, c>> \in operated' \ operated => CallsOut(n)
    BY DEF LeavesThroughGate
  <2>1. ASSUME NEW x \in Nfts, IsNested(m, n, x), owner'[x] # owner[x], ~TakenPastGate(m, n, x)
        PROVE  \/ /\ lastTx'.event = "withdraw" /\ lastTx'.kind = "breakBond"
                  /\ lastTx'.nft = n /\ commitments["breakBond"][n] = {}
               \/ CallsOut(n)
    <3>1. \E s \in People \cup Contracts, k \in {"release", "breakBond"} :
             PassGate(s, n, k) /\ (k = "release" => s = owner[n])
      BY <2>1, LeaverPasses
    <3>2. PICK s \in People \cup Contracts, k \in {"release", "breakBond"} :
             PassGate(s, n, k) /\ (k = "release" => s = owner[n])
      BY <3>1
    <3>3. QED
      BY <1>1, <3>2 DEF CallsOut
  <2>2. ASSUME NEW c \in Contracts, <<m, n, c>> \in operated' \ operated
        PROVE  CallsOut(n)
    BY <1>1, <2>2, OpenerPasses DEF CallsOut
  <2>3. QED
    BY <2>1, <2>2
<1>3. BSpec => []HIInv
  BY BondsImplementGate, PromisesInvariant
<1>4. QED
  BY <1>2, <1>3, BTypesInvariant, PTL DEF BSpec, BondsHold

\* A paused or unregistered manager's baskets keep their NFTs and get no
\* operators.
THEOREM FrozenBonds == BSpec => FrozenBasketsKeepNfts
<1>1. BTypes /\ [BNext]_bvars => FrozenBasketKeeps
  <2> SUFFICES ASSUME BTypes, [BNext]_bvars, NEW m \in Managers, NEW n \in Nfts,
                      m \in paused \/ (\A id \in ManagerIds : managerOf[id] # m)
               PROVE  /\ \A x \in Nfts :
                            IsNested(m, n, x) /\ owner'[x] # owner[x] => TakenPastGate(m, n, x)
                      /\ \A c \in Contracts : <<m, n, c>> \notin operated' \ operated
    BY DEF FrozenBasketKeeps
  <2>1. ASSUME NEW id \in ManagerIds, IsManagerEnabled(id)
        PROVE  managerOf[id] # m
    BY <2>1 DEF IsManagerEnabled
  <2>2. QED
    BY <2>1, LeaverPasses, OpenerPasses
<1>2. QED
  BY <1>1, BTypesInvariant, PTL DEF BSpec, FrozenBasketsKeepNfts

-----------------------------------------------------------------------------
(* The books *)

Books == BooksMatchCustody /\ BTypes /\ TypeOK

\* A step that books nothing keeps the books true when it moves NFTs between
\* basket and world only where it marks them as strayed.
LEMMA UnbookedMoves ==
  ASSUME Books, UNCHANGED count, strayed \subseteq strayed',
         \A m \in Managers, n \in Nfts, x \in Nfts :
            <<m, n, x>> \in strayed' \/ (IsNested(m, n, x)' <=> IsNested(m, n, x))
  PROVE  BooksMatchCustody'
BY DEF Books, BooksMatchCustody

\* y goes in or out of p's basket at m, and is marked.
LEMMA StrayMoves ==
  ASSUME Books, NEW m \in Managers, NEW p \in Nfts, NEW y \in Nfts, NEW to,
         UNCHANGED count, Stray(m, p, y), owner' = [owner EXCEPT ![y] = to],
         owner[y] = BasketOf[m][p] \/ owner[y] \notin Baskets,
         to = BasketOf[m][p] \/ to \notin Baskets
  PROVE  BooksMatchCustody'
<1>1. ASSUME NEW w \in Managers, NEW n \in Nfts, NEW x \in Nfts, <<w, n, x>> \notin strayed'
      PROVE  owner'[x] = BasketOf[w][n] <=> owner[x] = BasketOf[w][n]
  <2>1. CASE x # y
    BY <2>1 DEF Books, TypeOK
  <2>2. CASE x = y
    <3>1. w # m \/ n # p
      BY <1>1, <2>2 DEF Stray
    <3>2. BasketOf[w][n] # BasketOf[m][p] /\ BasketOf[w][n] \in Baskets
      BY <3>1, BasketFacts
    <3>3. owner'[x] = to
      BY <2>2 DEF Books, TypeOK
    <3>4. QED
      BY <2>2, <3>2, <3>3
  <2>3. QED
    BY <2>1, <2>2
<1>2. strayed \subseteq strayed'
  BY DEF Stray
<1>3. QED
  BY <1>1, <1>2, UnbookedMoves DEF IsNested

\* y goes into p's basket at m and is counted (sign 1), or goes out and is
\* taken off (sign -1): from 0 to 1 and back unless it ever strayed.
LEMMA BookedMoves ==
  ASSUME Books, NEW m \in Managers, NEW p \in Nfts, NEW y \in Nfts, NEW to,
         NEW id, NEW amount \in BondAmounts, NEW sign \in {1, -1},
         BookCounted(m, p, y, id, amount, sign), owner' = [owner EXCEPT ![y] = to],
         sign = 1 => owner[y] \notin Baskets /\ to = BasketOf[m][p],
         sign = -1 => owner[y] = BasketOf[m][p] /\ to \notin Baskets
  PROVE  BooksMatchCustody'
<1> DEFINE booked == (count[m][p][y] + sign * Counted(id, amount)) % (MaxUint + 1)
<1>1. /\ count \in [Managers -> [Nfts -> [Nfts -> 0..MaxUint]]]
      /\ count' = [count EXCEPT ![m][p][y] = booked]
  BY DEF Books, BTypes, BondsTypeOK, BookCounted, Book
<1>2. ASSUME NEW w \in Managers, NEW n \in Nfts, NEW x \in Nfts, <<w, n, x>> \notin strayed',
             w # m \/ n # p \/ x # y
      PROVE  count'[w][n][x] = IF owner'[x] = BasketOf[w][n] THEN 1 ELSE 0
  <2>1. <<w, n, x>> \notin strayed
    BY <1>2 DEF BookCounted, Stray
  <2>2. count[w][n][x] = IF owner[x] = BasketOf[w][n] THEN 1 ELSE 0
    BY <2>1 DEF Books, BooksMatchCustody, IsNested
  <2> HIDE DEF booked
  <2>3. count'[w][n][x] = count[w][n][x]
    BY <1>1, <1>2
  <2>4. owner'[x] = BasketOf[w][n] <=> owner[x] = BasketOf[w][n]
    <3>1. CASE x # y
      BY <3>1 DEF Books, TypeOK
    <3>2. CASE x = y
      <4>1. BasketOf[w][n] # BasketOf[m][p] /\ BasketOf[w][n] \in Baskets
        BY <1>2, <3>2, BasketFacts
      <4>2. owner'[x] = to
        BY <3>2 DEF Books, TypeOK
      <4>3. QED
        BY <3>2, <4>1, <4>2
    <3>3. QED
      BY <3>1, <3>2
  <2>5. QED
    BY <2>2, <2>3, <2>4
<1>3. ASSUME <<m, p, y>> \notin strayed'
      PROVE  count'[m][p][y] = IF owner'[y] = BasketOf[m][p] THEN 1 ELSE 0
  <2>1. Counted(id, amount) = 1 /\ <<m, p, y>> \notin strayed
    BY <1>3 DEF BookCounted, Stray, StandsForOne, Counted
  <2>2. count[m][p][y] = IF owner[y] = BasketOf[m][p] THEN 1 ELSE 0
    BY <2>1 DEF Books, BooksMatchCustody, IsNested
  <2>3. owner'[y] = to /\ BasketOf[m][p] \in Baskets
    BY BasketFacts DEF Books, TypeOK
  <2>4. MaxUint \in Nat \ {0}
    BY BondsAssumption
  <2>5. CASE sign = 1
    <3>1. booked = 1 % (MaxUint + 1)
      BY <2>1, <2>2, <2>3, <2>5
    <3>2. booked = 1
      BY <2>4, <3>1
    <3> HIDE DEF booked
    <3>3. QED
      BY <1>1, <2>3, <2>5, <3>2
  <2>6. CASE sign = -1
    <3>1. booked = 0 % (MaxUint + 1)
      BY <2>1, <2>2, <2>3, <2>6
    <3>2. booked = 0
      BY <2>4, <3>1
    <3> HIDE DEF booked
    <3>3. QED
      BY <1>1, <2>3, <2>6, <3>2
  <2>7. QED
    BY <2>5, <2>6
<1>4. QED
  BY <1>2, <1>3 DEF BooksMatchCustody, IsNested

\* Making and breaking bonds, and calls out of a basket, keep the books true.
LEMMA BondStepBooks == Books /\ BondStep => BooksMatchCustody'
<1> SUFFICES ASSUME Books, BondStep PROVE BooksMatchCustody'
  OBVIOUS
<1> USE BasketFacts
<1>1. ASSUME NEW s \in People \cup Contracts, NEW p \in Nfts, NEW id \in ManagerIds, NEW y \in Nfts,
             NEW amount \in BondAmounts, CovalentBond(s, p, id, y, amount)
      PROVE  BooksMatchCustody'
  <2> DEFINE m == managerOf[id]
  <2>1. m \in Managers
    BY <1>1, EnabledManager DEF Books, BTypes, CovalentBond
  <2>2. /\ BookCounted(m, p, y, id, amount, 1)
        /\ owner' = [owner EXCEPT ![y] = BasketOf[m][p]]
        /\ owner[y] \notin Baskets
    BY <1>1 DEF CovalentBond, TransferToken
  <2> HIDE DEF m
  <2>3. 1 \in {1, -1} /\ 1 # -1
    OBVIOUS
  <2>4. QED
    BY <2>1, <2>2, <2>3, BookedMoves
<1>2. ASSUME NEW s \in People \cup Contracts, NEW receiver \in People, NEW p \in Nfts,
             NEW id \in ManagerIds, NEW y \in Nfts, NEW amount \in BondAmounts,
             BreakCovalentBond(s, receiver, p, id, y, amount)
      PROVE  BooksMatchCustody'
  <2> DEFINE m == managerOf[id]
  <2>1. m \in Managers
    BY <1>2, EnabledManager DEF Books, BTypes, BreakCovalentBond
  <2>2. /\ BookCounted(m, p, y, id, amount, -1)
        /\ owner' = [owner EXCEPT ![y] = receiver]
        /\ owner[y] = BasketOf[m][p] /\ receiver \notin Baskets
    BY <1>2 DEF BreakCovalentBond, WithdrawNft, IsNested
  <2> HIDE DEF m
  <2>3. -1 \in {1, -1} /\ 1 # -1
    OBVIOUS
  <2>4. QED
    BY <2>1, <2>2, <2>3, BookedMoves
<1>3. ASSUME NEW s \in People \cup Contracts, NEW receiver \in People, NEW p \in Nfts,
             NEW id \in ManagerIds, NEW y \in Nfts, ExecuteForBasket(s, receiver, p, id, y)
      PROVE  BooksMatchCustody'
  <2> DEFINE m == managerOf[id]
  <2>1. m \in Managers
    BY <1>3, EnabledManager DEF Books, BTypes, ExecuteForBasket
  <2>2. CASE Stray(m, p, y)
    <3>1. CASE owner' = owner /\ UNCHANGED count
      BY <2>2, <3>1, UnbookedMoves DEF Stray, IsNested
    <3>2. CASE /\ UNCHANGED count /\ owner' = [owner EXCEPT ![y] = receiver]
               /\ owner[y] = BasketOf[m][p] /\ receiver \notin Baskets
      <4> HIDE DEF m
      <4>1. QED
        BY <2>1, <2>2, <3>2, StrayMoves
    <3>3. QED
      BY <1>3, <3>1, <3>2 DEF ExecuteForBasket, WithdrawNft, Withdraw, IsNested
  <2>3. CASE UNCHANGED <<owner, count, strayed>>
    BY <2>3, UnbookedMoves DEF IsNested
  <2>4. QED
    BY <1>3, <2>2, <2>3 DEF ExecuteForBasket, Withdraw
<1>4. QED
  BY <1>1, <1>2, <1>3 DEF BondStep

\* Rescues, and NFTs sent to a basket's address, keep the books true.
LEMMA StrayStepBooks == Books /\ StrayStep => BooksMatchCustody'
<1> SUFFICES ASSUME Books, StrayStep PROVE BooksMatchCustody'
  OBVIOUS
<1> USE BasketFacts
<1>1. ASSUME NEW m \in Managers, NEW p \in Nfts, NEW y \in Nfts, SendToBasket(m, p, y)
      PROVE  BooksMatchCustody'
  <2>1. /\ UNCHANGED count /\ Stray(m, p, y)
        /\ owner' = [owner EXCEPT ![y] = BasketOf[m][p]]
        /\ owner[y] \notin Baskets
    BY <1>1 DEF SendToBasket, TransferToken
  <2>2. QED
    BY <2>1, StrayMoves
<1>2. ASSUME NEW m \in Managers, NEW p \in Nfts, NEW y \in Nfts, NEW receiver \in People,
             RescueERC721(m, p, y, receiver) \/ TakeAsOperator(m, p, y, receiver)
      PROVE  BooksMatchCustody'
  <2>1. /\ UNCHANGED count /\ Stray(m, p, y)
        /\ owner' = [owner EXCEPT ![y] = receiver]
        /\ owner[y] = BasketOf[m][p] /\ receiver \notin Baskets
    BY <1>2 DEF RescueERC721, TakeAsOperator, TransferToken, IsNested
  <2>2. QED
    BY <2>1, StrayMoves
<1>3. QED
  BY <1>1, <1>2, BondsAssumption DEF StrayStep

\* Every step keeps the books true.
LEMMA BooksStep == Books /\ [BNext]_bvars => BooksMatchCustody'
<1> SUFFICES ASSUME Books, [BNext]_bvars PROVE BooksMatchCustody'
  OBVIOUS
<1>1. CASE UNCHANGED <<owner, count, strayed>>
  BY <1>1, UnbookedMoves DEF IsNested
<1>2. ASSUME NEW y \in Nfts, NEW to \in People \cup {NullAddr}, TransferBetweenPeople(y, to)
      PROVE  BooksMatchCustody'
  <2>1. /\ owner' = [owner EXCEPT ![y] = to] /\ UNCHANGED <<count, strayed>>
        /\ owner[y] \notin Baskets /\ to \notin Baskets
    BY <1>2, BasketFacts DEF TransferBetweenPeople, TransferToken, bondVars
  <2>2. \A m \in Managers, n \in Nfts, x \in Nfts : IsNested(m, n, x)' <=> IsNested(m, n, x)
    BY <2>1, BasketFacts DEF IsNested, Books, TypeOK
  <2>3. QED
    BY <2>1, <2>2, UnbookedMoves
<1>3. QED
  BY <1>1, <1>2, BondStepBooks, StrayStepBooks, GateStepKeepsOwner, ManagersStepFrame
  DEF BNext, GateOnly, bvars, bondVars, hvars, vars

\* The books are true: an NFT that only ever went in and out by bonds of one
\* is counted exactly while its basket holds it.
THEOREM BooksTrue == BSpec => []BooksMatchCustody
<1>1. BInit => BooksMatchCustody
  BY BasketFacts DEF BInit, BooksMatchCustody, IsNested
<1>2. BSpec => []HTypeOK
  BY BondsImplementGate, TypeCorrect
<1>3. HTypeOK => TypeOK
  BY DEF HTypeOK
<1>4. BooksMatchCustody /\ BTypes /\ TypeOK /\ [BNext]_bvars => BooksMatchCustody'
  BY BooksStep DEF Books
<1>5. QED
  BY <1>1, <1>2, <1>3, <1>4, BTypesInvariant, PTL DEF BSpec
-----------------------------------------------------------------------------
(* The totals *)

\* A bond made or broken keeps the totals.
LEMMA BookingAddsUp ==
  ASSUME IsFiniteSet(Nfts), BondsTypeOK, TotalsAddUp, NEW m \in Managers, NEW n \in Nfts, NEW x \in Nfts,
         NEW id, NEW amount \in BondAmounts, NEW sign \in {1, -1}, BookCounted(m, n, x, id, amount, sign)
  PROVE  TotalsAddUp'
<1> DEFINE change == sign * Counted(id, amount)
           words == 0..MaxUint
           newTotal == (total[m][n] + change) % (MaxUint + 1)
           newCount == (count[m][n][x] + change) % (MaxUint + 1)
<1>1. change \in Int
  BY CountedIsNat
<1>2. /\ count \in [Managers -> [Nfts -> [Nfts -> words]]]
      /\ total \in [Managers -> [Nfts -> words]]
  BY DEF BondsTypeOK
<1>3. /\ count' = [count EXCEPT ![m][n][x] = newCount]
      /\ total' = [total EXCEPT ![m][n] = newTotal]
  BY DEF BookCounted, Book
<1> DEFINE f == count[m][n]
           g == [f EXCEPT ![x] = newCount]
<1>4. f \in [Nfts -> words]
  BY <1>2
<1>5. SumFunction(g) % (MaxUint + 1) = ((SumFunction(f) % (MaxUint + 1)) + change) % (MaxUint + 1)
  <2> DEFINE d == MaxUint + 1
  <2>1. d \in Nat \ {0} /\ \A y \in Nfts : f[y] \in Int
    BY <1>4, BondsAssumption
  <2>2. /\ DOMAIN f = Nfts /\ DOMAIN g = Nfts /\ g[x] = (f[x] + change) % d
        /\ \A y \in Nfts \ {x} : g[y] = f[y]
    BY <1>4
  <2> HIDE DEF change, d, f, g
  <2>3. SumFunctionOnSet(g, Nfts) % d = ((SumFunctionOnSet(f, Nfts) % d) + change) % d
    BY <1>1, <2>1, <2>2, SumWraps
  <2>4. QED
    BY <2>2, <2>3 DEF SumFunction, d
<1>6. total[m][n] = SumFunction(f) % (MaxUint + 1)
  BY DEF TotalsAddUp
<1> HIDE DEF change, newCount
<1>7. count'[m][n] = g /\ total'[m][n] = newTotal
  BY <1>2, <1>3
<1>8. total'[m][n] = SumFunction(count'[m][n]) % (MaxUint + 1)
  BY <1>5, <1>6, <1>7
<1>9. ASSUME NEW w \in Managers, NEW p \in Nfts, w # m \/ p # n
      PROVE  total'[w][p] = SumFunction(count'[w][p]) % (MaxUint + 1)
  <2> HIDE DEF newTotal
  <2>1. total'[w][p] = total[w][p] /\ count'[w][p] = count[w][p]
    BY <1>2, <1>3, <1>9
  <2>2. QED
    BY <2>1 DEF TotalsAddUp
<1>10. QED
  BY <1>8, <1>9 DEF TotalsAddUp

\* Every step either books one change or leaves the counters alone.
LEMMA BNextBooks ==
  ASSUME BTypes, [BNext]_bvars
  PROVE  \/ UNCHANGED <<count, total>>
         \/ \E m \in Managers, n \in Nfts, x \in Nfts, id \in ManagerIds, amount \in BondAmounts,
               sign \in {1, -1} : BookCounted(m, n, x, id, amount, sign)
<1>1. ASSUME NEW s, NEW n \in Nfts, NEW id \in ManagerIds, NEW x \in Nfts, NEW amount \in BondAmounts,
             CovalentBond(s, n, id, x, amount)
      PROVE  \E m \in Managers : BookCounted(m, n, x, id, amount, 1)
  BY <1>1, EnabledManager DEF BTypes, CovalentBond
<1>2. ASSUME NEW s, NEW receiver, NEW n \in Nfts, NEW id \in ManagerIds, NEW x \in Nfts,
             NEW amount \in BondAmounts, BreakCovalentBond(s, receiver, n, id, x, amount)
      PROVE  \E m \in Managers : BookCounted(m, n, x, id, amount, -1)
  BY <1>2, EnabledManager DEF BTypes, BreakCovalentBond
<1>3. 1 \in {1, -1} /\ -1 \in {1, -1}
  OBVIOUS
<1>4. CASE BondStep
  BY <1>1, <1>2, <1>3, <1>4 DEF BondStep, ExecuteForBasket
<1>5. QED
  BY <1>4 DEF BNext, GateOnly, StrayStep, SendToBasket, RescueERC721, TakeAsOperator,
              TransferBetweenPeople, bvars, bondVars

\* The total of a basket, which limits on NFTs are checked against, is the sum
\* of its counts per NFT, whatever amounts were passed and however the words
\* of GenericSmartBasketB wrapped.
THEOREM TotalsTrue ==
  ASSUME IsFiniteSet(Nfts)
  PROVE  BSpec => []TotalsAddUp
<1>1. BInit => TotalsAddUp
  <2> SUFFICES ASSUME BInit, NEW m \in Managers, NEW n \in Nfts
               PROVE  total[m][n] = SumFunction(count[m][n]) % (MaxUint + 1)
    BY DEF TotalsAddUp
  <2>1. total[m][n] = 0 /\ count[m][n] = [x \in Nfts |-> 0]
    BY DEF BInit
  <2>2. SumFunctionOnSet(count[m][n], Nfts) = Cardinality(Nfts) * 0
    BY <2>1, SumOfEqual
  <2>3. Cardinality(Nfts) * 0 = 0
    BY FS_CardinalityType
  <2>4. 0 % (MaxUint + 1) = 0
    BY BondsAssumption
  <2>5. QED
    BY <2>1, <2>2, <2>3, <2>4 DEF SumFunction
<1>2. TotalsAddUp /\ BTypes /\ [BNext]_bvars => TotalsAddUp'
  <2> SUFFICES ASSUME TotalsAddUp, BTypes, [BNext]_bvars PROVE TotalsAddUp'
    OBVIOUS
  <2>1. CASE UNCHANGED <<count, total>>
    BY <2>1 DEF TotalsAddUp
  <2>2. BondsTypeOK
    BY DEF BTypes
  <2>3. QED
    BY <2>1, <2>2, BNextBooks, BookingAddsUp
<1>3. QED
  BY <1>1, <1>2, BTypesInvariant, PTL DEF BSpec
=============================================================================
