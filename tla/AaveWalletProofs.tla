-------------------------- MODULE AaveWalletProofs --------------------------
(***************************************************************************)
(* What holds of AaveWallet for every set of assets, every percentage      *)
(* scale and ray, and all amounts.                                         *)
(***************************************************************************)
EXTENDS AaveWallet, NumberLemmas

-----------------------------------------------------------------------------
(* _getInterest *)

\* The largest percentage bounds them all.
LEMMA MostPctType ==
  /\ MostPct \in Nat
  /\ \A p \in PctChoices : p <= MostPct
  /\ MostPct <= PERCENTAGE_SCALE
<1>1. CASE PctChoices = {}
  BY <1>1, WalletAssumption DEF MostPct
<1>2. CASE PctChoices # {}
  <2>1. IsFiniteSet(PctChoices)
    <3>1. IsFiniteSet(0..PERCENTAGE_SCALE)
      BY WalletAssumption, FS_Interval
    <3> QED BY <3>1, FS_Subset, WalletAssumption
  <2>2. PctChoices \subseteq Int /\ \A p \in PctChoices : p \in Nat /\ p <= PERCENTAGE_SCALE
    BY WalletAssumption
  <2>3. Max(PctChoices) \in PctChoices /\ \A p \in PctChoices : Max(PctChoices) >= p
    BY <1>2, <2>1, <2>2, MaxOfFinite
  <2> QED BY <1>2, <2>2, <2>3, WalletAssumption DEF MostPct
<1> QED BY <1>1, <1>2

\* A rounded share of an amount, out of the percentage scale.
LEMMA ShareBounds ==
  ASSUME NEW x \in Nat, NEW p \in Nat, p <= MostPct
  PROVE  LET gross == (x * p) \div PERCENTAGE_SCALE
         IN /\ gross \in Nat /\ gross <= x
            /\ gross * PERCENTAGE_SCALE <= x * p
            /\ x * p <= MostPct * x
<1> DEFINE gross == (x * p) \div PERCENTAGE_SCALE
<1>1. x * p \in Nat /\ PERCENTAGE_SCALE \in Nat \ {0} /\ MostPct \in Nat /\ MostPct <= PERCENTAGE_SCALE
  BY WalletAssumption, MostPctType
<1>2. gross \in Nat /\ gross * PERCENTAGE_SCALE <= x * p
  BY <1>1, DivBounds
<1> HIDE DEF gross
<1>3. x * p <= MostPct * x
  <2>1. p * x <= MostPct * x
    BY <1>1, TimesMonotone
  <2> QED BY <1>1, <2>1
<1>4. gross * PERCENTAGE_SCALE <= x * PERCENTAGE_SCALE
  <2>1. MostPct * x <= PERCENTAGE_SCALE * x
    BY <1>1, TimesMonotone
  <2> QED BY <1>1, <1>2, <1>3, <2>1
<1>5. gross <= x
  BY <1>1, <1>2, <1>4, TimesCancel
<1> QED BY <1>1, <1>2, <1>3, <1>5 DEF gross

\* When _getInterest does not revert, it divides the interest in two parts; the
\* creator's, with what he took ahead, is within his percentage of the interest
\* and of what he took ahead.
LEMMA InterestParts ==
  ASSUME TypeOK, PctInv, NEW a \in Assets, InterestComputable(a)
  PROVE  /\ Interest(a) \in Nat /\ CreatorGross(a) \in Nat
         /\ CreatorInterest(a) \in Nat /\ OwnerInterest(a) \in Nat
         /\ CreatorInterest(a) + OwnerInterest(a) = Interest(a)
         /\ CreatorInterest(a) # 0 => CreatorInterest(a) + creatorDischarged = CreatorGross(a)
         /\ CreatorGross(a) * PERCENTAGE_SCALE <= (Interest(a) + creatorDischarged) * pct
         /\ CreatorGross(a) * PERCENTAGE_SCALE <= MostPct * (Interest(a) + creatorDischarged)
<1> DEFINE x == Interest(a) + creatorDischarged
<1>1. balance[a] \in Nat /\ principal[a] \in Nat /\ creatorDischarged \in Nat /\ pct \in Nat
  BY WalletAssumption DEF TypeOK
<1>2. Interest(a) \in Nat /\ x \in Nat
  BY <1>1 DEF Interest, InterestComputable
<1> HIDE DEF x
<1>3. pct <= MostPct
  BY DEF PctInv
<1>4. CreatorGross(a) = (x * pct) \div PERCENTAGE_SCALE
  BY DEF CreatorGross, x
<1>5. /\ CreatorGross(a) \in Nat /\ CreatorGross(a) <= x
      /\ CreatorGross(a) * PERCENTAGE_SCALE <= x * pct
      /\ x * pct <= MostPct * x
  BY <1>1, <1>2, <1>3, <1>4, ShareBounds
<1>6. CreatorInterest(a) \in Nat /\ CreatorInterest(a) <= Interest(a)
      /\ (CreatorInterest(a) # 0 => CreatorInterest(a) + creatorDischarged = CreatorGross(a))
  BY <1>1, <1>2, <1>5 DEF CreatorInterest, InterestComputable, x
<1>7. OwnerInterest(a) \in Nat /\ CreatorInterest(a) + OwnerInterest(a) = Interest(a)
  BY <1>2, <1>6 DEF OwnerInterest
<1>8. x * pct \in Int /\ MostPct * x \in Int /\ CreatorGross(a) * PERCENTAGE_SCALE \in Int
  BY <1>1, <1>2, <1>5, MostPctType, WalletAssumption
<1>9. CreatorGross(a) * PERCENTAGE_SCALE <= MostPct * x
  BY <1>5, <1>8
<1> QED BY <1>2, <1>5, <1>6, <1>7, <1>9 DEF x

-----------------------------------------------------------------------------
(* _withdraw *)

\* What a payment comes to, whichever branch of _withdraw makes it: cp goes to
\* the creator and rp to the receiver out of the interest, fp out of the
\* principal, and d remains of what the creator took ahead.  Either he is paid
\* and set off at most his percentage of what leaves, or the receiver gets
\* everything that was earned.
Payment(a, cp, rp, fp, d) ==
    /\ cp \in Nat /\ rp \in Nat /\ fp \in Nat /\ d \in Nat
    /\ Pay(a, cp, rp + fp)
    /\ principal' = [principal EXCEPT ![a] = @ - fp]
    /\ creatorDischarged' = d
    /\ cp + rp <= Interest(a) /\ fp <= principal[a] /\ d <= creatorDischarged
    /\ \/ /\ cp = 0 \/ d = 0
          /\ (cp + creatorDischarged - d) * PERCENTAGE_SCALE <= MostPct * (cp + creatorDischarged - d + rp)
       \/ cp = 0 /\ d = 0 /\ rp = Interest(a)

\* The creator's part of a partial payment of interest is in proportion: due is
\* to the amount as the creator's gross share is to the owner's interest.
LEMMA Proportion ==
  ASSUME NEW due \in Nat, NEW gross \in Nat, NEW amount \in Nat, NEW o \in Nat, NEW p \in Nat,
         NEW x \in Nat, amount < o, o = x - gross, p <= MostPct,
         due * o <= gross * amount, gross * PERCENTAGE_SCALE <= x * p
  PROVE  due <= gross /\ due * PERCENTAGE_SCALE <= MostPct * (due + amount)
<1> DEFINE S == PERCENTAGE_SCALE
<1>1. S \in Nat \ {0} /\ MostPct \in Nat /\ p <= S
  BY WalletAssumption, MostPctType
<1> HIDE DEF S
<1>2. due <= gross
  <2>1. gross * amount <= gross * o
    BY TimesMonotone
  <2>2. due * o <= gross * o
    BY <2>1
  <2> QED BY <2>2, TimesCancel
<1>3. gross * (S - p) <= p * o
  BY <1>1 DEF S
<1>4. due * (S - p) <= p * amount
  <2>1. (due * o) * (S - p) <= (gross * amount) * (S - p)
    BY <1>1, TimesMonotone
  <2>2. (gross * (S - p)) * amount <= (p * o) * amount
    BY <1>1, <1>3, TimesMonotone
  <2>3. (due * (S - p)) * o <= (p * amount) * o
    BY <1>1, <2>1, <2>2
  <2> QED BY <1>1, <2>3, TimesCancel
<1>5. due * S <= p * (due + amount)
  BY <1>1, <1>4
<1>6. p * (due + amount) <= MostPct * (due + amount)
  BY <1>1, TimesMonotone
<1>7. due * S \in Int /\ p * (due + amount) \in Int /\ MostPct * (due + amount) \in Int
  BY <1>1
<1> QED BY <1>2, <1>5, <1>6, <1>7 DEF S

\* Two roundings never give more than the exact proportion.
LEMMA RatioBounds ==
  ASSUME NEW gross \in Nat, NEW amount \in Nat, NEW o \in Nat \ {0}
  PROVE  LET ratio == (amount * RAY) \div o
             due == (gross * ratio) \div RAY
         IN due \in Nat /\ due * o <= gross * amount
<1> DEFINE ratio == (amount * RAY) \div o
           due == (gross * ratio) \div RAY
<1>1. RAY \in Nat \ {0} /\ amount * RAY \in Nat
  BY WalletAssumption
<1>2. ratio \in Nat /\ ratio * o <= amount * RAY
  BY <1>1, DivBounds
<1> HIDE DEF ratio
<1>3. gross * ratio \in Nat
  BY <1>2
<1>4. due \in Nat /\ due * RAY <= gross * ratio
  BY <1>1, <1>3, DivBounds
<1> HIDE DEF due
<1>5. (due * RAY) * o <= (gross * ratio) * o
  BY <1>1, <1>3, <1>4, TimesMonotone
<1>6. (ratio * o) * gross <= (amount * RAY) * gross
  BY <1>1, <1>2, TimesMonotone
<1>7. (due * o) * RAY <= (gross * amount) * RAY
  BY <1>1, <1>2, <1>4, <1>5, <1>6
<1>8. due * o <= gross * amount
  BY <1>1, <1>4, <1>7, TimesCancel
<1> QED BY <1>4, <1>8 DEF ratio, due

\* A payment of interest only.
LEMMA InterestPayment ==
  ASSUME TypeOK, PctInv, NEW a \in Assets, NEW amount \in Nat, InterestComputable(a),
         WithdrawInterest(a, amount)
  PROVE  \E cp, d \in Nat : Payment(a, cp, amount, 0, d)
<1> DEFINE c == CreatorInterest(a)
           o == OwnerInterest(a)
           D == creatorDischarged
           ratio == (amount * RAY) \div o
           due == ((c + D) * ratio) \div RAY
           off == IF c = 0 THEN 0 ELSE Min({due, D})
           cp == IF c = 0 THEN 0 ELSE due - off
<1>1. D \in Nat /\ principal \in [Assets -> Nat] /\ pct \in Nat /\ pct <= MostPct
  BY WalletAssumption DEF TypeOK, PctInv
<1>2. c \in Nat /\ o \in Nat /\ c + o = Interest(a) /\ Interest(a) \in Nat
  BY InterestParts
<1>3. amount < o /\ D' = D - off /\ Pay(a, cp, amount) /\ principal' = principal
  BY DEF WithdrawInterest
<1>4. o \in Nat \ {0} /\ c + D \in Nat /\ Interest(a) + D \in Nat
  BY <1>1, <1>2, <1>3
<1> HIDE DEF c, o
<1>5. due \in Nat /\ due * o <= (c + D) * amount
  BY <1>4, RatioBounds
<1>6. principal' = [principal EXCEPT ![a] = @ - 0] /\ 0 <= principal[a]
  BY <1>1, <1>3
<1>7. CASE c = 0
  <2>1. off = 0 /\ cp = 0
    BY <1>7
  <2> HIDE DEF c, o, ratio, due, off, cp
  <2>2. (0 + D - D) * PERCENTAGE_SCALE <= MostPct * (0 + D - D + amount)
    BY <1>1, MostPctType, WalletAssumption
  <2>3. amount + 0 = amount /\ 0 + amount <= Interest(a) /\ D <= D
    BY <1>1, <1>2, <1>3
  <2>5. creatorDischarged' = D /\ Pay(a, 0, amount + 0)
    BY <1>1, <1>3, <2>1, <2>3
  <2>4. Payment(a, 0, amount, 0, D)
    BY <1>1, <1>6, <2>2, <2>3, <2>5 DEF Payment
  <2> QED BY <1>1, <2>4
<1>8. CASE c # 0
  <2>1. (c + D) * PERCENTAGE_SCALE <= (Interest(a) + D) * pct /\ c + D = CreatorGross(a)
    BY <1>8, InterestParts DEF c
  <2>2. off \in Nat /\ off <= due /\ off <= D /\ (off = due \/ off = D)
    <3>1. Min({due, D}) \in {due, D} /\ Min({due, D}) <= due /\ Min({due, D}) <= D
      BY <1>1, <1>5, MinOfTwo
    <3> QED BY <1>1, <1>5, <1>8, <3>1
  <2>3. cp = due - off
    BY <1>8
  <2> HIDE DEF c, o, ratio, due, off, cp
  <2>4. o = (Interest(a) + D) - (c + D)
    BY <1>1, <1>2
  <2>5. due <= c + D /\ due * PERCENTAGE_SCALE <= MostPct * (due + amount)
    <3> DEFINE g == c + D
               x == Interest(a) + D
    <3>1. g \in Nat /\ x \in Nat /\ o = x - g /\ o \in Nat /\ amount < o
      BY <1>3, <1>4, <2>4
    <3>2. due * o <= g * amount /\ g * PERCENTAGE_SCALE <= x * pct
      BY <1>5, <2>1
    <3> HIDE DEF g, x, D
    <3>3. due <= g /\ due * PERCENTAGE_SCALE <= MostPct * (due + amount)
      BY <1>1, <1>5, <3>1, <3>2, Proportion
    <3> QED BY <3>3 DEF g
  <2>6. cp \in Nat /\ D - off \in Nat /\ (cp = 0 \/ D - off = 0) /\ cp + D - (D - off) = due
    BY <1>1, <1>5, <2>2, <2>3
  <2>7. cp + amount <= Interest(a)
    BY <1>1, <1>2, <1>3, <1>5, <2>2, <2>3, <2>5
  <2>8. amount + 0 = amount /\ D - off <= D
    BY <1>1, <2>2
  <2>9. Payment(a, cp, amount, 0, D - off)
    BY <1>3, <1>6, <2>5, <2>6, <2>7, <2>8 DEF Payment
  <2> QED BY <2>6, <2>9
<1> QED BY <1>7, <1>8

\* A payment of all the interest, and of principal when more is asked for.
LEMMA PrincipalPayment ==
  ASSUME TypeOK, PctInv, NEW a \in Assets, NEW amount \in Nat, InterestComputable(a),
         WithdrawPrincipal(a, amount)
  PROVE  \E cp, rp, fp, d \in Nat :
            Payment(a, cp, rp, fp, d) /\ (amount <= OwnerInterest(a) => fp = 0)
<1> DEFINE c == CreatorInterest(a)
           o == OwnerInterest(a)
           D == creatorDischarged
           wanted == amount - o
           fp == IF wanted > principal[a] THEN principal[a] - o ELSE wanted
<1>1. D \in Nat /\ principal[a] \in Nat
  BY DEF TypeOK
<1>2. c \in Nat /\ o \in Nat /\ c + o = Interest(a) /\ Interest(a) \in Nat
  BY InterestParts
<1>3. amount >= o /\ fp >= 0 /\ D' = 0 /\ Pay(a, c, o + fp)
      /\ principal' = [principal EXCEPT ![a] = @ - fp]
  BY DEF WithdrawPrincipal
<1>4. fp \in Nat /\ fp <= principal[a] /\ (amount <= o => fp = 0)
  BY <1>1, <1>2, <1>3
<1> HIDE DEF fp
<1>5. CASE c = 0
  <2>1. Payment(a, 0, o, fp, 0)
    BY <1>1, <1>2, <1>3, <1>4, <1>5 DEF Payment
  <2> QED BY <1>2, <1>4, <2>1
<1>6. CASE c # 0
  <2>1. (c + D) * PERCENTAGE_SCALE <= MostPct * (Interest(a) + D)
    BY <1>6, InterestParts
  <2>2. c + D - 0 = c + D /\ c + D - 0 + o = Interest(a) + D /\ c + o <= Interest(a) /\ 0 <= D
    BY <1>1, <1>2
  <2> HIDE DEF c, o
  <2>3. Payment(a, c, o, fp, 0)
    BY <1>2, <1>3, <1>4, <2>1, <2>2 DEF Payment
  <2> QED BY <1>2, <1>4, <2>3 DEF o
<1> QED BY <1>5, <1>6

\* Both branches of _withdraw are payments; only asking for more than the
\* owner's interest touches the principal.
LEMMA WithdrawPays ==
  ASSUME TypeOK, PctInv, NEW a \in Assets, NEW amount \in Nat, InterestComputable(a),
         WithdrawAmount(a, amount)
  PROVE  \E cp, rp, fp, d \in Nat :
            Payment(a, cp, rp, fp, d) /\ (amount <= OwnerInterest(a) => fp = 0)
<1>1. CASE WithdrawInterest(a, amount)
  BY <1>1, InterestPayment
<1>2. CASE WithdrawPrincipal(a, amount)
  BY <1>2, PrincipalPayment
<1> QED BY <1>1, <1>2 DEF WithdrawAmount

-----------------------------------------------------------------------------
(* The inductive invariant *)

\* The books are typed, nothing is paid twice or out of the principal, and the
\* creator is paid out of interest, if there is one.
WalletInv ==
    /\ TypeOK
    /\ Conservation
    /\ PrincipalCovered
    /\ PaidFromInterest
    /\ NoCreatorNoShare
    /\ PctInv

LEMMA WalletInit == Init => WalletInv
<1> SUFFICES ASSUME Init PROVE WalletInv
  OBVIOUS
<1> USE WalletAssumption, MostPctType DEF Init, Zero
<1>1. TypeOK
  <2>1. 0 \in 0..PERCENTAGE_SCALE
    OBVIOUS
  <2>2. NoEvent \in [name : {"none", "energized", "discharged", "dischargedForCreator", "released"},
                     asset : Assets \cup {"none"}, principal : Nat]
    BY DEF NoEvent
  <2> QED BY <2>1, <2>2 DEF TypeOK
<1>2. Conservation /\ PrincipalCovered
  BY DEF Conservation, PrincipalCovered
<1>3. PaidFromInterest /\ NoCreatorNoShare /\ PctInv
  BY DEF PaidFromInterest, NoCreatorNoShare, PctInv, Interest
<1> QED BY <1>1, <1>2, <1>3 DEF WalletInv

\* A payment keeps the books: both parts come out of the interest.
LEMMA PaymentKeepsBooks ==
  ASSUME WalletInv, NEW a \in Assets, Interest(a) \in Nat,
         NEW cp, NEW rp, NEW fp, NEW d, Payment(a, cp, rp, fp, d),
         UNCHANGED <<exists, pct, flows>>,
         lastEvent' \in [name : {"none", "energized", "discharged", "dischargedForCreator", "released"},
                         asset : Assets \cup {"none"}, principal : Nat]
  PROVE  WalletInv'
<1> USE DEF WalletInv, flows
<1>1. /\ cp \in Nat /\ rp \in Nat /\ fp \in Nat /\ d \in Nat
      /\ cp + rp <= Interest(a) /\ fp <= principal[a] /\ d <= creatorDischarged
      /\ creatorDischarged' = d
      /\ principal' = [principal EXCEPT ![a] = @ - fp]
  BY DEF Payment
<1>2. /\ balance' = [balance EXCEPT ![a] = @ - (cp + (rp + fp))]
      /\ paidCreator' = [paidCreator EXCEPT ![a] = IF HasCreator THEN @ + cp ELSE @]
      /\ paidOwner' = [paidOwner EXCEPT ![a] = @ + (rp + fp) + (IF HasCreator THEN 0 ELSE cp)]
  BY DEF Payment, Pay
<1>3. TypeOK'
  BY <1>1, <1>2 DEF TypeOK, Interest
<1>4. Conservation'
  BY <1>1, <1>2 DEF TypeOK, Conservation
<1>5. PrincipalCovered'
  BY <1>1, <1>2 DEF TypeOK, PrincipalCovered, Interest
<1>6. PaidFromInterest'
  BY <1>1, <1>2 DEF TypeOK, PaidFromInterest, Interest
<1>7. NoCreatorNoShare'
  BY <1>1, <1>2 DEF TypeOK, NoCreatorNoShare
<1>8. PctInv'
  BY DEF PctInv, MostPct
<1> QED BY <1>3, <1>4, <1>5, <1>6, <1>7, <1>8

\* What the creator takes ahead comes out of the interest too.
LEMMA AdvanceKeepsBooks ==
  ASSUME WalletInv, NEW a \in Assets, NEW amount \in Nat, DischargeAmountForCreator(a, amount)
  PROVE  WalletInv'
<1> USE DEF WalletInv, flows
<1>1. Interest(a) \in Nat /\ amount <= Interest(a)
  BY InterestParts DEF DischargeAmountForCreator
<1>2. /\ creatorDischarged' = creatorDischarged + amount
      /\ balance' = [balance EXCEPT ![a] = @ - amount]
      /\ paidCreator' = [paidCreator EXCEPT ![a] = @ + amount]
      /\ UNCHANGED <<principal, paidOwner, exists, pct, deposited, accrued, executed>>
      /\ HasCreator
      /\ lastEvent' = [name |-> "dischargedForCreator", asset |-> a, principal |-> 0]
  BY DEF DischargeAmountForCreator, WithdrawForCreator, Emit
<1>3. TypeOK'
  BY <1>1, <1>2 DEF TypeOK, Interest
<1>4. Conservation'
  BY <1>1, <1>2 DEF TypeOK, Conservation
<1>5. PrincipalCovered'
  BY <1>1, <1>2 DEF TypeOK, PrincipalCovered, Interest
<1>6. PaidFromInterest'
  BY <1>1, <1>2 DEF TypeOK, PaidFromInterest, Interest
<1>7. NoCreatorNoShare' /\ PctInv'
  BY <1>2 DEF NoCreatorNoShare, PctInv, MostPct
<1> QED BY <1>3, <1>4, <1>5, <1>6, <1>7

\* Which payments the entry points make: discharges leave the principal alone.
LEMMA EntryPays ==
  ASSUME WalletInv, NEW a \in Assets, NEW amount \in Nat,
         Discharge(a) \/ DischargeAmount(a, amount) \/ Release(a) \/ ReleaseAmount(a, amount)
  PROVE  /\ InterestComputable(a) /\ Interest(a) \in Nat
         /\ \E cp, rp, fp, d \in Nat :
               Payment(a, cp, rp, fp, d) /\ (lastEvent'.name = "discharged" => fp = 0)
         /\ UNCHANGED <<exists, pct, flows>>
         /\ lastEvent' \in [name : {"discharged", "released"}, asset : {a}, principal : Nat]
<1> USE DEF WalletInv
<1>1. amount \in Nat /\ principal[a] \in Nat
  BY WalletAssumption DEF TypeOK
<1>2. InterestComputable(a)
  BY DEF Discharge, DischargeAmount, Release, ReleaseAmount
<1>3. Interest(a) \in Nat /\ OwnerInterest(a) \in Nat
  BY <1>2, InterestParts
<1>4. ASSUME Discharge(a) \/ DischargeAmount(a, amount) PROVE
         /\ \E x \in Nat : WithdrawAmount(a, x) /\ x <= OwnerInterest(a)
         /\ lastEvent' = [name |-> "discharged", asset |-> a, principal |-> 0]
         /\ UNCHANGED <<exists, pct, flows>>
  BY <1>1, <1>3, <1>4 DEF Discharge, DischargeAmount, Emit
<1>5. ASSUME Release(a) PROVE
         /\ \E x \in Nat : WithdrawAmount(a, x)
         /\ lastEvent' = [name |-> "released", asset |-> a, principal |-> principal[a]]
         /\ UNCHANGED <<exists, pct, flows>>
  BY <1>1, <1>3, <1>5 DEF Release, Emit
<1>6. ASSUME ReleaseAmount(a, amount) PROVE
         /\ \E x \in Nat : WithdrawAmount(a, x)
         /\ \E p \in Nat : lastEvent' = [name |-> "released", asset |-> a, principal |-> p]
         /\ UNCHANGED <<exists, pct, flows>>
  BY <1>1, <1>3, <1>6 DEF ReleaseAmount, Emit
<1>7. CASE Discharge(a) \/ DischargeAmount(a, amount)
  BY <1>2, <1>3, <1>4, <1>7, WithdrawPays
<1>8. CASE Release(a)
  BY <1>1, <1>2, <1>3, <1>5, <1>8, WithdrawPays
<1>9. CASE ReleaseAmount(a, amount)
  BY <1>1, <1>2, <1>3, <1>6, <1>9, WithdrawPays
<1> QED BY <1>7, <1>8, <1>9

\* Every step keeps the books.
LEMMA WalletNext == WalletInv /\ [Next]_vars => WalletInv'
<1> SUFFICES ASSUME WalletInv, [Next]_vars PROVE WalletInv'
  OBVIOUS
<1> USE WalletAssumption DEF flows, paid, books
<1>1. ASSUME NEW a \in Assets, NEW amount \in AmountChoices, Energize(a, amount) PROVE WalletInv'
  <2> USE <1>1 DEF WalletInv, Energize
  <2>0. amount \in Nat
    OBVIOUS
  <2>1. TypeOK'
    BY <2>0 DEF TypeOK, Emit
  <2>2. Conservation'
    BY <2>0 DEF TypeOK, Conservation
  <2>4. PrincipalCovered'
    BY <2>0 DEF TypeOK, PrincipalCovered
  <2>3. PaidFromInterest' /\ NoCreatorNoShare' /\ PctInv'
    BY <2>0 DEF TypeOK, PaidFromInterest, NoCreatorNoShare, PctInv, Interest, MostPct
  <2> QED BY <2>1, <2>2, <2>3, <2>4
<1>2. ASSUME NEW a \in Assets, NEW amount \in Nat,
             Discharge(a) \/ DischargeAmount(a, amount) \/ Release(a) \/ ReleaseAmount(a, amount)
      PROVE  WalletInv'
  BY <1>2, EntryPays, PaymentKeepsBooks
<1>3. ASSUME NEW a \in Assets, NEW amount \in AmountChoices, DischargeAmountForCreator(a, amount)
      PROVE  WalletInv'
  BY <1>3, AdvanceKeepsBooks
<1>4. ASSUME NEW a \in Assets, NEW amount \in AmountChoices, Accrue(a, amount) PROVE WalletInv'
  <2> USE <1>4 DEF WalletInv, Accrue
  <2>0. amount \in Nat
    OBVIOUS
  <2>1. TypeOK'
    BY <2>0 DEF TypeOK, NoEvent
  <2>2. Conservation'
    BY <2>0 DEF TypeOK, Conservation
  <2>4. PrincipalCovered'
    BY <2>0 DEF TypeOK, PrincipalCovered
  <2>3. PaidFromInterest' /\ NoCreatorNoShare' /\ PctInv'
    BY <2>0 DEF TypeOK, PaidFromInterest, NoCreatorNoShare, PctInv, Interest, MostPct
  <2> QED BY <2>1, <2>2, <2>3, <2>4
<1>5. ASSUME NEW a \in Assets, NEW amount \in ExecuteChoices, ExecuteForAccount(a, amount) PROVE WalletInv'
  <2> USE <1>5 DEF WalletInv, ExecuteForAccount
  <2>0. amount \in Nat
    OBVIOUS
  <2>1. TypeOK'
    BY <2>0 DEF TypeOK, NoEvent
  <2>2. Conservation'
    BY <2>0 DEF TypeOK, Conservation
  <2>4. PrincipalCovered'
    BY <2>0 DEF TypeOK, PrincipalCovered
  <2>3. PaidFromInterest' /\ NoCreatorNoShare' /\ PctInv'
    BY <2>0 DEF TypeOK, PaidFromInterest, NoCreatorNoShare, PctInv, Interest, MostPct
  <2> QED BY <2>1, <2>2, <2>3, <2>4
<1>6. ASSUME NEW a \in Assets, RefreshPrincipal(a) PROVE WalletInv'
  <2> USE <1>6 DEF WalletInv, RefreshPrincipal
  <2>1. TypeOK'
    BY DEF TypeOK, NoEvent
  <2>2. Conservation' /\ PrincipalCovered'
    BY DEF TypeOK, Conservation, PrincipalCovered
  <2>3. PaidFromInterest' /\ NoCreatorNoShare' /\ PctInv'
    BY DEF TypeOK, PaidFromInterest, NoCreatorNoShare, PctInv, Interest, MostPct
  <2> QED BY <2>1, <2>2, <2>3
<1>7. ASSUME NEW p \in PctChoices, SetCreatorAnnuities(p) PROVE WalletInv'
  <2> USE <1>7 DEF WalletInv, SetCreatorAnnuities
  <2>1. TypeOK'
    BY DEF TypeOK, NoEvent
  <2>2. Conservation' /\ PrincipalCovered' /\ PaidFromInterest' /\ NoCreatorNoShare'
    BY DEF Conservation, PrincipalCovered, PaidFromInterest, NoCreatorNoShare, Interest
  <2>3. PctInv'
    BY MostPctType DEF PctInv, MostPct
  <2> QED BY <2>1, <2>2, <2>3
<1>8. CASE UNCHANGED vars
  BY <1>8 DEF WalletInv, vars, TypeOK, Conservation, PrincipalCovered, PaidFromInterest,
              NoCreatorNoShare, PctInv, Interest, MostPct
<1>9. AmountChoices \subseteq Nat /\ 0 \in Nat
  OBVIOUS
<1> QED BY <1>1, <1>2, <1>3, <1>4, <1>5, <1>6, <1>7, <1>8, <1>9 DEF Next

LEMMA WalletInvariant == Spec => []WalletInv
<1> QED BY WalletInit, WalletNext, PTL DEF Spec

\* The wallet's books are typed: no subtraction that the code lets through goes
\* below zero (SafeMath's sub in AaveSmartWalletB.sol).
THEOREM WalletTypeCorrect == Spec => []TypeOK
<1>1. WalletInv => TypeOK
  BY DEF WalletInv
<1> QED BY <1>1, WalletInvariant, PTL

\* Whatever was put in or grew is in the wallet or went to exactly one party
\* (_withdraw, _withdrawForCreator, executeForAccount).
THEOREM TokensConserved == Spec => []Conservation
<1>1. WalletInv => Conservation
  BY DEF WalletInv
<1> QED BY <1>1, WalletInvariant, PTL

\* Only an executed call can take tokens that back the principal.
THEOREM PrincipalBacked == Spec => []PrincipalCovered
<1>1. WalletInv => PrincipalCovered
  BY DEF WalletInv
<1> QED BY <1>1, WalletInvariant, PTL

\* The creator is never paid out of deposits, for any number of assets that
\* share the one number of what he took ahead (_getInterest).
THEOREM DepositsStayOwners == Spec => []DepositsBelongToOwner
<1>1. WalletInv => DepositsBelongToOwner
  BY DEF WalletInv, PaidFromInterest, DepositsBelongToOwner
<1> QED BY <1>1, WalletInvariant, PTL

-----------------------------------------------------------------------------
(* Action properties *)

\* Discharging interest leaves the principal and what backs it alone.
THEOREM DischargesAreInterest == Spec => DischargeKeepsPrincipal
<1>1. WalletInv /\ [Next]_vars => [DischargeKeeps]_vars
  <2> SUFFICES ASSUME WalletInv, [Next]_vars PROVE DischargeKeeps \/ UNCHANGED vars
    OBVIOUS
  <2> USE DEF WalletInv
  <2>0. AmountChoices \subseteq Nat /\ 0 \in Nat
    BY WalletAssumption
  <2>1. ASSUME NEW a \in Assets, NEW amount \in Nat,
               Discharge(a) \/ DischargeAmount(a, amount) \/ Release(a) \/ ReleaseAmount(a, amount)
        PROVE  DischargeKeeps
    <3>1. SUFFICES ASSUME lastEvent'.name \in {"discharged", "dischargedForCreator"} PROVE DischargeKeeps
      BY DEF DischargeKeeps
    <3>2. lastEvent'.name = "discharged" /\ Interest(a) \in Nat
      BY <2>1, <3>1, EntryPays
    <3>3. PICK cp, rp, fp, d \in Nat : Payment(a, cp, rp, fp, d) /\ fp = 0
      BY <2>1, <3>2, EntryPays
    <3>4. principal' = [principal EXCEPT ![a] = @ - 0] /\ balance' = [balance EXCEPT ![a] = @ - (cp + (rp + 0))]
          /\ cp + rp <= Interest(a)
      BY <3>3 DEF Payment, Pay
    <3>5. principal' = principal
      BY <3>4 DEF TypeOK
    <3>6. \A b \in Assets : balance[b] >= principal[b] => balance'[b] >= principal[b]
      BY <3>2, <3>3, <3>4 DEF TypeOK, Interest
    <3> QED BY <3>5, <3>6 DEF DischargeKeeps
  <2>2. ASSUME NEW a \in Assets, NEW amount \in Nat, DischargeAmountForCreator(a, amount) PROVE DischargeKeeps
    <3>1. principal' = principal /\ balance' = [balance EXCEPT ![a] = @ - amount]
      BY <2>2 DEF DischargeAmountForCreator, WithdrawForCreator
    <3>2. Interest(a) \in Nat /\ amount <= Interest(a)
      BY <2>2, InterestParts DEF DischargeAmountForCreator
    <3>3. \A b \in Assets : balance[b] >= principal[b] => balance'[b] >= principal[b]
      BY <3>1, <3>2 DEF TypeOK, Interest
    <3> QED BY <3>1, <3>3 DEF DischargeKeeps
  <2>3. ASSUME NEW a, NEW amount,
               Energize(a, amount) \/ Accrue(a, amount) \/ ExecuteForAccount(a, amount)
                  \/ RefreshPrincipal(a) \/ SetCreatorAnnuities(amount)
        PROVE  DischargeKeeps
    BY <2>3 DEF Energize, Emit, Accrue, ExecuteForAccount, RefreshPrincipal, SetCreatorAnnuities, NoEvent, DischargeKeeps
  <2> QED BY <2>0, <2>1, <2>2, <2>3 DEF Next
<1> QED BY <1>1, WalletInvariant, PTL DEF Spec, DischargeKeepsPrincipal

-----------------------------------------------------------------------------
(* The creator's share of one asset *)

\* A payment keeps the creator's share within the percentage.
LEMMA PaymentKeepsShare ==
  ASSUME WalletInv, WalletInv', Assets # {}, NEW a \in Assets, Interest(a) \in Nat, ShareOf(a), HasCreator,
         NEW cp, NEW rp, NEW fp, NEW d, Payment(a, cp, rp, fp, d), accrued' = accrued
  PROVE  ShareOf(a)'
<1> DEFINE P == paidCreator[a]
           D == creatorDischarged
           A == accrued[a]
           I == Interest(a)
           S == PERCENTAGE_SCALE
           M == MostPct
           off == D - d
<1>1. /\ P \in Nat /\ D \in Nat /\ A \in Nat /\ I \in Nat /\ S \in Nat \ {0} /\ M \in Nat
  BY MostPctType, WalletAssumption DEF WalletInv, TypeOK
<1>2. /\ cp \in Nat /\ rp \in Nat /\ fp \in Nat /\ d \in Nat /\ cp + rp <= I /\ d <= D
      /\ \/ (cp = 0 \/ d = 0) /\ (cp + D - d) * S <= M * (cp + D - d + rp)
         \/ cp = 0 /\ d = 0 /\ rp = I
  BY DEF Payment
<1>3. P * S <= M * A /\ (P - D) * S <= M * (A - D - I) /\ (P - D) * S <= M * (A - D)
  BY DEF ShareOf
<1>4. paidCreator'[a] = P + cp /\ creatorDischarged' = d /\ accrued'[a] = A /\ MostPct' = M
  BY DEF Payment, Pay, WalletInv, TypeOK, MostPct
<1>5. Interest(a)' = I - cp - rp
  BY <1>2 DEF Payment, Pay, Interest, WalletInv, TypeOK
<1> HIDE DEF P, D, A, I, S, M
<1>6. /\ (P + cp) * S <= M * A
      /\ (P + cp - d) * S <= M * (A - d)
      /\ (P + cp - d) * S <= M * (A - d - (I - cp - rp))
  <2>1. CASE cp = 0 /\ d = 0 /\ rp = I
    BY <1>1, <1>3, <2>1
  <2>2. CASE (cp = 0 \/ d = 0) /\ (cp + D - d) * S <= M * (cp + D - d + rp)
    <3>1. (P + cp - d) * S <= M * (A - d - (I - cp - rp))
      BY <1>1, <1>2, <1>3, <2>2
    <3>2. M * (A - d - (I - cp - rp)) <= M * (A - d)
      <4>1. M * (A - d) = M * (A - d - (I - cp - rp)) + M * (I - cp - rp) /\ I - cp - rp \in Nat
        BY <1>1, <1>2
      <4> QED BY <1>1, <1>2, <4>1
    <3>3. (P + cp - d) * S <= M * (A - d)
      BY <1>1, <1>2, <3>1, <3>2
    <3>4. CASE cp = 0
      BY <1>1, <1>3, <3>1, <3>3, <3>4
    <3>5. CASE d = 0
      BY <1>1, <1>2, <3>1, <3>3, <3>5
    <3> QED BY <2>2, <3>4, <3>5
  <2> QED BY <1>2, <2>1, <2>2
<1>8. /\ paidCreator'[a] * S <= M * accrued'[a]
      /\ (paidCreator'[a] - creatorDischarged') * S <= M * (accrued'[a] - creatorDischarged')
      /\ (paidCreator'[a] - creatorDischarged') * S <= M * (accrued'[a] - creatorDischarged' - Interest(a)')
  BY <1>1, <1>2, <1>4, <1>5, <1>6
<1> QED BY <1>8 DEF ShareOf, S, M, MostPct

\* What the creator takes ahead keeps his share within the percentage.
LEMMA AdvanceKeepsShare ==
  ASSUME WalletInv, NEW a \in Assets, ShareOf(a), NEW amount \in Nat, DischargeAmountForCreator(a, amount)
  PROVE  ShareOf(a)'
<1> DEFINE P == paidCreator[a]
           D == creatorDischarged
           A == accrued[a]
           I == Interest(a)
           S == PERCENTAGE_SCALE
           M == MostPct
           g == CreatorGross(a)
<1>1. /\ P \in Nat /\ D \in Nat /\ A \in Nat /\ S \in Nat \ {0} /\ M \in Nat
  BY MostPctType, WalletAssumption DEF WalletInv, TypeOK
<1>2. InterestComputable(a) /\ amount <= CreatorInterest(a)
  BY DEF DischargeAmountForCreator
<1>3. /\ I \in Nat /\ g \in Nat /\ CreatorInterest(a) \in Nat
      /\ g * S <= M * (I + D)
      /\ CreatorInterest(a) # 0 => CreatorInterest(a) + D = g
  BY <1>2, InterestParts DEF WalletInv
<1>4. P * S <= M * A /\ (P - D) * S <= M * (A - D - I) /\ (P - D) * S <= M * (A - D)
  BY DEF ShareOf
<1>5. /\ paidCreator'[a] = P + amount /\ creatorDischarged' = D + amount /\ accrued'[a] = A
      /\ Interest(a)' = I - amount
  BY DEF DischargeAmountForCreator, WithdrawForCreator, flows, Interest, WalletInv, TypeOK
<1> HIDE DEF P, D, A, I, S, M, g
<1>6. amount = 0 \/ D + amount <= g
  BY <1>1, <1>2, <1>3
<1>7. /\ (P + amount) * S <= M * A
      /\ (P + amount - (D + amount)) * S <= M * (A - (D + amount) - (I - amount))
      /\ (P + amount - (D + amount)) * S <= M * (A - (D + amount))
  <2>1. CASE amount = 0
    BY <1>1, <1>3, <1>4, <2>1
  <2>2. CASE D + amount <= g
    <3>1. (D + amount) * S <= g * S
      BY <1>1, <1>3, <2>2, TimesMonotone
    <3>2. (D + amount) * S <= M * (I + D)
      BY <1>1, <1>3, <3>1
    <3>3. (P - D) * S + (D + amount) * S <= M * A
      BY <1>1, <1>3, <1>4, <3>2
    <3>4. (P + amount) * S <= M * A
      BY <1>1, <3>3
    <3>5. P + amount - (D + amount) = P - D /\ A - (D + amount) - (I - amount) = A - D - I
      BY <1>1, <1>3
    <3>6. I - amount \in Nat
      BY <1>2, <1>3, InterestParts DEF WalletInv, I
    <3>7. M * (A - D - I) <= M * (A - (D + amount))
      <4>1. M * (A - (D + amount)) = M * (A - D - I) + M * (I - amount) /\ M * (I - amount) \in Nat
        BY <1>1, <1>3, <3>6
      <4> QED BY <1>1, <1>3, <4>1
    <3> QED BY <1>1, <1>3, <1>4, <3>4, <3>5, <3>7
  <2> QED BY <1>6, <2>1, <2>2
<1>8. /\ paidCreator'[a] * S <= M * accrued'[a]
      /\ (paidCreator'[a] - creatorDischarged') * S <= M * (accrued'[a] - creatorDischarged')
      /\ (paidCreator'[a] - creatorDischarged') * S <= M * (accrued'[a] - creatorDischarged' - Interest(a)')
  BY <1>1, <1>3, <1>5, <1>7
<1> QED BY <1>8 DEF ShareOf, S, M, MostPct

\* A step that pays nobody keeps the share if interest that is still there does
\* not grow by more than what accrues.
LEMMA OtherStepKeepsShare ==
  ASSUME WalletInv, WalletInv', NEW a \in Assets, ShareOf(a), UNCHANGED <<creatorDischarged, paidCreator>>,
         NEW x \in Nat, accrued'[a] = accrued[a] + x,
         Interest(a)' <= Interest(a) + x \/ Interest(a)' <= 0
  PROVE  ShareOf(a)'
<1> DEFINE P == paidCreator[a]
           D == creatorDischarged
           A == accrued[a]
           I == Interest(a)
           J == Interest(a)'
           S == PERCENTAGE_SCALE
           M == MostPct
<1>1. P \in Nat /\ D \in Nat /\ A \in Nat /\ I \in Int /\ J \in Int /\ S \in Nat \ {0} /\ M \in Nat
  BY MostPctType, WalletAssumption DEF WalletInv, TypeOK, Interest
<1>2. P * S <= M * A /\ (P - D) * S <= M * (A - D - I) /\ (P - D) * S <= M * (A - D)
  BY DEF ShareOf
<1>3. paidCreator'[a] = P /\ creatorDischarged' = D /\ accrued'[a] = A + x /\ (J <= I + x \/ J <= 0)
  OBVIOUS
<1> HIDE DEF P, D, A, I, S, M, J
<1>4. M * x \in Nat /\ M * (A + x) = M * A + M * x /\ M * (A + x - D) = M * (A - D) + M * x
  BY <1>1
<1>5. (P - D) * S <= M * (A + x - D - J)
  <2>1. CASE J <= I + x
    <3>1. M * (A + x - D - J) = M * (A - D - I) + M * (I + x - J) /\ M * (I + x - J) \in Nat
      BY <1>1, <2>1
    <3> QED BY <1>1, <1>2, <3>1
  <2>2. CASE J <= 0
    <3>1. M * (A + x - D - J) = M * (A + x - D) + M * (0 - J) /\ M * (0 - J) \in Nat
      BY <1>1, <2>2
    <3> QED BY <1>1, <1>2, <1>4, <3>1
  <2> QED BY <1>3, <2>1, <2>2
<1>6. /\ paidCreator'[a] * S <= M * accrued'[a]
      /\ (paidCreator'[a] - creatorDischarged') * S <= M * (accrued'[a] - creatorDischarged')
      /\ (paidCreator'[a] - creatorDischarged') * S <= M * (accrued'[a] - creatorDischarged' - J)
  BY <1>1, <1>2, <1>3, <1>4, <1>5
<1> QED BY <1>6 DEF ShareOf, S, M, J, MostPct

\* With one asset, every step keeps the creator's share within the percentage.
LEMMA ShareNext ==
  ASSUME WalletInv, WalletInv', NEW a, Assets = {a}, ShareOf(a), [Next]_vars
  PROVE  ShareOf(a)'
<1> USE WalletAssumption DEF flows, paid, books
<1>1. CASE ~HasCreator
  <2>1. creatorDischarged' = 0 /\ paidCreator'[a] = 0
    BY <1>1 DEF WalletInv, NoCreatorNoShare
  <2>2. accrued'[a] \in Nat /\ Interest(a)' \in Int /\ accrued'[a] - Interest(a)' >= 0 /\ MostPct \in Nat
    BY <2>1, MostPctType DEF WalletInv, PaidFromInterest, TypeOK, Interest
  <2>3. MostPct * accrued'[a] \in Nat /\ MostPct * (accrued'[a] - Interest(a)') \in Nat
    BY <2>2
  <2>4. /\ paidCreator'[a] * PERCENTAGE_SCALE = 0
        /\ (paidCreator'[a] - creatorDischarged') * PERCENTAGE_SCALE = 0
        /\ accrued'[a] - creatorDischarged' = accrued'[a]
        /\ accrued'[a] - creatorDischarged' - Interest(a)' = accrued'[a] - Interest(a)'
    BY <2>1, <2>2
  <2>5. /\ paidCreator'[a] * PERCENTAGE_SCALE <= MostPct * accrued'[a]
        /\ (paidCreator'[a] - creatorDischarged') * PERCENTAGE_SCALE <= MostPct * (accrued'[a] - creatorDischarged')
        /\ (paidCreator'[a] - creatorDischarged') * PERCENTAGE_SCALE
              <= MostPct * (accrued'[a] - creatorDischarged' - Interest(a)')
    BY <2>3, <2>4
  <2> QED BY <2>5 DEF ShareOf, MostPct
<1>2. CASE HasCreator
  <2>0. AmountChoices \subseteq Nat /\ 0 \in Nat /\ a \in Assets
    OBVIOUS
  <2>1. ASSUME NEW amount \in Nat,
               Discharge(a) \/ DischargeAmount(a, amount) \/ Release(a) \/ ReleaseAmount(a, amount)
        PROVE  ShareOf(a)'
    BY <1>2, <2>0, <2>1, EntryPays, PaymentKeepsShare
  <2>2. ASSUME NEW amount \in Nat, DischargeAmountForCreator(a, amount) PROVE ShareOf(a)'
    BY <2>0, <2>2, AdvanceKeepsShare
  <2>3. ASSUME NEW amount \in Nat, Energize(a, amount) PROVE ShareOf(a)'
    <3>1. accrued'[a] = accrued[a] + 0 /\ Interest(a)' <= Interest(a) + 0
      BY <2>3 DEF Energize, Interest, WalletInv, TypeOK
    <3> QED BY <2>0, <2>3, <3>1, OtherStepKeepsShare DEF Energize
  <2>4. ASSUME NEW amount \in Nat, Accrue(a, amount) PROVE ShareOf(a)'
    <3>1. accrued'[a] = accrued[a] + amount /\ Interest(a)' <= Interest(a) + amount
      BY <2>4 DEF Accrue, Interest, WalletInv, TypeOK
    <3> QED BY <2>0, <2>4, <3>1, OtherStepKeepsShare DEF Accrue
  <2>5. ASSUME NEW amount \in Nat, ExecuteForAccount(a, amount) PROVE ShareOf(a)'
    <3>1. accrued'[a] = accrued[a] + 0 /\ Interest(a)' <= Interest(a) + 0
      BY <2>5 DEF ExecuteForAccount, Interest, WalletInv, TypeOK
    <3> QED BY <2>0, <2>5, <3>1, OtherStepKeepsShare DEF ExecuteForAccount
  <2>6. ASSUME RefreshPrincipal(a) PROVE ShareOf(a)'
    <3>1. accrued'[a] = accrued[a] + 0 /\ (Interest(a)' <= Interest(a) + 0 \/ Interest(a)' <= 0)
      BY <2>6 DEF RefreshPrincipal, Interest, WalletInv, TypeOK
    <3> QED BY <2>0, <2>6, <3>1, OtherStepKeepsShare DEF RefreshPrincipal
  <2>7. ASSUME NEW p, SetCreatorAnnuities(p) \/ UNCHANGED vars PROVE ShareOf(a)'
    <3>1. accrued'[a] = accrued[a] + 0 /\ Interest(a)' <= Interest(a) + 0
      BY <2>7 DEF SetCreatorAnnuities, vars, Interest, WalletInv, TypeOK
    <3> QED BY <2>0, <2>7, <3>1, OtherStepKeepsShare DEF SetCreatorAnnuities, vars
  <2>8. ExecuteChoices \subseteq Nat
    OBVIOUS
  <2> QED BY <2>0, <2>1, <2>2, <2>3, <2>4, <2>5, <2>6, <2>7, <2>8 DEF Next
<1> QED BY <1>1, <1>2

\* Of a wallet with one asset, the creator never gets more than the largest
\* percentage that can be set of what it earned, whatever he and the owner
\* discharge in whatever order and wherever the divisions round.
THEOREM CreatorShareBounded ==
  ASSUME NEW a, Assets = {a}
  PROVE  Spec => []CreatorNeverOverpaid
<1>1. Init => ShareOf(a)
  BY MostPctType, WalletAssumption DEF Init, Zero, ShareOf, Interest
<1>2. WalletInv /\ WalletInv' /\ ShareOf(a) /\ [Next]_vars => ShareOf(a)'
  BY ShareNext
<1>3. WalletInv /\ ShareOf(a) => CreatorNeverOverpaid
  <2> SUFFICES ASSUME WalletInv, ShareOf(a) PROVE CreatorNeverOverpaid
    OBVIOUS
  <2>1. DOMAIN paidCreator = {a} /\ DOMAIN accrued = {a} /\ paidCreator[a] \in Nat /\ accrued[a] \in Nat
    BY DEF WalletInv, TypeOK
  <2>2. IsFiniteSet({a}) /\ Cardinality({a}) = 1
    BY FS_Singleton
  <2>3. SumFunction(paidCreator) = 1 * paidCreator[a] /\ SumFunction(accrued) = 1 * accrued[a]
    BY <2>1, <2>2, SumOfEqual DEF SumFunction
  <2>4. SumFunction(paidCreator) = paidCreator[a] /\ SumFunction(accrued) = accrued[a]
    BY <2>1, <2>3
  <2> QED BY <2>4 DEF ShareOf, CreatorNeverOverpaid
<1> QED BY <1>1, <1>2, <1>3, WalletInvariant, PTL DEF Spec
-----------------------------------------------------------------------------
(* What the creator took ahead of the owner *)

\* A rounded share covers a number exactly when the unrounded one does.
LEMMA ShareCovers ==
  ASSUME NEW x \in Nat, NEW p \in Nat, NEW d \in Nat
  PROVE  (x * p) \div PERCENTAGE_SCALE >= d <=> d * PERCENTAGE_SCALE <= x * p
<1> DEFINE S == PERCENTAGE_SCALE
           g == (x * p) \div S
<1>1. S \in Nat \ {0} /\ x * p \in Nat
  BY WalletAssumption
<1> HIDE DEF S
<1>2. g \in Nat /\ g * S <= x * p /\ x * p < g * S + S
  BY <1>1, DivBounds
<1> HIDE DEF g
<1>3. ASSUME g >= d PROVE d * S <= x * p
  <2>1. d * S <= g * S
    BY <1>1, <1>2, <1>3, TimesMonotone
  <2> QED BY <1>1, <1>2, <2>1
<1>4. ASSUME d * S <= x * p PROVE g >= d
  <2>1. d * S < (g + 1) * S
    BY <1>1, <1>2, <1>4
  <2>2. ASSUME g + 1 <= d PROVE FALSE
    <3>1. (g + 1) * S <= d * S
      BY <1>1, <1>2, <2>2, TimesMonotone
    <3> QED BY <1>1, <1>2, <2>1, <3>1
  <2> QED BY <1>2, <2>2
<1> QED BY <1>3, <1>4 DEF g, S

\* Two roundings give at most two units less than the exact proportion.
LEMMA RatioLosesLittle ==
  ASSUME NEW gross \in Nat, NEW amount \in Nat, NEW o \in Nat \ {0}, gross <= RAY
  PROVE  LET ratio == (amount * RAY) \div o
             due == (gross * ratio) \div RAY
         IN gross * amount < (due + 2) * o
<1> DEFINE ratio == (amount * RAY) \div o
           due == (gross * ratio) \div RAY
<1>1. RAY \in Nat \ {0} /\ amount * RAY \in Nat
  BY WalletAssumption
<1>2. ratio \in Nat /\ amount * RAY <= (ratio + 1) * o
  BY <1>1, DivBounds
<1> HIDE DEF ratio
<1>3. gross * ratio \in Nat
  BY <1>2
<1>4. due \in Nat /\ gross * ratio < (due + 1) * RAY
  BY <1>1, <1>3, DivBounds
<1> HIDE DEF due
<1>5. (amount * RAY) * gross <= ((ratio + 1) * o) * gross
  BY <1>1, <1>2, TimesMonotone
<1>6. ((ratio + 1) * o) * gross = (gross * ratio + gross) * o
  BY <1>2
<1>7. gross * ratio + gross < (due + 2) * RAY
  BY <1>1, <1>3, <1>4
<1>8. (gross * ratio + gross) * o < ((due + 2) * RAY) * o
  <2>1. gross * ratio + gross + 1 <= (due + 2) * RAY
    BY <1>1, <1>3, <1>4, <1>7
  <2>2. (gross * ratio + gross + 1) * o <= ((due + 2) * RAY) * o
    BY <1>1, <1>3, <1>4, <2>1, TimesMonotone
  <2>3. (gross * ratio + gross) * o < (gross * ratio + gross + 1) * o
    BY <1>3
  <2>4. ((due + 2) * RAY) * o \in Nat
    BY <1>1, <1>4
  <2> QED BY <1>3, <2>2, <2>3, <2>4
<1>9. (gross * amount) * RAY < ((due + 2) * o) * RAY
  <2>1. (amount * RAY) * gross = (gross * amount) * RAY /\ ((due + 2) * RAY) * o = ((due + 2) * o) * RAY
    BY <1>1, <1>4
  <2>2. /\ (amount * RAY) * gross \in Nat /\ ((ratio + 1) * o) * gross \in Nat
        /\ (gross * ratio + gross) * o \in Nat /\ ((due + 2) * RAY) * o \in Nat
    BY <1>1, <1>2, <1>4
  <2>3. (amount * RAY) * gross < ((due + 2) * RAY) * o
    BY <1>5, <1>6, <1>8, <2>2
  <2> QED BY <2>1, <2>3
<1>10. ASSUME (due + 2) * o <= gross * amount PROVE FALSE
  <2>1. ((due + 2) * o) * RAY <= (gross * amount) * RAY
    BY <1>1, <1>4, <1>10, TimesMonotone
  <2> QED BY <1>1, <1>4, <1>9, <2>1
<1> QED BY <1>4, <1>10 DEF ratio, due

\* A partial payment to the owner leaves the rest of the advance covered, if
\* the creator had not taken all but one unit of his share.
LEMMA RestIsCovered ==
  ASSUME NEW x \in Nat, NEW p \in Nat, NEW gross \in Nat, NEW d \in Nat, NEW due \in Nat,
         NEW amount \in Nat, NEW o \in Nat, o = x - gross, amount < o, d + 2 <= gross,
         gross * PERCENTAGE_SCALE <= x * p,
         due * o <= gross * amount, gross * amount < (due + 2) * o
  PROVE  (d - due) * PERCENTAGE_SCALE <= (x - amount - due) * p
<1> DEFINE S == PERCENTAGE_SCALE
           rest == o - amount
<1>1. S \in Nat \ {0} /\ rest \in Nat
  BY WalletAssumption
<1> HIDE DEF S
<1>2. (d - due) * o <= gross * rest
  <2>1. (d - due) * o <= (gross - 2 - due) * o
    <3>1. (gross - 2 - due) * o = (d - due) * o + (gross - 2 - d) * o /\ (gross - 2 - d) * o \in Nat
      OBVIOUS
    <3> QED BY <3>1
  <2>2. (gross - 2 - due) * o = gross * o - (due + 2) * o /\ gross * rest = gross * o - gross * amount
    OBVIOUS
  <2> QED BY <2>1, <2>2
<1>3. x * rest <= (x - amount - due) * o
  <2>1. (x - amount - due) * o = x * o - amount * o - due * o
    OBVIOUS
  <2>2. x * rest = x * o - amount * o - gross * amount
    <3>1. x * rest = x * o - x * amount /\ x * amount = (o + gross) * amount
      OBVIOUS
    <3>2. (o + gross) * amount = amount * o + gross * amount
      OBVIOUS
    <3> QED BY <3>1, <3>2
  <2> QED BY <2>1, <2>2
<1> HIDE DEF rest
<1>4. ((d - due) * o) * S <= (gross * rest) * S
  <2>1. (gross * rest) * S = ((d - due) * o) * S + (gross * rest - (d - due) * o) * S
    BY <1>1
  <2>2. gross * rest - (d - due) * o \in Nat
    BY <1>1, <1>2
  <2>3. (gross * rest - (d - due) * o) * S \in Nat
    BY <1>1, <2>2
  <2> QED BY <1>1, <2>1, <2>3
<1>5. (gross * S) * rest <= (x * p) * rest
  <2>1. gross * S \in Nat /\ x * p \in Nat /\ gross * S <= x * p
    BY <1>1 DEF S
  <2> QED BY <1>1, <2>1, TimesMonotone
<1>6. (x * rest) * p <= ((x - amount - due) * o) * p
  <2>1. x * rest \in Nat /\ (x - amount - due) * o \in Nat
    BY <1>1, <1>3
  <2> QED BY <1>3, <2>1, TimesMonotone
<1>7. ((d - due) * S) * o <= ((x - amount - due) * p) * o
  <2>1. /\ ((d - due) * S) * o = ((d - due) * o) * S
        /\ (gross * rest) * S = (gross * S) * rest
        /\ (x * p) * rest = (x * rest) * p
        /\ ((x - amount - due) * o) * p = ((x - amount - due) * p) * o
    BY <1>1
  <2>2. /\ ((d - due) * o) * S \in Int /\ (gross * S) * rest \in Int /\ (x * rest) * p \in Int
        /\ ((x - amount - due) * o) * p \in Int
    BY <1>1
  <2> QED BY <1>4, <1>5, <1>6, <2>1, <2>2
<1>8. (d - due) * S \in Int /\ (x - amount - due) * p \in Int /\ o \in Nat \ {0}
  BY <1>1
<1> QED BY <1>7, <1>8, TimesCancel DEF S

\* Interest that is left covers the advance when its share does, unrounded.
LEMMA CoveredAfter ==
  ASSUME TypeOK', NEW a \in Assets, Interest(a)' \in Nat,
         creatorDischarged' * PERCENTAGE_SCALE <= (Interest(a)' + creatorDischarged') * pct'
  PROVE  AdvanceCovered(a)'
<1>1. creatorDischarged' \in Nat /\ pct' \in Nat /\ balance'[a] \in Nat /\ principal'[a] \in Nat
  BY WalletAssumption DEF TypeOK
<1>2. balance'[a] >= principal'[a]
  BY <1>1 DEF Interest
<1>3. ((Interest(a)' + creatorDischarged') * pct') \div PERCENTAGE_SCALE >= creatorDischarged'
  <2> DEFINE x == Interest(a)' + creatorDischarged'
  <2>1. x \in Nat /\ creatorDischarged' * PERCENTAGE_SCALE <= x * pct'
    BY <1>1
  <2> HIDE DEF x
  <2>2. (x * pct') \div PERCENTAGE_SCALE >= creatorDischarged'
    BY <1>1, <2>1, ShareCovers
  <2> QED BY <2>2 DEF x
<1> QED BY <1>2, <1>3 DEF AdvanceCovered, CreatorGross

\* And conversely, before a step.
LEMMA CoveredBefore ==
  ASSUME TypeOK, NEW a \in Assets, AdvanceCovered(a)
  PROVE  /\ Interest(a) \in Nat /\ creatorDischarged \in Nat /\ pct \in Nat
         /\ creatorDischarged * PERCENTAGE_SCALE <= (Interest(a) + creatorDischarged) * pct
<1>1. creatorDischarged \in Nat /\ pct \in Nat /\ balance[a] \in Nat /\ principal[a] \in Nat
  BY WalletAssumption DEF TypeOK
<1>2. Interest(a) \in Nat
  BY <1>1 DEF AdvanceCovered, Interest
<1>3. creatorDischarged * PERCENTAGE_SCALE <= (Interest(a) + creatorDischarged) * pct
  <2> DEFINE x == Interest(a) + creatorDischarged
  <2>1. x \in Nat /\ (x * pct) \div PERCENTAGE_SCALE >= creatorDischarged
    BY <1>1, <1>2 DEF AdvanceCovered, CreatorGross
  <2> HIDE DEF x
  <2>2. creatorDischarged * PERCENTAGE_SCALE <= x * pct
    BY <1>1, <2>1, ShareCovers
  <2> QED BY <2>2 DEF x
<1> QED BY <1>1, <1>2, <1>3

\* A payment that sets off the whole advance leaves nothing to cover.
LEMMA SettledIsCovered ==
  ASSUME TypeOK, TypeOK', NEW a \in Assets, Interest(a) \in Nat,
         NEW cp, NEW rp, NEW fp, Payment(a, cp, rp, fp, 0)
  PROVE  AdvanceCovered(a)'
<1>1. creatorDischarged' = 0 /\ cp \in Nat /\ rp \in Nat /\ fp \in Nat /\ cp + rp <= Interest(a)
  BY DEF Payment
<1>2. Interest(a)' = Interest(a) - cp - rp
  BY <1>1 DEF Payment, Pay, Interest, TypeOK
<1>3. Interest(a)' \in Nat /\ pct' \in Nat
  BY <1>1, <1>2, WalletAssumption DEF TypeOK
<1>4. 0 * PERCENTAGE_SCALE = 0 /\ (Interest(a)' + 0) * pct' \in Nat
  BY <1>3, WalletAssumption
<1>5. creatorDischarged' * PERCENTAGE_SCALE <= (Interest(a)' + creatorDischarged') * pct'
  BY <1>1, <1>4
<1> QED BY <1>3, <1>5, CoveredAfter

\* A payment of interest to the owner keeps what is left of the advance covered
\* while the creator's share has more than one unit left, or pays nothing.
LEMMA PartialPaymentKeepsCover ==
  ASSUME TypeOK, PctInv, TypeOK', NEW a \in Assets, NEW amount \in Nat, InterestComputable(a),
         WithdrawInterest(a, amount), AdvanceCovered(a), CreatorGross(a) <= RAY, pct' = pct,
         paidOwner'[a] # paidOwner[a] => CreatorInterest(a) > 1
  PROVE  AdvanceCovered(a)'
<1> DEFINE c == CreatorInterest(a)
           o == OwnerInterest(a)
           D == creatorDischarged
           I == Interest(a)
           ratio == (amount * RAY) \div o
           due == ((c + D) * ratio) \div RAY
           off == IF c = 0 THEN 0 ELSE Min({due, D})
           cp == IF c = 0 THEN 0 ELSE due - off
<1>1. D \in Nat /\ pct \in Nat /\ I \in Nat /\ D * PERCENTAGE_SCALE <= (I + D) * pct
  BY CoveredBefore
<1>2. c \in Nat /\ o \in Nat /\ c + o = I
  BY InterestParts
<1>3. amount < o /\ D' = D - off /\ Pay(a, cp, amount) /\ principal' = principal
  BY DEF WithdrawInterest
<1>4. o \in Nat \ {0} /\ c + D \in Nat
  BY <1>1, <1>2, <1>3
<1>5. due \in Nat /\ due * o <= (c + D) * amount
  <2> HIDE DEF c, o
  <2> QED BY <1>4, RatioBounds
<1>6. off \in Nat /\ off <= due /\ off <= D /\ (off = due \/ off = D \/ c = 0)
  <2> HIDE DEF c, due, D
  <2>1. Min({due, D}) \in {due, D} /\ Min({due, D}) <= due /\ Min({due, D}) <= D
    BY <1>1, <1>5, MinOfTwo
  <2> QED BY <1>1, <1>5, <2>1
<1>7. cp \in Nat /\ cp = (IF c = 0 THEN 0 ELSE due - off)
  <2> HIDE DEF c, due, off
  <2> QED BY <1>5, <1>6
<1>8. Interest(a)' = I - amount - cp /\ paidOwner'[a] = paidOwner[a] + amount + (IF HasCreator THEN 0 ELSE cp)
  <2> HIDE DEF cp
  <2> QED BY <1>3, <1>7 DEF Pay, Interest, TypeOK
<1> HIDE DEF c, o, D, I, ratio, due, off, cp
<1>9. CASE amount = 0
  <2>1. due = 0
    BY <1>4, <1>5, <1>9
  <2>2. D' = D /\ Interest(a)' = I
    BY <1>1, <1>3, <1>6, <1>7, <1>8, <1>9, <2>1
  <2> QED BY <1>1, <2>2, CoveredAfter DEF D
<1>10. CASE amount # 0
  <2>1. paidOwner'[a] # paidOwner[a]
    <3>1. paidOwner[a] \in Nat
      BY DEF TypeOK
    <3> QED BY <1>7, <1>8, <1>10, <3>1, WalletAssumption
  <2>2. c > 1
    BY <2>1 DEF c
  <2>3. c + D = CreatorGross(a) /\ CreatorGross(a) * PERCENTAGE_SCALE <= (I + D) * pct
    BY <1>2, <2>2, InterestParts DEF c, D, I
  <2>4. (c + D) * amount < (due + 2) * o
    BY <1>4, <2>3, RatioLosesLittle DEF due, ratio
  <2>5. CASE off = D
    <3>1. PICK p, d \in Nat : Payment(a, p, amount, 0, d)
      BY InterestPayment
    <3>2. d = 0
      BY <1>1, <1>3, <2>5, <3>1 DEF Payment, D
    <3> QED BY <1>1, <3>1, <3>2, SettledIsCovered DEF I
  <2>6. CASE off = due
    <3>1. D' = D - due /\ Interest(a)' = I - amount
      BY <1>1, <1>2, <1>3, <1>5, <1>7, <1>8, <2>2, <2>6
    <3>2. (D - due) * PERCENTAGE_SCALE <= ((I + D) - amount - due) * pct
      <4>1. o = (I + D) - (c + D) /\ D + 2 <= c + D /\ I + D \in Nat
        BY <1>1, <1>2, <2>2
      <4> QED BY <1>1, <1>3, <1>4, <1>5, <1>2, <2>3, <2>4, <4>1, RestIsCovered
    <3>3. (I + D) - amount - due = Interest(a)' + D' /\ Interest(a)' \in Nat
      BY <1>1, <1>2, <1>3, <1>5, <3>1
    <3>4. D' * PERCENTAGE_SCALE <= (Interest(a)' + D') * pct'
      BY <3>1, <3>2, <3>3
    <3> QED BY <3>3, <3>4, CoveredAfter DEF D
  <2> QED BY <1>2, <1>6, <2>2, <2>5, <2>6
<1> QED BY <1>9, <1>10

\* What the creator takes ahead within his share stays covered.
LEMMA AdvanceStaysWithinShare ==
  ASSUME TypeOK, PctInv, TypeOK', NEW a \in Assets, NEW amount \in Nat,
         DischargeAmountForCreator(a, amount), AdvanceCovered(a)
  PROVE  AdvanceCovered(a)'
<1> DEFINE I == Interest(a)
           D == creatorDischarged
           g == CreatorGross(a)
<1>1. /\ InterestComputable(a) /\ amount <= CreatorInterest(a)
      /\ D' = D + amount /\ Interest(a)' = I - amount /\ pct' = pct
  BY DEF DischargeAmountForCreator, WithdrawForCreator, Interest, TypeOK
<1>2. I \in Nat /\ D \in Nat /\ pct \in Nat /\ D * PERCENTAGE_SCALE <= (I + D) * pct
  BY CoveredBefore
<1>3. /\ g \in Nat /\ CreatorInterest(a) \in Nat /\ CreatorInterest(a) <= I
      /\ g * PERCENTAGE_SCALE <= (I + D) * pct
      /\ CreatorInterest(a) # 0 => CreatorInterest(a) + D = g
  BY <1>1, InterestParts
<1> HIDE DEF I, D, g
<1>4. D + amount <= g \/ amount = 0
  BY <1>1, <1>2, <1>3
<1>5. (D + amount) * PERCENTAGE_SCALE <= (I + D) * pct
  <2>1. CASE amount = 0
    BY <1>2, <2>1
  <2>2. CASE D + amount <= g
    <3>1. (D + amount) * PERCENTAGE_SCALE <= g * PERCENTAGE_SCALE
      BY <1>2, <1>3, <2>2, TimesMonotone, WalletAssumption
    <3> QED BY <1>2, <1>3, <3>1, WalletAssumption
  <2> QED BY <1>4, <2>1, <2>2
<1>6. Interest(a)' \in Nat /\ Interest(a)' + D' = I + D
  BY <1>1, <1>2, <1>3
<1>7. D' * PERCENTAGE_SCALE <= (Interest(a)' + D') * pct'
  BY <1>1, <1>5, <1>6
<1> QED BY <1>6, <1>7, CoveredAfter DEF D

\* Products grow with both factors.
LEMMA ProductsGrow ==
  ASSUME NEW x \in Nat, NEW y \in Nat, NEW p \in Nat, NEW q \in Nat, x <= y, p <= q
  PROVE  x * p \in Nat /\ y * q \in Nat /\ x * p <= y * q
<1>1. x * p <= y * p
  BY TimesMonotone
<1>2. p * y <= q * y
  BY TimesMonotone
<1> QED BY <1>1, <1>2

\* A step that takes nothing ahead and lowers neither interest nor percentage
\* keeps it covered.
LEMMA GrowthKeepsCover ==
  ASSUME TypeOK, TypeOK', NEW a \in Assets, AdvanceCovered(a), creatorDischarged' = creatorDischarged,
         Interest(a)' >= Interest(a), pct' >= pct
  PROVE  AdvanceCovered(a)'
<1> DEFINE x == Interest(a) + creatorDischarged
           y == Interest(a)' + creatorDischarged
<1>1. /\ Interest(a) \in Nat /\ creatorDischarged \in Nat /\ pct \in Nat
      /\ creatorDischarged * PERCENTAGE_SCALE <= x * pct
  BY CoveredBefore
<1>2. Interest(a)' \in Nat /\ pct' \in Nat
  BY <1>1, WalletAssumption DEF TypeOK, Interest
<1>3. x \in Nat /\ y \in Nat /\ x <= y
  BY <1>1, <1>2
<1> HIDE DEF x, y
<1>4. pct \in Nat /\ pct' \in Nat /\ pct <= pct'
  BY <1>1, <1>2
<1>5. x * pct \in Nat /\ y * pct' \in Nat /\ x * pct <= y * pct'
  BY <1>3, <1>4, ProductsGrow
<1>6. creatorDischarged * PERCENTAGE_SCALE \in Nat
  BY <1>1, WalletAssumption
<1>7. creatorDischarged * PERCENTAGE_SCALE <= y * pct'
  BY <1>1, <1>5, <1>6
<1> QED BY <1>2, <1>7, CoveredAfter DEF y

\* With one asset, every step keeps the advance covered or is one of those that
\* may uncover it.
LEMMA CoverNext ==
  ASSUME WalletInv, NEW a, Assets = {a}, [Next]_vars
  PROVE  CoverKeeps
<1> SUFFICES ASSUME AdvanceCovered(a), CreatorGross(a) <= RAY, ~(pct' < pct), executed'[a] = executed[a],
                    paidOwner'[a] # paidOwner[a] => CreatorInterest(a) > 1
             PROVE  AdvanceCovered(a)'
  <2>1. CreatorInterest(a) <= 1 \/ CreatorInterest(a) > 1
    <3>1. balance[a] \in Nat /\ principal[a] \in Nat /\ creatorDischarged \in Nat /\ CreatorGross(a) \in Int
      BY WalletAssumption DEF WalletInv, TypeOK, CreatorGross, Interest
    <3>2. CreatorInterest(a) \in Int
      BY <3>1 DEF CreatorInterest
    <3> QED BY <3>2
  <2> QED BY <2>1 DEF CoverKeeps
<1> USE WalletAssumption DEF flows, paid, books
<1>0. /\ TypeOK /\ TypeOK' /\ PctInv /\ a \in Assets /\ 0 \in Nat /\ AmountChoices \subseteq Nat
      /\ ExecuteChoices \subseteq Nat /\ PctChoices \subseteq Nat
  BY WalletNext DEF WalletInv
<1>1. ASSUME NEW amount \in Nat,
             Discharge(a) \/ DischargeAmount(a, amount) \/ Release(a) \/ ReleaseAmount(a, amount)
      PROVE  AdvanceCovered(a)'
  <2>1. InterestComputable(a) /\ Interest(a) \in Nat /\ pct' = pct
    BY <1>0, <1>1, EntryPays
  <2>2. PICK x \in Nat : WithdrawAmount(a, x)
    <3>1. OwnerInterest(a) \in Nat /\ principal[a] + OwnerInterest(a) \in Nat
      BY <1>0, <2>1, InterestParts DEF TypeOK
    <3> QED BY <1>1, <3>1 DEF Discharge, DischargeAmount, Release, ReleaseAmount
  <2>3. CASE WithdrawInterest(a, x)
    BY <1>0, <2>1, <2>3, PartialPaymentKeepsCover
  <2>4. CASE WithdrawPrincipal(a, x)
    <3>1. PICK cp, rp, fp, d \in Nat : Payment(a, cp, rp, fp, d)
      BY <1>0, <2>1, <2>4, PrincipalPayment
    <3>2. d = 0
      BY <2>4, <3>1 DEF WithdrawPrincipal, Payment
    <3> QED BY <1>0, <2>1, <3>1, <3>2, SettledIsCovered
  <2> QED BY <2>2, <2>3, <2>4 DEF WithdrawAmount
<1>2. ASSUME NEW amount \in Nat, DischargeAmountForCreator(a, amount) PROVE AdvanceCovered(a)'
  BY <1>0, <1>2, AdvanceStaysWithinShare
<1>3. ASSUME NEW amount \in Nat, Energize(a, amount) \/ Accrue(a, amount) PROVE AdvanceCovered(a)'
  <2>1. Interest(a)' >= Interest(a) /\ creatorDischarged' = creatorDischarged /\ pct' >= pct
    BY <1>0, <1>3 DEF Energize, Accrue, Interest, TypeOK
  <2> QED BY <1>0, <2>1, GrowthKeepsCover
<1>4. ASSUME NEW amount \in Nat, ExecuteForAccount(a, amount) PROVE AdvanceCovered(a)'
  <2>1. amount = 0
    BY <1>0, <1>4 DEF ExecuteForAccount, TypeOK
  <2>2. Interest(a)' >= Interest(a) /\ creatorDischarged' = creatorDischarged /\ pct' >= pct
    BY <1>0, <1>4, <2>1 DEF ExecuteForAccount, Interest, TypeOK
  <2> QED BY <1>0, <2>2, GrowthKeepsCover
<1>5. ASSUME RefreshPrincipal(a) PROVE AdvanceCovered(a)'
  <2>1. Interest(a)' >= Interest(a) /\ creatorDischarged' = creatorDischarged /\ pct' >= pct
    BY <1>0, <1>5 DEF RefreshPrincipal, AdvanceCovered, Interest, TypeOK
  <2> QED BY <1>0, <2>1, GrowthKeepsCover
<1>6. ASSUME NEW p \in Nat, SetCreatorAnnuities(p) PROVE AdvanceCovered(a)'
  <2>1. Interest(a)' >= Interest(a) /\ creatorDischarged' = creatorDischarged /\ pct' >= pct
    BY <1>0, <1>6 DEF SetCreatorAnnuities, Interest, TypeOK
  <2> QED BY <1>0, <2>1, GrowthKeepsCover
<1>7. CASE UNCHANGED vars
  <2>1. Interest(a)' >= Interest(a) /\ creatorDischarged' = creatorDischarged /\ pct' >= pct
    BY <1>0, <1>7 DEF vars, Interest, TypeOK
  <2> QED BY <1>0, <2>1, GrowthKeepsCover
<1> QED BY <1>0, <1>1, <1>2, <1>3, <1>4, <1>5, <1>6, <1>7 DEF Next

\* Of a wallet with one asset, for all percentages and amounts: interest that
\* can be reckoned becomes unpayable only by a lowered percentage, an executed
\* call, or a payout to the owner after the creator took his share to the last
\* unit.
THEOREM AdvancesStayCovered ==
  ASSUME NEW a, Assets = {a}
  PROVE  Spec => AdvanceStaysCovered
<1>1. WalletInv /\ [Next]_vars => [CoverKeeps]_vars
  BY CoverNext
<1> QED BY <1>1, WalletInvariant, PTL DEF Spec, AdvanceStaysCovered

=============================================================================
