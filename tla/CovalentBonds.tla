---------------------------- MODULE CovalentBonds ----------------------------
(***************************************************************************)
(* NFTs in particles: covalent bonds made and broken through               *)
(* contracts/ChargedParticles.sol, contracts/ParticleSplitter.sol calling  *)
(* out of a basket for the owner, and the baskets themselves               *)
(* (yield/generic/ERC721/GenericBasketManagerB.sol and                     *)
(* GenericSmartBasketB.sol), behind the gate of ChargedState and the       *)
(* registry and rules of ChargedManagers.                                  *)
(*                                                                         *)
(* A basket is an account that holds NFTs of its particle; the NFT         *)
(* contract says who holds what, and the basket counts what it was told.   *)
(* NFTs are ERC721: there is one of each, yet the caller passes an amount, *)
(* which the manager takes as prepared for the next addition or removal    *)
(* (0, and every amount with the id "generic", stand for 1).               *)
(*                                                                         *)
(* Counters are unsigned words that wrap: Solidity 0.6's += and -=.        *)
(***************************************************************************)
EXTENDS ChargedManagers, FiniteSetsExt

CONSTANTS
    BasketOf,     \* the account of each manager's basket of each particle
    MaxUint,      \* the largest uint256
    BondAmounts,  \* bound: the amounts passed along
    StrayNfts,    \* bound: the NFTs that move past the protocol
    StrayBaskets  \* bound: the particles to and from whose baskets they move

Baskets == {BasketOf[m][n] : m \in Managers, n \in Nfts}
People == Accounts \ Baskets

ASSUME BondsAssumption ==
    /\ {"release", "breakBond"} \subseteq Kinds
    /\ BasketOf \in [Managers -> [Nfts -> Accounts]]
    /\ \A m1, m2 \in Managers, n1, n2 \in Nfts :
          BasketOf[m1][n1] = BasketOf[m2][n2] => m1 = m2 /\ n1 = n2
    /\ MaxUint \in Nat \ {0}
    /\ BondAmounts \subseteq 0..MaxUint
    /\ StrayNfts \subseteq Nfts
    /\ StrayBaskets \subseteq Nfts

VARIABLES
    baskets,  \* _baskets: the pairs <<manager, particle>> that have one
    count,    \* _nftContractTokenBalance of every basket, per nested NFT
    total,    \* _nestedNftCount of every basket
    operated, \* <<m, n, c>> when n's basket at m has made others operators of
              \*   its NFTs of contract c
    strayed   \* history: <<m, n, x>> when x ever went in or out of n's
              \*   basket at m unbooked, or booked with an amount that stands for more

bondVars == <<baskets, count, total, operated, strayed>>
bvars == <<hvars, managersVars, bondVars>>

BondsTypeOK ==
    /\ baskets \subseteq Managers \X Nfts
    /\ count \in [Managers -> [Nfts -> [Nfts -> 0..MaxUint]]]
    /\ total \in [Managers -> [Nfts -> 0..MaxUint]]
    /\ operated \subseteq Managers \X Nfts \X Contracts
    /\ strayed \subseteq Managers \X Nfts \X Nfts

\* No particle is in a basket before there are baskets.
BInit ==
    /\ HInit
    /\ \A n \in Nfts : owner[n] \notin Baskets
    /\ ManagersInit
    /\ baskets = {}
    /\ count = [m \in Managers |-> [n \in Nfts |-> [x \in Nfts |-> 0]]]
    /\ total = [m \in Managers |-> [n \in Nfts |-> 0]]
    /\ operated = {}
    /\ strayed = {}

HasBasket(m, n) == <<m, n>> \in baskets
IsNested(m, n, x) == owner[x] = BasketOf[m][n]

-----------------------------------------------------------------------------
(* The books *)

\* mutant of Counted: a prepared 0 is booked as 0
CountedAsPrepared(id, amount) == IF id = "generic" THEN 1 ELSE amount

\* prepareTransferAmount, and what addToBasket and removeFromBasket make of it
Counted(id, amount) == IF id = "generic" \/ amount = 0 THEN 1 ELSE amount

\* mutant of Book: what leaves is not taken off the basket's total
BookByType(m, n, x, change) ==
    /\ count' = [count EXCEPT ![m][n][x] = (@ + change) % (MaxUint + 1)]
    /\ total' = [total EXCEPT ![m][n] = IF change > 0 THEN (@ + change) % (MaxUint + 1) ELSE @]

\* mutant of Book: the counters do not wrap
BookUnwrapped(m, n, x, change) ==
    /\ count' = [count EXCEPT ![m][n][x] = @ + change]
    /\ total' = [total EXCEPT ![m][n] = @ + change]

Book(m, n, x, change) ==
    /\ count' = [count EXCEPT ![m][n][x] = (@ + change) % (MaxUint + 1)]
    /\ total' = [total EXCEPT ![m][n] = (@ + change) % (MaxUint + 1)]

\* the amounts that stand for the one NFT there is
StandsForOne(id, amount) == id = "generic" \/ amount \in {0, 1}

Stray(m, n, x) == strayed' = strayed \cup {<<m, n, x>>}

BookCounted(m, n, x, id, amount, sign) ==
    /\ Book(m, n, x, sign * Counted(id, amount))
    /\ IF StandsForOne(id, amount) THEN UNCHANGED strayed ELSE Stray(m, n, x)

-----------------------------------------------------------------------------
(* ChargedParticles *)

\* covalentBond: x comes from the sender; the basket is created when there
\* is none
CovalentBond(s, n, id, x, amount) ==
    LET m == managerOf[id]
    IN /\ IsManagerEnabled(id)
       /\ ValidateNftDeposit(s, n, id, x, total[m][n], amount, MaxUint)
       /\ owner[x] = s
       /\ baskets' = baskets \cup {<<m, n>>}
       /\ TransferToken(x, BasketOf[m][n]) /\ Remember
       /\ BookCounted(m, n, x, id, amount, 1)
       /\ UNCHANGED <<managersVars, operated>>

\* mutant of BreakCovalentBond: the right to release is validated
BreakByRelease(s, receiver, n, id, x, amount) ==
    LET m == managerOf[id]
    IN /\ IsManagerEnabled(id)
       /\ HasBasket(m, n)
       /\ IsNested(m, n, x)
       /\ WithdrawNft(s, n, "release", x, receiver) /\ Remember
       /\ BookCounted(m, n, x, id, amount, -1)
       /\ UNCHANGED <<managersVars, baskets, operated>>

\* mutant of BreakCovalentBond: no right is validated
BreakUnchecked(s, receiver, n, id, x, amount) ==
    LET m == managerOf[id]
    IN /\ IsManagerEnabled(id)
       /\ HasBasket(m, n)
       /\ IsNested(m, n, x)
       /\ lastTx' = [event |-> "withdraw", kind |-> "breakBond", nft |-> n, by |-> s,
                     holder |-> owner[n]]
       /\ owner' = [owner EXCEPT ![x] = receiver]
       /\ UNCHANGED <<block, accessVars, lockVars, settingVars>>
       /\ Remember
       /\ BookCounted(m, n, x, id, amount, -1)
       /\ UNCHANGED <<managersVars, baskets, operated>>

BreakCovalentBond(s, receiver, n, id, x, amount) ==
    LET m == managerOf[id]
    IN /\ IsManagerEnabled(id)
       /\ HasBasket(m, n)
       /\ IsNested(m, n, x)
       /\ WithdrawNft(s, n, "breakBond", x, receiver) /\ Remember
       /\ BookCounted(m, n, x, id, amount, -1)
       /\ UNCHANGED <<managersVars, baskets, operated>>

-----------------------------------------------------------------------------
(* ParticleSplitter, the managers' owner, and the NFT contracts *)

\* executeForBasket on an allowed NFT contract, to move x out of the basket or
\* to make someone an operator of all it holds of that contract; the basket is
\* created first when ether is sent along.
ExecuteForBasket(s, receiver, n, id, x) ==
    LET m == managerOf[id]
    IN /\ s = owner[n]
       /\ IsManagerEnabled(id)
       /\ baskets' = baskets \cup {<<m, n>>}
       /\ \/ /\ IsNested(m, n, x)
             /\ WithdrawNft(s, n, "release", x, receiver) /\ Remember
             /\ Stray(m, n, x)
             /\ UNCHANGED operated
          \/ /\ Withdraw(s, n, "release") /\ Remember
             /\ operated' = operated \cup {<<m, n, ContractOf[x]>>}
             /\ UNCHANGED strayed
       /\ UNCHANGED <<managersVars, count, total>>

\* external: an operator takes x, through neither contract
TakeAsOperator(m, n, x, receiver) ==
    /\ <<m, n, ContractOf[x]>> \in operated
    /\ IsNested(m, n, x)
    /\ TransferToken(x, receiver) /\ Remember
    /\ Stray(m, n, x)
    /\ UNCHANGED <<managersVars, baskets, count, total, operated>>

\* withdrawERC721 of a basket manager
RescueERC721(m, n, x, receiver) ==
    /\ HasBasket(m, n)
    /\ IsNested(m, n, x)
    /\ TransferToken(x, receiver) /\ Remember
    /\ Stray(m, n, x)
    /\ UNCHANGED <<managersVars, baskets, count, total, operated>>

\* external: a holder sends x straight to the address of a basket
SendToBasket(m, n, x) ==
    /\ HasBasket(m, n)
    /\ owner[x] \in People
    /\ TransferToken(x, BasketOf[m][n]) /\ Remember
    /\ Stray(m, n, x)
    /\ UNCHANGED <<managersVars, baskets, count, total, operated>>

\* external: what is in no basket is minted, sold or burned
TransferBetweenPeople(x, to) ==
    /\ owner[x] \notin Baskets
    /\ TransferToken(x, to) /\ Remember
    /\ UNCHANGED <<managersVars, bondVars>>

-----------------------------------------------------------------------------
\* The gate's own transactions.  A basket signs none of them: it calls other
\* contracts in ExecuteForBasket only.
GateOnly ==
    /\ GateStep /\ lastTx'.by \notin Baskets
    /\ Remember
    /\ UNCHANGED <<managersVars, bondVars>>

BondStep ==
    \E s \in People \cup Contracts, n \in Nfts, id \in ManagerIds, x \in Nfts :
        \/ \E amount \in BondAmounts : CovalentBond(s, n, id, x, amount)
        \/ \E receiver \in People :
              \/ \E amount \in BondAmounts : BreakCovalentBond(s, receiver, n, id, x, amount)
              \/ n \in StrayBaskets /\ x \in StrayNfts /\ ExecuteForBasket(s, receiver, n, id, x)

StrayStep ==
    \E m \in Managers, n \in StrayBaskets, x \in StrayNfts :
        \/ SendToBasket(m, n, x)
        \/ \E receiver \in People :
              RescueERC721(m, n, x, receiver) \/ TakeAsOperator(m, n, x, receiver)

BNext ==
    \/ GateOnly
    \/ ManagersStep /\ UNCHANGED bondVars
    \/ BondStep
    \/ StrayStep
    \/ \E x \in Nfts, to \in People \cup {NullAddr} : TransferBetweenPeople(x, to)

BSpec == BInit /\ [][BNext]_bvars

-----------------------------------------------------------------------------
(* Properties *)

\* As long as an NFT goes in and out through covalentBond and
\* breakCovalentBond with amounts that stand for 1, in whatever order, through
\* whatever ids name the manager by then and whatever lies in the basket
\* besides, the basket counts it exactly while it holds it.
BooksMatchCustody ==
    \A m \in Managers, n \in Nfts, x \in Nfts :
        <<m, n, x>> \notin strayed =>
            count[m][n][x] = IF IsNested(m, n, x) THEN 1 ELSE 0

\* Whatever amounts and counter wraps there were, the total that limits are
\* checked against is the sum of what the basket counts per NFT.
TotalsAddUp ==
    \A m \in Managers, n \in Nfts :
        total[m][n] = SumFunction(count[m][n]) % (MaxUint + 1)

\* Rescued by the managers' owner, or taken by an operator the basket has.
TakenPastGate(m, n, x) ==
    \E receiver \in People : RescueERC721(m, n, x, receiver) \/ TakeAsOperator(m, n, x, receiver)

\* the particle's owner calls out of its baskets, no release timelock running
CallsOut(n) ==
    /\ lastTx'.event = "withdraw" /\ lastTx'.kind = "release" /\ lastTx'.nft = n
    /\ lastTx'.by = owner[n]
    /\ commitments["release"][n] = {}

\* Nothing leaves a basket, and nobody becomes its operator, but through the
\* gate: by a broken bond, when no break-bond timelock on the particle runs, or
\* by the particle's owner calling out of the basket, when no release timelock
\* runs.  Operators from before are the one way past both, besides the
\* managers' owner (ParticleSplitter.sol:132).
LeavesThroughGate ==
    \A m \in Managers, n \in Nfts :
        /\ \A x \in Nfts :
              IsNested(m, n, x) /\ owner'[x] # owner[x] =>
                  \/ /\ lastTx'.event = "withdraw" /\ lastTx'.kind = "breakBond" /\ lastTx'.nft = n
                     /\ commitments["breakBond"][n] = {}
                  \/ CallsOut(n)
                  \/ TakenPastGate(m, n, x)
        /\ \A c \in Contracts : <<m, n, c>> \in operated' \ operated => CallsOut(n)
BondsHold == [][LeavesThroughGate]_bvars

\* A manager that is paused, or that no id names any more, keeps the NFTs its
\* baskets hold, and its baskets get no operators: neither ChargedParticles nor
\* ParticleSplitter gets at them, only the managers' owner and who was an
\* operator before.
FrozenBasketKeeps ==
    \A m \in Managers, n \in Nfts :
        m \in paused \/ (\A id \in ManagerIds : managerOf[id] # m) =>
            /\ \A x \in Nfts : IsNested(m, n, x) /\ owner'[x] # owner[x] => TakenPastGate(m, n, x)
            /\ \A c \in Contracts : <<m, n, c>> \notin operated' \ operated
FrozenBasketsKeepNfts == [][FrozenBasketKeeps]_bvars
=============================================================================
