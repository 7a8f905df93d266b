--------------------------- MODULE MCCovalentBonds ---------------------------
(* CovalentBonds on small instances.                                        *)
EXTENDS CovalentBonds

CONSTANTS alice, bob, proton, n1, n2, n3, m1, m2,
          b11, b12, b13, b21, b22, b23

OneContract == [n \in Nfts |-> proton]
NoOperators == {}

\* The baskets of the first and the second manager.
BasketAccounts ==
    [m \in Managers |-> [n \in Nfts |->
        IF m = m1 THEN (IF n = n1 THEN b11 ELSE IF n = n2 THEN b12 ELSE b13)
                  ELSE (IF n = n1 THEN b21 ELSE IF n = n2 THEN b22 ELSE b23)]]

Bondable == [flags |-> {"basket"}, walletManager |-> AnyManager, basketManager |-> AnyManager,
             limits |-> [min |-> 0, max |-> 0], maxNfts |-> [c \in Contracts |-> 0]]
BondableRules == {Bondable}
=============================================================================
