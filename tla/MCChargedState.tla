--------------------------- MODULE MCChargedState ---------------------------
(* ChargedState with its history variables on small instances.             *)
EXTENDS ChargedStateHistory

CONSTANTS alice, bob, carol, proton, n1

OneContract == [n \in Nfts |-> proton]
NoOperators == {}
CarolTrustsBob == {<<carol, bob>>}
=============================================================================
