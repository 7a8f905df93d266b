--------------------------- MODULE MCParticleEscrow ---------------------------
(* ParticleEscrow on small instances.                                       *)
EXTENDS ParticleEscrow

CONSTANTS alice, bob, proton, n1, n2, m1, m2

OneContract == [n \in Nfts |-> proton]
NoOperators == {}

Open == [flags |-> {"charge"}, walletManager |-> AnyManager, basketManager |-> AnyManager,
         limits |-> [min |-> 0, max |-> 0], maxNfts |-> [c \in Contracts |-> 0]]
OpenRules == {Open}
OneAtMost == {[min |-> 0, max |-> 1]}

===============================================================================
