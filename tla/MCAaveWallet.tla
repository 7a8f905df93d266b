---------------------------- MODULE MCAaveWallet ----------------------------
(* AaveWallet on small instances: percentages out of 2, a small ray.       *)
EXTENDS AaveWallet
=============================================================================
