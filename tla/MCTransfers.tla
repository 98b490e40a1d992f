---------------------------- MODULE MCTransfers -----------------------------
(***************************************************************************)
(* A small instance of Transfers and Balances: two transfers, a seed       *)
(* script and a balance query.                                             *)
(***************************************************************************)
EXTENDS Balances, TLC

CONSTANTS t1, t2, s1, r1, alice, bob

(* Each account can pay for one transfer of 1 or 2 and be paid back, and   *)
(* account 1 cannot cover two transfers of 2.                              *)
TwoOpening == (1 :> 2) @@ (2 :> 1)
TwoOwners == (1 :> alice) @@ (2 :> bob)

Transferring == Permutations(Transferers)
=============================================================================
