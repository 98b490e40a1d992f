----------------------------- MODULE MCRateLimit -----------------------------
(***************************************************************************)
(* A small instance of RateLimit: three requests of one client, of which   *)
(* two may pass in two windows, and one of another's.                      *)
(***************************************************************************)
EXTENDS RateLimit, TLC

CONSTANTS r1, r2, r3, r4, alice, bob

MCClient == (r1 :> alice) @@ (r2 :> alice) @@ (r3 :> alice) @@ (r4 :> bob)

Alike == Permutations({r1, r2, r3})
=============================================================================
