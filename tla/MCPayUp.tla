------------------------------- MODULE MCPayUp -------------------------------
(***************************************************************************)
(* A small instance of PayUp: Alice pays Bob while either of them          *)
(* transfers, twice and either way, over a pool that two waiting transfers *)
(* exhaust.                                                                *)
(***************************************************************************)
EXTENDS PayUp, TLC

CONSTANTS p1, t1, t2, k1, alice, bob, atAlice, atBob

Owners == (1 :> alice) @@ (2 :> bob)
Openings == (1 :> 1) @@ (2 :> 0)
VpaAccounts == (atAlice :> 1) @@ (atBob :> 2)

Pay(key, user, from, to) ==
  [key |-> key, user |-> user, body |-> [sender |-> from, receiver |-> to, amount |-> 1]]

MCCalls == {Pay(k1, alice, atAlice, atBob)}
=============================================================================
