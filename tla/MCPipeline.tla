----------------------------- MODULE MCPipeline ------------------------------
(***************************************************************************)
(* A small instance of Pipeline: Alice pays Bob, or tries to pay him more  *)
(* than she has, his account may be frozen on the way, and one thing goes  *)
(* wrong with the relay or the two workers that pass the news on.          *)
(***************************************************************************)
EXTENDS Pipeline, TLC

CONSTANTS p1, k1, alice, bob, atAlice, atBob, relay, worker1, worker2, nobody

Owners == (1 :> alice) @@ (2 :> bob)
Openings == (1 :> 1) @@ (2 :> 0)
VpaAccounts == (atAlice :> 1) @@ (atBob :> 2)

Pay(n) == [key |-> k1, user |-> alice,
           body |-> [sender |-> atAlice, receiver |-> atBob, amount |-> n]]

MCCalls == {Pay(1), Pay(2)}
=============================================================================
