----------------------------- MODULE MCPayments -----------------------------
(***************************************************************************)
(* A small instance of Payments: two users with one account and one        *)
(* address each, and requests that repeat a key, change its body, pay in   *)
(* opposite directions, or name an address nobody has.                     *)
(***************************************************************************)
EXTENDS Payments, TLC

CONSTANTS p1, p2, p3, k1, k2, alice, bob, atAlice, atBob, atNobody

Owners == (1 :> alice) @@ (2 :> bob)
(* Bob can pay what he owes only after Alice has paid him.                 *)
Openings == (1 :> 2) @@ (2 :> 1)
VpaAccounts == (atAlice :> 1) @@ (atBob :> 2)

Pay(key, user, from, to, n) ==
  [key |-> key, user |-> user, body |-> [sender |-> from, receiver |-> to, amount |-> n]]

MCCalls == {
  Pay(k1, alice, atAlice, atBob, 2),
  Pay(k1, alice, atAlice, atNobody, 1),
  Pay(k2, bob, atBob, atAlice, 2)}

Retrying == Permutations(Payers)
=============================================================================
