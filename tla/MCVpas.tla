------------------------------- MODULE MCVpas -------------------------------
(***************************************************************************)
(* A small instance of Vpas: a user with one account, and another user's   *)
(* account whose owner wants an address as well.                           *)
(***************************************************************************)
EXTENDS Vpas, TLC

CONSTANTS alice, bob, atOne, atTwo, atThree, r1, r2, r3, none

Create(user, a, x) == [user |-> user, account |-> a, address |-> x]
Move(user, x) == Create(user, none, x)

(* Alice creates one of two addresses, of which Bob wants one too, or      *)
(* makes one of them her primary; what she starts from may be any table.   *)
MCCalls == {
  Create(alice, 1, atTwo), Create(alice, 1, atThree), Create(bob, 2, atTwo),
  Move(alice, atTwo), Move(alice, atThree)}

Owners == (1 :> alice) @@ (2 :> bob)
=============================================================================
