----------------------------- MODULE MCSendMoney -----------------------------
(***************************************************************************)
(* A small instance of SendMoney: one tab, two contents.                   *)
(***************************************************************************)
EXTENDS SendMoney, TLC

CONSTANTS f1, r1, r2, r3, nobody

Alike == Permutations(Requests)
=============================================================================
