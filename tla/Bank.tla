-------------------------------- MODULE Bank --------------------------------
(***************************************************************************)
(* What Pay-Up's ledger promises, whoever moves the money and however the  *)
(* steps of the requests interleave: a transfer moves money between two    *)
(* accounts at once, a payment takes it from the sender into its own hands *)
(* and then either delivers it or gives it back, money enters only through *)
(* a deposit (scripts/seed_balance), and no account is ever overdrawn.     *)
(* Transfers and Payments are shown to implement this module.              *)
(***************************************************************************)
EXTENDS Integers

CONSTANTS
  Accounts,     \* the accounts of the bank
  PaymentIds,   \* the payments that may hold money on its way
  Deposits,     \* the amounts a deposit may have
  Opening       \* the opening balance of every account

VARIABLES
  balance,      \* account -> what its owner has
  held          \* payment -> the money it took and has not handed on

vars == <<balance, held>>

NoMoney == [from |-> 0, to |-> 0, amount |-> 0]

Init ==
  /\ balance = Opening
  /\ held = [p \in PaymentIds |-> NoMoney]

Transfer(a, b, n) ==
  /\ n <= balance[a]
  /\ balance' = [balance EXCEPT ![a] = @ - n, ![b] = @ + n]
  /\ UNCHANGED held

Deposit(a, n) ==
  /\ balance' = [balance EXCEPT ![a] = @ + n]
  /\ UNCHANGED held

Debit(p, a, b, n) ==
  /\ held[p] = NoMoney
  /\ n <= balance[a]
  /\ balance' = [balance EXCEPT ![a] = @ - n]
  /\ held' = [held EXCEPT ![p] = [from |-> a, to |-> b, amount |-> n]]

HandOver(p, a) ==
  /\ held[p] # NoMoney
  /\ balance' = [balance EXCEPT ![a] = @ + held[p].amount]
  /\ held' = [held EXCEPT ![p] = NoMoney]

Deliver(p) == HandOver(p, held[p].to)

Refund(p) == HandOver(p, held[p].from)

Next ==
  \/ \E a, b \in Accounts : a # b /\ \E n \in 1 .. balance[a] : Transfer(a, b, n)
  \/ \E a \in Accounts, n \in Deposits : Deposit(a, n)
  \/ \E p \in PaymentIds, a, b \in Accounts :
       \E n \in 1 .. balance[a] : Debit(p, a, b, n)
  \/ \E p \in PaymentIds : Deliver(p) \/ Refund(p)

Spec == Init /\ [][Next]_vars
=============================================================================
