--------------------------- MODULE MCRegistrations ---------------------------
(***************************************************************************)
(* A small instance of Registrations: users who share an email or a phone, *)
(* two users' accounts at a bank, banks that share a code or a name with   *)
(* each other or with the script's list, right and wrong passwords.        *)
(***************************************************************************)
EXTENDS Registrations, TLC

CONSTANTS r1, r2, script, again, alice, bob, none

Call(table, first, second, secret) ==
  [table |-> table, first |-> first, second |-> second, secret |-> secret]
Open(user, bank) == Call("accounts", <<user, bank>>, none, none)
Login(email, secret) == Call("login", email, none, secret)

MCCalls == {
  Call("users", "a@x", "91", "pw1"), Call("users", "a@x", "92", "pw2"),
  Call("users", "b@x", "91", "pw1"),
  Login("a@x", "pw1"), Login("a@x", "pw2"),
  Open(alice, "SBIN"), Open(bob, "SBIN"),
  Call("banks", "SBIN", "State Bank", none), Call("banks", "HDFC", "State Bank", none)}

MCEntries == <<
  Call("banks", "SBIN", "State Bank", none),
  Call("banks", "UTIB", "Axis Bank", none),
  Call("psps", "GPAY", "Google Pay", none)>>

(* A bank that somebody registered before.                                 *)
MCExisting == {Row(Call("banks", "UTIB", "Axis", none), none)}
=============================================================================
