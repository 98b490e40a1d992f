------------------------------- MODULE Ledger -------------------------------
(***************************************************************************)
(* The ledger_entries table, the accounts table, the account locks of      *)
(* app/modules/ledger/service.py and LedgerService.post_entry.             *)
(*                                                                         *)
(* This module has no behaviour of its own.  It gives the state and the    *)
(* steps that every writer of the ledger is made of; Transfers and         *)
(* Payments put them in order.  A step is what a coroutine does between    *)
(* two awaits that another coroutine can notice.                           *)
(*                                                                         *)
(* The program asks the entries of an account for nothing but the sum of   *)
(* its credits, the sum of its debits and the listed balance_after_paise,  *)
(* so the table is kept as the two sums and the last balance_after_paise.  *)
(* SELECTs run outside any transaction and see what is committed (legacy   *)
(* transaction control of sqlite3); the INSERTs of a session stay pending  *)
(* until it commits.  No session reads an account whose entry it has       *)
(* pending, so a pending entry needs no place in the sums it reads.        *)
(***************************************************************************)
EXTENDS Integers, Sequences

CONSTANTS
  Users,
  Accounts,   \* ids of the accounts rows; < is the order of sorted(.., key=str)
  Owner,      \* account -> its user
  Amounts,    \* the amounts, in paise, of a request or of a seed
  Procs,      \* coroutines of the server, and scripts, that write entries
  Seeders,    \* those of Procs that run scripts/seed_balance.py, lockless
  Opening,    \* account -> the balance its first entry gave it
  Freezable   \* the accounts whose status an operator may set

ASSUME LedgerAssumption ==
  /\ Accounts \subseteq Nat
  /\ Owner \in [Accounts -> Users]
  /\ Amounts \subseteq Nat \ {0}       \* Field(gt=0) and the CHECK constraint
  /\ Seeders \subseteq Procs
  /\ Freezable \subseteq Accounts
  /\ Opening \in [Accounts -> Nat]

Statuses == {"ACTIVE", "FROZEN"}    \* FROZEN stands for CLOSED too

NoEntry == [type |-> "NONE", amount |-> 0, after |-> 0]

Entries == [type : {"CREDIT", "DEBIT"}, amount : Nat, after : Int] \cup {NoEntry}

NotPosting == [account |-> -1, credits |-> 0]

VARIABLES
  status,     \* accounts.status, set by an operator: no endpoint changes it
  credits,    \* account -> sum of its committed CREDIT entries
  debits,     \* account -> sum of its committed DEBIT entries
  lastAfter,  \* account -> balance_after_paise of its newest committed entry
  queue,      \* account -> its asyncio.Lock: the holder, then the waiters
  identity,   \* process -> account -> status in the session's identity map
  posting,    \* process -> the post_entry under way and its credit sum
  pending     \* process -> account -> entry flushed and not yet committed

dbVars == <<status, credits, debits, lastAfter>>
sessionVars == <<identity, posting, pending>>
ledgerVars == <<dbVars, queue, sessionVars>>

NoEntries == [a \in Accounts |-> NoEntry]
Unloaded == [a \in Accounts |-> "UNLOADED"]

LedgerTypeOK ==
  /\ status \in [Accounts -> Statuses]
  /\ credits \in [Accounts -> Nat]
  /\ debits \in [Accounts -> Nat]
  /\ lastAfter \in [Accounts -> Int]
  /\ queue \in [Accounts -> Seq(Procs \ Seeders)]
  /\ identity \in [Procs -> [Accounts -> Statuses \cup {"UNLOADED"}]]
  /\ posting \in [Procs -> [account : Accounts, credits : Nat] \cup {NotPosting}]
  /\ pending \in [Procs -> [Accounts -> Entries]]

LedgerInit ==
  /\ status \in {f \in [Accounts -> Statuses] :
                 \A a \in Accounts \ Freezable : f[a] = "ACTIVE"}
  /\ credits = Opening
  /\ debits = [a \in Accounts |-> 0]
  /\ lastAfter = Opening
  /\ queue = [a \in Accounts |-> <<>>]
  /\ identity = [p \in Procs |-> Unloaded]
  /\ posting = [p \in Procs |-> NotPosting]
  /\ pending = [p \in Procs |-> NoEntries]

-----------------------------------------------------------------------------
(***************************************************************************)
(* The account locks: asyncio.Lock is fair, wakes its first waiter and     *)
(* lets no newcomer past it.                                               *)
(***************************************************************************)
Holds(p, a) == queue[a] # <<>> /\ Head(queue[a]) = p

Join(p, a) == queue' = [queue EXCEPT ![a] = Append(@, p)]

Release(p) ==
  queue' = [a \in Accounts |-> IF Holds(p, a) THEN Tail(queue[a]) ELSE queue[a]]

-----------------------------------------------------------------------------
(***************************************************************************)
(* The session.  expire_on_commit=False and no populate_existing: a row    *)
(* the session holds keeps the status it was first read with.              *)
(***************************************************************************)
SeenFresh(p, a) == status[a]        \* mutant: expire_on_commit left at True

Seen(p, a) == IF identity[p][a] = "UNLOADED" THEN status[a] ELSE identity[p][a]

Load(p, S) ==
  identity' = [identity EXCEPT ![p] =
                 [a \in Accounts |-> IF a \in S THEN Seen(p, a) ELSE @[a]]]

(* Leaving get_db: what is not committed is rolled back.                   *)
CloseSession(p) ==
  /\ identity' = [identity EXCEPT ![p] = Unloaded]
  /\ posting' = [posting EXCEPT ![p] = NotPosting]
  /\ pending' = [pending EXCEPT ![p] = NoEntries]

-----------------------------------------------------------------------------
(***************************************************************************)
(* post_entry: the account's row and the first SELECT of get_balance_paise *)
(* (ReadCredits), then its second SELECT, the decision and the flushed     *)
(* INSERT (InsertEntry).                                                   *)
(***************************************************************************)
ReadCredits(p, a) ==
  posting' = [posting EXCEPT ![p] = [account |-> a, credits |-> credits[a]]]

BalanceSeen(p) == posting[p].credits - debits[posting[p].account]

(* mutant: the balance before the entry, not after it                      *)
NewEntryBefore(p, type, n) == [type |-> type, amount |-> n, after |-> BalanceSeen(p)]

NewEntry(p, type, n) ==
  [type |-> type, amount |-> n,
   after |-> IF type = "DEBIT" THEN BalanceSeen(p) - n ELSE BalanceSeen(p) + n]

InsufficientFunds(p, n) == n > BalanceSeen(p)

PostEntryRead(p, a) ==
  /\ Seen(p, a) = "ACTIVE"
  /\ Load(p, {a})
  /\ ReadCredits(p, a)
  /\ UNCHANGED pending

(* mutant: the funds are not checked                                       *)
InsertEntryUnchecked(p, type, n) ==
  /\ pending' = [pending EXCEPT ![p][posting[p].account] = NewEntry(p, type, n)]
  /\ posting' = [posting EXCEPT ![p] = NotPosting]
  /\ UNCHANGED identity

InsertEntry(p, type, n) ==
  /\ type = "DEBIT" => ~InsufficientFunds(p, n)
  /\ pending' = [pending EXCEPT ![p][posting[p].account] = NewEntry(p, type, n)]
  /\ posting' = [posting EXCEPT ![p] = NotPosting]
  /\ UNCHANGED identity

AmountOf(e, type) == IF e.type = type THEN e.amount ELSE 0

(* mutant: a DEBIT stored with its sign and summed as it is                *)
CommitSignedEntries(p) ==
  /\ credits' = [a \in Accounts |-> credits[a] + AmountOf(pending[p][a], "CREDIT")]
  /\ debits' = [a \in Accounts |-> debits[a] - AmountOf(pending[p][a], "DEBIT")]
  /\ lastAfter' = [a \in Accounts |-> IF pending[p][a] = NoEntry
                                      THEN lastAfter[a] ELSE pending[p][a].after]
  /\ pending' = [pending EXCEPT ![p] = NoEntries]
  /\ UNCHANGED <<status, identity, posting>>

CommitEntries(p) ==
  /\ credits' = [a \in Accounts |-> credits[a] + AmountOf(pending[p][a], "CREDIT")]
  /\ debits' = [a \in Accounts |-> debits[a] + AmountOf(pending[p][a], "DEBIT")]
  /\ lastAfter' = [a \in Accounts |-> IF pending[p][a] = NoEntry
                                      THEN lastAfter[a] ELSE pending[p][a].after]
  /\ pending' = [pending EXCEPT ![p] = NoEntries]
  /\ UNCHANGED <<status, identity, posting>>

Balance(a) == credits[a] - debits[a]

-----------------------------------------------------------------------------
(* An operator freezes or reactivates an account, straight in the table.   *)
SetStatus(a) ==
  /\ \E s \in Statuses \ {status[a]} : status' = [status EXCEPT ![a] = s]
  /\ UNCHANGED <<credits, debits, lastAfter, queue, sessionVars>>

(* The server dies: locks and open transactions go, scripts do not.        *)
LedgerLost ==
  /\ queue' = [a \in Accounts |-> <<>>]
  /\ identity' = [p \in Procs |-> IF p \in Seeders THEN identity[p] ELSE Unloaded]
  /\ posting' = [p \in Procs |-> IF p \in Seeders THEN posting[p] ELSE NotPosting]
  /\ pending' = [p \in Procs |-> IF p \in Seeders THEN pending[p] ELSE NoEntries]
  /\ UNCHANGED dbVars
-----------------------------------------------------------------------------
(***************************************************************************)
(* What every writer can rely on between its steps: the inductive part of  *)
(* the proofs.  A seed script may add credits at any moment, so a sum read *)
(* under the lock is a lower bound, and exact when there are no scripts.   *)
(***************************************************************************)
SumsReadHold ==
  \A p \in Procs : posting[p] # NotPosting =>
    /\ p \notin Seeders => Holds(p, posting[p].account)
    /\ posting[p].credits <= credits[posting[p].account]
    /\ Seeders = {} => posting[p].credits = credits[posting[p].account]

PendingEntriesHold ==
  \A p \in Procs, a \in Accounts : pending[p][a] # NoEntry =>
    /\ p \notin Seeders => Holds(p, a)
    /\ pending[p][a].type = "DEBIT" =>
         p \notin Seeders /\ pending[p][a].amount <= Balance(a)
    /\ Seeders = {} => pending[p][a].after = Balance(a)
                          + AmountOf(pending[p][a], "CREDIT")
                          - AmountOf(pending[p][a], "DEBIT")

(* No account ever goes negative, however transfers, payments, seeds,      *)
(* database errors and crashes interleave: what the account locks are for  *)
(* (ledger/service.py:18-23).                                              *)
NoOverdraft == \A a \in Accounts : Balance(a) >= 0

(* While no seed script runs next to the server, the balance_after_paise   *)
(* of the newest entry of an account is its balance: post_entry computes   *)
(* it from a sum that nobody else changes before the commit.               *)
RunningBalance == Seeders = {} => \A a \in Accounts : lastAfter[a] = Balance(a)

LedgerInv ==
  /\ LedgerTypeOK
  /\ SumsReadHold
  /\ PendingEntriesHold
  /\ NoOverdraft
  /\ RunningBalance
=============================================================================
