----------------------------- MODULE Transfers ------------------------------
(***************************************************************************)
(* POST /ledger/transfer: LedgerService.transfer, one coroutine per        *)
(* request, next to scripts/seed_balance.py, which writes CREDIT entries   *)
(* from a process of its own and takes no lock.                            *)
(***************************************************************************)
EXTENDS Ledger

CONSTANTS
  Transferers,   \* the requests, each a coroutine
  AccountIds     \* ids a request may carry; those not in Accounts name no row

ASSUME TransfersAssumption ==
  /\ Transferers \subseteq Procs \ Seeders
  /\ Accounts \subseteq AccountIds

VARIABLES
  tpc,    \* transferer -> where its coroutine is
  treq,   \* transferer -> the request it serves
  spc     \* seeder -> where its script is

transferVars == <<tpc, treq, spc>>
vars == <<ledgerVars, transferVars>>

Requests == [user : Users, from : AccountIds, to : AccountIds, amount : Amounts]

NoRequest == [user |-> "nobody", from |-> 0, to |-> 0, amount |-> 0]

(* transfer's own checks, in its order: not the same account, both rows    *)
(* exist, the sender's is the user's.                                      *)
Accepted(r) ==
  /\ r.from # r.to
  /\ r.from \in Accounts
  /\ Owner[r.from] = r.user
  /\ r.to \in Accounts

Ended == {"done", "refused", "error"}
Critical == {"debit", "debitSum", "credit", "creditSum", "commit"}
Stages == {"idle", "loaded", "firstLock", "secondLock"} \cup Critical \cup Ended

TransfersTypeOK ==
  /\ tpc \in [Transferers -> Stages]
  /\ treq \in [Transferers -> {r \in Requests : Accepted(r)} \cup {NoRequest}]
  /\ \A t \in Transferers : tpc[t] \in Stages \ ({"idle"} \cup Ended) => treq[t] # NoRequest
  /\ spc \in [Seeders -> {"idle", "insert", "commit", "done"}]

TypeOK == LedgerTypeOK /\ TransfersTypeOK

TransfersInit ==
  /\ tpc = [t \in Transferers |-> "idle"]
  /\ treq = [t \in Transferers |-> NoRequest]
  /\ spc = [s \in Seeders |-> "idle"]

Init == LedgerInit /\ TransfersInit

Goto(t, stage) == tpc' = [tpc EXCEPT ![t] = stage]

-----------------------------------------------------------------------------
(***************************************************************************)
(* A transfer.                                                             *)
(***************************************************************************)
Start(t) ==
  /\ tpc[t] = "idle"
  /\ \E r \in Requests :
       /\ Accepted(r)
       /\ treq' = [treq EXCEPT ![t] = r]
       /\ Load(t, {r.from, r.to})
  /\ Goto(t, "loaded")
  /\ UNCHANGED <<dbVars, queue, posting, pending, spc>>

(* InvalidOperation, NotFound or Authorization, before any lock is taken.  *)
Refuse(t) ==
  /\ tpc[t] = "idle"
  /\ \E r \in Requests : ~Accepted(r)
  /\ Goto(t, "refused")
  /\ UNCHANGED <<ledgerVars, treq, spc>>

(* locked(): the sorted set of the two accounts.                           *)
LockOrderUnsorted(r) == <<r.from, r.to>>    \* mutant: locks taken as asked for

LockOrder(r) == IF r.from < r.to THEN <<r.from, r.to>> ELSE <<r.to, r.from>>

AskFirst(t) ==
  /\ tpc[t] = "loaded"
  /\ Join(t, LockOrder(treq[t])[1])
  /\ Goto(t, "firstLock")
  /\ UNCHANGED <<dbVars, sessionVars, treq, spc>>

AskSecond(t) ==
  /\ tpc[t] = "firstLock"
  /\ Holds(t, LockOrder(treq[t])[1])
  /\ Join(t, LockOrder(treq[t])[2])
  /\ Goto(t, "secondLock")
  /\ UNCHANGED <<dbVars, sessionVars, treq, spc>>

Enter(t) ==
  /\ tpc[t] = "secondLock"
  /\ Holds(t, LockOrder(treq[t])[2])
  /\ Goto(t, "debit")
  /\ UNCHANGED <<ledgerVars, treq, spc>>

DebitRead(t) ==
  /\ tpc[t] = "debit"
  /\ PostEntryRead(t, treq[t].from)
  /\ Goto(t, "debitSum")
  /\ UNCHANGED <<dbVars, queue, treq, spc>>

(* mutant: the locks are left before the commit                            *)
DebitInsertUnlocking(t) ==
  /\ tpc[t] = "debitSum"
  /\ InsertEntry(t, "DEBIT", treq[t].amount)
  /\ Release(t)
  /\ Goto(t, "credit")
  /\ UNCHANGED <<dbVars, treq, spc>>

(* mutant: commit() where the code flushes                                 *)
DebitInsertCommitting(t) ==
  /\ tpc[t] = "debitSum"
  /\ ~InsufficientFunds(t, treq[t].amount)
  /\ debits' = [debits EXCEPT ![treq[t].from] = @ + treq[t].amount]
  /\ Goto(t, "credit")
  /\ UNCHANGED <<status, credits, lastAfter, queue, sessionVars, treq, spc>>

DebitInsert(t) ==
  /\ tpc[t] = "debitSum"
  /\ InsertEntry(t, "DEBIT", treq[t].amount)
  /\ Goto(t, "credit")
  /\ UNCHANGED <<dbVars, queue, treq, spc>>

CreditRead(t) ==
  /\ tpc[t] = "credit"
  /\ PostEntryRead(t, treq[t].to)
  /\ Goto(t, "creditSum")
  /\ UNCHANGED <<dbVars, queue, treq, spc>>

CreditInsert(t) ==
  /\ tpc[t] = "creditSum"
  /\ InsertEntry(t, "CREDIT", treq[t].amount)
  /\ Goto(t, "commit")
  /\ UNCHANGED <<dbVars, queue, treq, spc>>

Commit(t) ==
  /\ tpc[t] = "commit"
  /\ CommitEntries(t)
  /\ Release(t)
  /\ Goto(t, "done")
  /\ UNCHANGED <<treq, spc>>

(* mutant: the session is committed when it is closed                      *)
AbandonCommitting(t, stage) ==
  /\ Release(t)
  /\ CommitEntries(t)
  /\ Goto(t, stage)
  /\ UNCHANGED <<treq, spc>>

(* The locks are left and the session is closed without a commit.          *)
Abandon(t, stage) ==
  /\ Release(t)
  /\ CloseSession(t)
  /\ Goto(t, stage)
  /\ UNCHANGED <<dbVars, treq, spc>>

(* AccountNotActive or InsufficientFunds, raised by post_entry.            *)
Reject(t) ==
  /\ \/ tpc[t] = "debit" /\ Seen(t, treq[t].from) # "ACTIVE"
     \/ tpc[t] = "debitSum" /\ InsufficientFunds(t, treq[t].amount)
     \/ tpc[t] = "credit" /\ Seen(t, treq[t].to) # "ACTIVE"
  /\ Abandon(t, "refused")

(* A statement or the commit raises: OperationalError, a pool timeout.     *)
DbError(t) ==
  /\ tpc[t] \in Critical
  /\ Abandon(t, "error")

-----------------------------------------------------------------------------
(***************************************************************************)
(* scripts/seed_balance.py: read the balance, insert one CREDIT, commit.   *)
(***************************************************************************)
SeedStep(s, from, to) ==
  /\ spc[s] = from
  /\ spc' = [spc EXCEPT ![s] = to]
  /\ UNCHANGED <<tpc, treq, queue>>

SeedRead(s) ==
  /\ SeedStep(s, "idle", "insert")
  /\ \E a \in Accounts : ReadCredits(s, a)
  /\ UNCHANGED <<dbVars, identity, pending>>

SeedInsert(s) ==
  /\ SeedStep(s, "insert", "commit")
  /\ \E n \in Amounts : InsertEntry(s, "CREDIT", n)
  /\ UNCHANGED dbVars

SeedCommit(s) ==
  /\ SeedStep(s, "commit", "done")
  /\ CommitEntries(s)

-----------------------------------------------------------------------------
TransfersLost ==
  /\ tpc' = [t \in Transferers |-> IF tpc[t] \in {"idle"} \cup Ended
                                   THEN tpc[t] ELSE "error"]
  /\ UNCHANGED <<treq, spc>>

Crash == LedgerLost /\ TransfersLost

TransferStep(t) ==
  \/ Start(t) \/ Refuse(t)
  \/ AskFirst(t) \/ AskSecond(t) \/ Enter(t)
  \/ DebitRead(t) \/ DebitInsert(t) \/ CreditRead(t) \/ CreditInsert(t)
  \/ Commit(t) \/ Reject(t)

SeederStep(s) == SeedRead(s) \/ SeedInsert(s) \/ SeedCommit(s)

(* An operator's change of a status, with the requests' state untouched.   *)
Operator == \E a \in Freezable : SetStatus(a) /\ UNCHANGED transferVars

LiveStep ==
  \/ \E t \in Transferers : TransferStep(t) \/ DbError(t)
  \/ \E s \in Seeders : SeederStep(s)
  \/ Operator

Next == LiveStep \/ Crash

Spec == Init /\ [][Next]_vars

-----------------------------------------------------------------------------
(***************************************************************************)
(* Where the stages of a transfer stand between locks, sums and entries:   *)
(* with LedgerInv, the inductive invariant of the proofs.                  *)
(***************************************************************************)
LocksTaken(t) ==
  /\ tpc[t] = "secondLock" => Holds(t, LockOrder(treq[t])[1])
  /\ tpc[t] \in Critical => Holds(t, treq[t].from) /\ Holds(t, treq[t].to)

SumRead(t) ==
  CASE tpc[t] = "debitSum" -> posting[t].account = treq[t].from
    [] tpc[t] = "creditSum" -> posting[t].account = treq[t].to
    [] OTHER -> posting[t] = NotPosting

EntriesPending(t) ==
  IF tpc[t] \in {"credit", "creditSum", "commit"}
  THEN /\ pending[t][treq[t].from].type = "DEBIT"
       /\ pending[t][treq[t].from].amount = treq[t].amount
       /\ tpc[t] = "commit" => /\ pending[t][treq[t].to].type = "CREDIT"
                               /\ pending[t][treq[t].to].amount = treq[t].amount
       /\ tpc[t] # "commit" => pending[t][treq[t].to] = NoEntry
       /\ \A a \in Accounts \ {treq[t].from, treq[t].to} : pending[t][a] = NoEntry
  ELSE pending[t] = NoEntries

SeedPending(s) ==
  /\ spc[s] = "insert" <=> posting[s] # NotPosting
  /\ IF spc[s] = "commit"
     THEN \E a \in Accounts :
            /\ pending[s][a].type = "CREDIT"
            /\ pending[s][a].amount \in Amounts
            /\ \A b \in Accounts \ {a} : pending[s][b] = NoEntry
     ELSE pending[s] = NoEntries

Inv ==
  /\ LedgerInv
  /\ TransfersTypeOK
  /\ \A t \in Transferers : LocksTaken(t) /\ SumRead(t) /\ EntriesPending(t)
  /\ \A s \in Seeders : SeedPending(s)

-----------------------------------------------------------------------------
(***************************************************************************)
(* Properties.                                                             *)
(***************************************************************************)

(* Every coroutine that is served ends: two transfers in opposite          *)
(* directions do not wait on each other for ever (docstring of locked).    *)
TransfersEnd == \A t \in Transferers : (tpc[t] = "loaded") ~> (tpc[t] \in Ended)

(* Seen through the committed balances, transfers and seeds are the atomic *)
(* transfers and deposits of Bank: both entries of a transfer appear at    *)
(* once or not at all, and no step between two awaits shows.               *)
TheBank == INSTANCE Bank WITH
  PaymentIds <- {},
  Deposits <- Amounts,
  balance <- [a \in Accounts |-> Balance(a)],
  held <- [p \in {} |-> 0]

ImplementsBank == TheBank!Spec
=============================================================================
