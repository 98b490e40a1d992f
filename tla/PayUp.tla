-------------------------------- MODULE PayUp --------------------------------
(***************************************************************************)
(* Transfers and payments together: the same accounts, account locks and   *)
(* pool of database connections (app/db/session.py).                       *)
(*                                                                         *)
(* A session takes a connection from the pool when it first executes       *)
(* something and gives it back when it commits or is closed.  So a         *)
(* transfer, and a payment that gives its money back, hold a connection    *)
(* while they wait for an account lock; a payment on its way from one      *)
(* commit to the next holds a lock while it waits for a connection.  The   *)
(* pool gives up after 30 seconds.                                         *)
(***************************************************************************)
EXTENDS Payments, Functions

CONSTANTS
  Transferers,
  AccountIds,
  PoolSize      \* pool_size + max_overflow

ASSUME PayUpAssumption ==
  /\ IsFiniteSet(Payers)
  /\ IsFiniteSet(Transferers)
  /\ Transferers \subseteq Procs \ (Payers \cup Seeders)
  /\ Accounts \subseteq AccountIds
  /\ PoolSize \in Nat \ {0}

VARIABLES tpc, treq    \* as in Transfers

(* No seed script runs next to the server here.                            *)
T == INSTANCE Transfers WITH spc <- [s \in Seeders |-> "idle"]

allVars == <<payVars, tpc, treq>>

PayUpInit == PaymentsInit /\ T!TransfersInit

-----------------------------------------------------------------------------
(***************************************************************************)
(* The pool.                                                               *)
(***************************************************************************)
TransferConnected(t) ==
  tpc[t] \in {"loaded", "firstLock", "secondLock"} \cup T!Critical

(* The SELECTs that end in a refusal are not followed by a commit; in the  *)
(* except clause of the credit the SELECT of its account was the last.     *)
PaymentConnected(r) ==
  \/ pc[r] \in {"newKey", "create", "debitSum", "debitCommit", "failDebit",
                "creditSum", "creditCommit", "askRefund", "waitRefund"} \cup Refunding
  \/ pc[r] = "cache" /\ reply[r].code = "refused"

Connected ==
  {t \in Transferers : TransferConnected(t)} \cup {r \in Payers : PaymentConnected(r)}

PoolHasOne == Cardinality(Connected) < PoolSize

(* Where the next thing a payment does is to execute something, without a  *)
(* connection yet.                                                         *)
Executing == {"idle", "validate", "process", "debit", "credit", "failCredit",
              "succeed", "cache"}

Gets(r) == pc[r] \in Executing /\ ~PaymentConnected(r) => PoolHasOne

(* mutant: pool_timeout is not set                                         *)
PoolTimeoutNever(r) == Gets(r) /\ DatabaseError(r)

(* TimeoutError from the pool, which is no AppException.  A request that   *)
(* gets no connection at its start has done nothing, as if it never came.  *)
PoolTimeout(r) == ~Gets(r) /\ DatabaseError(r)

PayerStep(r) == PaymentStep(r) /\ Gets(r)

PayerResumes(r) == (PayerStep(r) \/ PoolTimeout(r)) /\ UNCHANGED <<tpc, treq>>

TransferResumes(t) ==
  /\ T!TransferStep(t)
  /\ tpc[t] = "idle" => PoolHasOne
  /\ UNCHANGED paymentVars

Fails ==
  \/ \E r \in Payers : DatabaseError(r) /\ UNCHANGED <<tpc, treq>>
  \/ \E t \in Transferers : T!DbError(t) /\ UNCHANGED paymentVars

ServerDies == ServerCrash /\ T!TransfersLost

PayUpNext ==
  \/ \E r \in Payers : PayerResumes(r)
  \/ \E t \in Transferers : TransferResumes(t)
  \/ Fails
  \/ Freeze /\ UNCHANGED <<tpc, treq>>
  \/ ServerDies

PayUpSpec ==
  /\ PayUpInit /\ [][PayUpNext]_allVars
  /\ \A r \in Payers : WF_allVars(PayerResumes(r) /\ pc[r] # "idle")
  /\ \A t \in Transferers : WF_allVars(TransferResumes(t) /\ tpc[t] # "idle")

-----------------------------------------------------------------------------
(***************************************************************************)
(* Properties.                                                             *)
(***************************************************************************)
(* Every transfer and payment that is begun ends, though they wait for     *)
(* each other's locks and connections: the locks of a transfer are taken   *)
(* in order, and who holds a lock does not wait for a connection for ever. *)
EveryRequestEnds == RequestsEnd /\ T!TransfersEnd

(* "The final balance always matches exactly (initial - sum of what        *)
(* actually succeeded): no lost updates, no double-spend"                  *)
(* (tests/test_ledger.py:137-140), at every moment, for every account and  *)
(* for transfers and payments together: a balance is the opening balance   *)
(* with the transfers that committed and the legs of payments that did.    *)
Transferred(t, a) ==
  IF tpc[t] # "done" THEN 0
  ELSE (IF treq[t].to = a THEN treq[t].amount ELSE 0)
         - (IF treq[t].from = a THEN treq[t].amount ELSE 0)

LegsOn(r, a) ==
  IF paid[r] = "NONE" THEN 0
  ELSE Amount(r) * ((IF ReceiverAccount(r) = a THEN legs[r].credit ELSE 0)
                      + (IF SenderAccount(r) = a THEN legs[r].refund - legs[r].debit ELSE 0))

BalancesExplained ==
  \A a \in Accounts :
    Balance(a) = Opening[a] + SumFunction([t \in Transferers |-> Transferred(t, a)])
                            + SumFunction([r \in Payers |-> LegsOn(r, a)])
=============================================================================
