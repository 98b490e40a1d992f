------------------------------ MODULE Payments ------------------------------
(***************************************************************************)
(* POST /payments: PaymentService.initiate_payment and _process_payment.   *)
(* A payment is a saga of commits of its own: the idempotency key, the     *)
(* payment, PROCESSING, the debit, the credit (or the refund), the final   *)
(* status and the cached answer.  Each request is a coroutine; a client    *)
(* that retries sends another request with the same key.                   *)
(***************************************************************************)
EXTENDS Ledger, FiniteSets

CONSTANTS
  Payers,      \* the requests; a payment is named after the one that made it
  Keys,        \* idempotency keys
  Vpas,        \* the addresses of the vpas table
  VpaAccount,  \* address -> account_id
  Calls        \* what a request may carry: [key, user, body]

ASSUME PaymentsAssumption ==
  /\ Payers \subseteq Procs \ Seeders
  /\ VpaAccount \in [Vpas -> Accounts]
  /\ \A c \in Calls : c.key \in Keys /\ c.body.amount \in Amounts

VARIABLES
  call,      \* request -> what it carries
  pc,        \* request -> where its coroutine is
  reply,     \* request -> what its client is answered (set when it is decided)
  keyRow,    \* key -> its row of idempotency_keys
  paid,      \* payment -> payments.status
  legs,      \* payment -> how many ledger entries of each leg carry its id
  events,    \* payment -> its rows of payment_events, in commit order
  audit      \* payment -> its rows of audit_logs

tables == <<keyRow, paid, legs, events, audit>>
paymentVars == <<call, pc, reply, tables>>
payVars == <<ledgerVars, paymentVars>>

Key(r) == call[r].key
Body(r) == call[r].body     \* _hash_request: neither the key nor the user
Amount(r) == Body(r).amount
SenderAccount(r) == VpaAccount[Body(r).sender]
ReceiverAccount(r) == VpaAccount[Body(r).receiver]

(* An answer: "success" with the payment, the code of an AppException, or  *)
(* the 500 of an exception nobody handles.                                 *)
AppErrors == {"refused", "debitFailed", "creditFailed"}
Unhandled == {"typeError", "integrityError", "databaseError"}
NoAnswer == [code |-> "none", payment |-> "none"]
Answer(code) == [code |-> code, payment |-> "none"]
Success(r) == [code |-> "success", payment |-> r]
Answers == {NoAnswer} \cup {Success(r) : r \in Payers}
             \cup {Answer(c) : c \in AppErrors \cup Unhandled \cup {"conflict"}}

Bodies == {c.body : c \in Calls}
NoBody == [sender |-> "none", receiver |-> "none", amount |-> 0]
NoKey == [state |-> "absent", body |-> NoBody, snapshot |-> NoAnswer]

Closed == {"idle", "replied", "lost"}
Waiting == {"waitSender", "waitReceiver", "waitRefund"}
Debiting == {"debit", "debitSum", "debitCommit"}
Crediting == {"credit", "creditSum", "creditCommit"}
Refunding == {"refund", "refundSum", "refundCommit"}
Queueing == {"askSender", "askReceiver", "askRefund"}
Saving == {"newKey", "validate", "create", "process", "failDebit", "failCredit",
           "succeed", "cache"}
Places == Closed \cup Waiting \cup Debiting \cup Crediting \cup Refunding
            \cup Queueing \cup Saving

EventTypes == {"INITIATED", "PROCESSING", "DEBITED", "CREDITED", "SUCCESS", "FAILED"}
PaymentStatuses == {"NONE", "INITIATED", "PROCESSING", "SUCCESS", "FAILED"}

PaymentsTypeOK ==
  /\ LedgerTypeOK
  /\ call \in [Payers -> Calls]
  /\ pc \in [Payers -> Places]
  /\ reply \in [Payers -> Answers]
  /\ keyRow \in [Keys -> {NoKey} \cup [state : {"IN_PROGRESS", "COMPLETED"},
                                       body : Bodies, snapshot : Answers]]
  /\ paid \in [Payers -> PaymentStatuses]
  /\ legs \in [Payers -> [debit : Nat, credit : Nat, refund : Nat]]
  /\ events \in [Payers -> Seq(EventTypes)]
  /\ audit \in [Payers -> Seq({"PAYMENT_SUCCEEDED", "PAYMENT_FAILED"})]

PaymentsInit ==
  /\ LedgerInit
  /\ call \in [Payers -> Calls]
  /\ pc = [r \in Payers |-> "idle"]
  /\ reply = [r \in Payers |-> NoAnswer]
  /\ keyRow = [k \in Keys |-> NoKey]
  /\ paid = [r \in Payers |-> "NONE"]
  /\ legs = [r \in Payers |-> [debit |-> 0, credit |-> 0, refund |-> 0]]
  /\ events = [r \in Payers |-> <<>>]
  /\ audit = [r \in Payers |-> <<>>]

Move(r, from, to) == pc[r] = from /\ pc' = [pc EXCEPT ![r] = to] /\ UNCHANGED call

Respond(r, answer) == reply' = [reply EXCEPT ![r] = answer]

-----------------------------------------------------------------------------
(***************************************************************************)
(* The idempotency key.                                                    *)
(***************************************************************************)

(* mutant: the hashes are not compared                                     *)
KnownKeyAnswerAnyBody(row, body) ==
  IF row.state = "COMPLETED" THEN row.snapshot ELSE Answer("typeError")

(* The key is known: another body, the cached answer, or a row still       *)
(* IN_PROGRESS.  created_at comes back from SQLite without a time zone, so *)
(* now - created_at raises TypeError whatever the row's age.               *)
KnownKeyAnswer(row, body) ==
  IF row.body # body THEN Answer("conflict")
  ELSE IF row.state = "COMPLETED" THEN row.snapshot
  ELSE Answer("typeError")

(* mutant: a key IN_PROGRESS is taken for abandoned, and reprocessed       *)
FindKeyAbandoned(r) ==
  /\ \/ /\ keyRow[Key(r)].state = "COMPLETED"
        /\ Move(r, "idle", "replied")
        /\ Respond(r, KnownKeyAnswer(keyRow[Key(r)], Body(r)))
     \/ /\ keyRow[Key(r)].state = "IN_PROGRESS"
        /\ Move(r, "idle", "validate")
        /\ UNCHANGED reply
  /\ UNCHANGED <<ledgerVars, tables>>

FindKey(r) ==
  /\ keyRow[Key(r)] # NoKey
  /\ Move(r, "idle", "replied")
  /\ Respond(r, KnownKeyAnswer(keyRow[Key(r)], Body(r)))
  /\ UNCHANGED <<ledgerVars, tables>>

FindNoKey(r) ==
  /\ keyRow[Key(r)] = NoKey
  /\ Move(r, "idle", "newKey")
  /\ UNCHANGED <<ledgerVars, tables, reply>>

(* mutant: no unique index, the later row wins                             *)
CreateKeyAgain(r) ==
  /\ Move(r, "newKey", "validate")
  /\ keyRow' = [keyRow EXCEPT ![Key(r)] =
       [state |-> "IN_PROGRESS", body |-> Body(r), snapshot |-> NoAnswer]]
  /\ UNCHANGED <<ledgerVars, reply, paid, legs, events, audit>>

CreateKey(r) ==
  /\ keyRow[Key(r)] = NoKey
  /\ Move(r, "newKey", "validate")
  /\ keyRow' = [keyRow EXCEPT ![Key(r)] =
       [state |-> "IN_PROGRESS", body |-> Body(r), snapshot |-> NoAnswer]]
  /\ UNCHANGED <<ledgerVars, reply, paid, legs, events, audit>>

(* Another request inserted the key since FindNoKey: the unique index.     *)
DuplicateKey(r) ==
  /\ keyRow[Key(r)] # NoKey
  /\ Move(r, "newKey", "replied")
  /\ Respond(r, Answer("integrityError"))
  /\ UNCHANGED <<ledgerVars, tables>>

(* Both ends of initiate_payment: the answer, a success or an AppException,*)
(* is saved with the key and given to the client.                          *)
CacheAnswer(r) ==
  /\ Move(r, "cache", "replied")
  /\ keyRow' = [keyRow EXCEPT ![Key(r)].state = "COMPLETED",
                              ![Key(r)].snapshot = reply[r]]
  /\ CloseSession(r)
  /\ UNCHANGED <<dbVars, queue, reply, paid, legs, events, audit>>

-----------------------------------------------------------------------------
(***************************************************************************)
(* The payment's row and its events: each commit saves a status and the    *)
(* event that tells of it.                                                 *)
(***************************************************************************)
Record(r, event) == events' = [events EXCEPT ![r] = Append(@, event)]

SetPaid(r, st) == paid' = [paid EXCEPT ![r] = st]

Payable(r) ==
  /\ Body(r).sender \in Vpas
  /\ Owner[SenderAccount(r)] = call[r].user
  /\ Body(r).receiver \in Vpas
  /\ Body(r).sender # Body(r).receiver

Validate(r) ==
  /\ Payable(r)
  /\ Move(r, "validate", "create")
  /\ Load(r, {SenderAccount(r)})
  /\ UNCHANGED <<dbVars, queue, posting, pending, tables, reply>>

Refuse(r) ==
  /\ ~Payable(r)
  /\ Move(r, "validate", "cache")
  /\ Respond(r, Answer("refused"))
  /\ UNCHANGED <<ledgerVars, tables>>

CreatePayment(r) ==
  /\ Move(r, "create", "process")
  /\ SetPaid(r, "INITIATED")
  /\ Record(r, "INITIATED")
  /\ UNCHANGED <<ledgerVars, reply, keyRow, legs, audit>>

StartProcessing(r) ==
  /\ Move(r, "process", "askSender")
  /\ SetPaid(r, "PROCESSING")
  /\ Record(r, "PROCESSING")
  /\ UNCHANGED <<ledgerVars, reply, keyRow, legs, audit>>

(* The three ends of the saga.                                             *)
Finish(r, from, st, event, action, answer) ==
  /\ Move(r, from, "cache")
  /\ SetPaid(r, st)
  /\ Record(r, event)
  /\ audit' = [audit EXCEPT ![r] = Append(@, action)]
  /\ Respond(r, answer)
  /\ UNCHANGED <<ledgerVars, keyRow, legs>>

FailDebit(r) == Finish(r, "failDebit", "FAILED", "FAILED", "PAYMENT_FAILED", Answer("debitFailed"))

FailCredit(r) == Finish(r, "failCredit", "FAILED", "FAILED", "PAYMENT_FAILED", Answer("creditFailed"))

(* mutant: the status of another enumeration                               *)
SucceedCompleted(r) ==
  Finish(r, "succeed", "COMPLETED", "SUCCESS", "PAYMENT_SUCCEEDED", Success(r))

Succeed(r) == Finish(r, "succeed", "SUCCESS", "SUCCESS", "PAYMENT_SUCCEEDED", Success(r))

-----------------------------------------------------------------------------
(***************************************************************************)
(* A leg: ask for the account's lock, wait for it, post the entry, commit, *)
(* leave the lock.                                                         *)
(***************************************************************************)
Ask(r, a, from, to) ==
  /\ Move(r, from, to)
  /\ Join(r, a)
  /\ UNCHANGED <<dbVars, sessionVars, tables, reply>>

Enter(r, a, from, to) ==
  /\ Move(r, from, to)
  /\ Holds(r, a)
  /\ UNCHANGED <<ledgerVars, tables, reply>>

ReadLeg(r, a, from, to) ==
  /\ Move(r, from, to)
  /\ PostEntryRead(r, a)
  /\ UNCHANGED <<dbVars, queue, tables, reply>>

InsertLeg(r, type, from, to) ==
  /\ Move(r, from, to)
  /\ InsertEntry(r, type, Amount(r))
  /\ UNCHANGED <<dbVars, queue, tables, reply>>

(* mutant: the lock is not left                                            *)
CommitLegHolding(r, leg, from, to) ==
  /\ Move(r, from, to)
  /\ CommitEntries(r)
  /\ legs' = [legs EXCEPT ![r][leg] = @ + 1]
  /\ UNCHANGED <<queue, reply, keyRow, paid, audit>>

CommitLeg(r, leg, from, to) ==
  /\ Move(r, from, to)
  /\ CommitEntries(r)
  /\ Release(r)
  /\ legs' = [legs EXCEPT ![r][leg] = @ + 1]
  /\ UNCHANGED <<reply, keyRow, paid, audit>>

(* mutant: an exception leaves the lock taken                              *)
LeaveLegHolding(r, from, to) ==
  /\ Move(r, from, to)
  /\ posting' = [posting EXCEPT ![r] = NotPosting]
  /\ UNCHANGED <<dbVars, queue, identity, pending, tables, reply>>

(* post_entry raises; nothing is pending, the lock is left.                *)
LeaveLeg(r, from, to) ==
  /\ Move(r, from, to)
  /\ Release(r)
  /\ posting' = [posting EXCEPT ![r] = NotPosting]
  /\ UNCHANGED <<dbVars, identity, pending, tables, reply>>

AskSender(r) == Ask(r, SenderAccount(r), "askSender", "waitSender")
EnterDebit(r) == Enter(r, SenderAccount(r), "waitSender", "debit")
DebitRead(r) == ReadLeg(r, SenderAccount(r), "debit", "debitSum")
DebitInsert(r) == InsertLeg(r, "DEBIT", "debitSum", "debitCommit")
DebitCommit(r) ==
  CommitLeg(r, "debit", "debitCommit", "askReceiver") /\ Record(r, "DEBITED")

DebitInactive(r) ==
  LeaveLeg(r, "debit", "failDebit") /\ Seen(r, SenderAccount(r)) # "ACTIVE"
DebitInsufficient(r) ==
  LeaveLeg(r, "debitSum", "failDebit") /\ InsufficientFunds(r, Amount(r))

AskReceiver(r) == Ask(r, ReceiverAccount(r), "askReceiver", "waitReceiver")
EnterCredit(r) == Enter(r, ReceiverAccount(r), "waitReceiver", "credit")
CreditRead(r) == ReadLeg(r, ReceiverAccount(r), "credit", "creditSum")
CreditInsert(r) == InsertLeg(r, "CREDIT", "creditSum", "creditCommit")
CreditCommit(r) ==
  CommitLeg(r, "credit", "creditCommit", "succeed") /\ Record(r, "CREDITED")

(* mutant: the payment is failed and nothing is refunded                   *)
CreditInactiveNoRefund(r) ==
  LeaveLeg(r, "credit", "failCredit") /\ Seen(r, ReceiverAccount(r)) # "ACTIVE"

CreditInactive(r) ==
  LeaveLeg(r, "credit", "askRefund") /\ Seen(r, ReceiverAccount(r)) # "ACTIVE"

(* The compensation, inside the except clause of the credit.  Its commit   *)
(* records no event, and post_entry cannot raise in it: RefundNotRefused.  *)
AskRefund(r) == Ask(r, SenderAccount(r), "askRefund", "waitRefund")
EnterRefund(r) == Enter(r, SenderAccount(r), "waitRefund", "refund")
RefundRead(r) == ReadLeg(r, SenderAccount(r), "refund", "refundSum")
RefundInsert(r) == InsertLeg(r, "CREDIT", "refundSum", "refundCommit")

(* mutant: the refund is announced as the credit                           *)
RefundCommitCredited(r) ==
  CommitLeg(r, "refund", "refundCommit", "failCredit") /\ Record(r, "CREDITED")

RefundCommit(r) ==
  CommitLeg(r, "refund", "refundCommit", "failCredit") /\ UNCHANGED events

-----------------------------------------------------------------------------
(***************************************************************************)
(* What goes wrong: a statement or a commit raises something that is no    *)
(* AppException (a locked database, a pool timeout), or the server dies.   *)
(***************************************************************************)
DatabaseError(r) ==
  /\ pc[r] \notin Closed \cup Waiting \cup Queueing
  /\ Move(r, pc[r], "replied")
  /\ Respond(r, Answer("databaseError"))
  /\ Release(r)
  /\ CloseSession(r)
  /\ UNCHANGED <<dbVars, tables>>

PaymentsLost ==
  /\ pc' = [r \in Payers |-> IF pc[r] \in Closed THEN pc[r] ELSE "lost"]
  /\ reply' = [r \in Payers |-> IF pc[r] \in Closed THEN reply[r] ELSE NoAnswer]
  /\ UNCHANGED <<call, tables>>

ServerCrash == LedgerLost /\ PaymentsLost

KeyStep(r) ==
  FindKey(r) \/ FindNoKey(r) \/ CreateKey(r) \/ DuplicateKey(r) \/ CacheAnswer(r)

StatusStep(r) ==
  \/ Validate(r) \/ Refuse(r) \/ CreatePayment(r) \/ StartProcessing(r)
  \/ FailDebit(r) \/ FailCredit(r) \/ Succeed(r)

DebitStep(r) ==
  \/ AskSender(r) \/ EnterDebit(r) \/ DebitRead(r) \/ DebitInsert(r)
  \/ DebitCommit(r) \/ DebitInactive(r) \/ DebitInsufficient(r)

CreditStep(r) ==
  \/ AskReceiver(r) \/ EnterCredit(r) \/ CreditRead(r) \/ CreditInsert(r)
  \/ CreditCommit(r) \/ CreditInactive(r)

RefundStep(r) ==
  \/ AskRefund(r) \/ EnterRefund(r) \/ RefundRead(r) \/ RefundInsert(r)
  \/ RefundCommit(r)

PaymentStep(r) ==
  KeyStep(r) \/ StatusStep(r) \/ DebitStep(r) \/ CreditStep(r) \/ RefundStep(r)

Freeze == \E a \in Freezable : SetStatus(a) /\ UNCHANGED paymentVars

PaymentsNext ==
  \/ \E r \in Payers : PaymentStep(r) \/ DatabaseError(r)
  \/ Freeze
  \/ ServerCrash

PaymentsSpec == PaymentsInit /\ [][PaymentsNext]_payVars

(* asyncio resumes every coroutine whose lock or result has come.          *)
PaymentsFairSpec ==
  PaymentsSpec /\ \A r \in Payers : WF_payVars(PaymentStep(r) /\ pc[r] # "idle")
-----------------------------------------------------------------------------
(***************************************************************************)
(* Properties.                                                             *)
(***************************************************************************)

(* Whatever is interleaved, fails or dies, a payment is debited at most    *)
(* once, is credited or refunded at most once and never before the debit,  *)
(* and its status tells the truth about the money: SUCCESS means it        *)
(* arrived, FAILED that the sender has it (_process_payment, 188-258).     *)
StatusTellsMoney ==
  \A r \in Payers :
    /\ legs[r].debit <= 1
    /\ legs[r].credit + legs[r].refund <= legs[r].debit
    /\ paid[r] = "SUCCESS" => legs[r].credit = 1
    /\ paid[r] = "FAILED" => legs[r].refund = legs[r].debit

(* The events of a payment, the outbox rows other systems are told from,   *)
(* follow one of the courses of a payment, and DEBITED, CREDITED and       *)
(* the terminal event and audit row stand there exactly when the entry or  *)
(* the status they tell of was committed: each is "durable iff the         *)
(* transition committed" (models/payment_event.py:22-23).                  *)
Courses == {<<"INITIATED", "PROCESSING", "DEBITED", "CREDITED", "SUCCESS">>,
            <<"INITIATED", "PROCESSING", "DEBITED", "FAILED">>,
            <<"INITIATED", "PROCESSING", "FAILED">>}

Tells(r, event) == \E i \in DOMAIN events[r] : events[r][i] = event

EventsTellPayment ==
  \A r \in Payers :
    /\ \E c \in Courses : /\ Len(events[r]) <= Len(c)
                         /\ events[r] = SubSeq(c, 1, Len(events[r]))
    /\ Tells(r, "DEBITED") <=> legs[r].debit = 1
    /\ Tells(r, "CREDITED") <=> legs[r].credit = 1
    /\ \A st \in {"SUCCESS", "FAILED"} : Tells(r, st) <=> paid[r] = st
    /\ audit[r] = CASE paid[r] = "SUCCESS" -> <<"PAYMENT_SUCCEEDED">>
                    [] paid[r] = "FAILED" -> <<"PAYMENT_FAILED">>
                    [] OTHER -> <<>>

(* However often and however concurrently a key is used, one payment at    *)
(* most is made for it: what an idempotency key is for.                    *)
OnePaymentPerKey ==
  \A r, s \in Payers :
    Key(r) = Key(s) /\ paid[r] # "NONE" /\ paid[s] # "NONE" => r = s

(* A client is never told a lie, by the request itself or by a replay: a   *)
(* success names a successful payment of the same key and body, and an     *)
(* AppException means that no payment of that key and body moved money     *)
(* that did not come back, nor ever will.                                  *)
AnswersTrue ==
  \A r \in Payers :
    pc[r] = "replied" =>
      /\ reply[r].code = "success" =>
           /\ paid[reply[r].payment] = "SUCCESS"
           /\ call[reply[r].payment].key = Key(r)
           /\ call[reply[r].payment].body = Body(r)
      /\ reply[r].code \in AppErrors =>
           \A s \in Payers : Key(s) = Key(r) /\ Body(s) = Body(r)
             => paid[s] \in {"NONE", "FAILED"} /\ legs[s].debit = legs[s].refund

(* A payment whose debit went through can be refunded whatever became of   *)
(* the sender's account meanwhile: the session still holds the row with    *)
(* the status the debit was allowed under (expire_on_commit=False), so     *)
(* post_entry does not raise inside the except clause.                     *)
RefundNotRefused ==
  \A r \in Payers : pc[r] = "refund" => Seen(r, SenderAccount(r)) = "ACTIVE"

(* Money taken from a sender reaches the receiver or comes back, unless    *)
(* the very request that moves it is cut off by a database error or the    *)
(* server's death: no other request, lock or freeze can hold it up.        *)
Settled(r) == legs[r].credit + legs[r].refund = 1

DebitSettles ==
  \A r \in Payers :
    legs[r].debit = 1 ~>
      Settled(r) \/ pc[r] = "lost" \/ reply[r] = Answer("databaseError")

(* Every request that is begun ends: no two payments, whichever way they   *)
(* pay, wait for each other's account locks for ever.                      *)
RequestsEnd == \A r \in Payers : pc[r] \notin Closed ~> pc[r] \in Closed

(* "The debit already landed, so we must compensate by refunding the       *)
(* sender" (payments/service.py:220-222), with nothing excepted.  The code *)
(* compensates an AppException only.                                       *)
DebitCompensated == \A r \in Payers : legs[r].debit = 1 ~> Settled(r)

(* A request that meets a key still IN_PROGRESS is told it "is already     *)
(* being processed" or, after STALE_IN_PROGRESS_SECONDS, is reprocessed    *)
(* (payments/service.py:35-36, core/exceptions.py:128-129); it is not a    *)
(* server error.  The code raises TypeError.                               *)
KeyInProgressHandled == \A r \in Payers : reply[r] # Answer("typeError")

(* Committed money moves as Bank says: out of the sender into the payment, *)
(* and from it to the receiver or back, never more than there is.          *)
PaymentsBank == INSTANCE Bank WITH
  PaymentIds <- Payers,
  Deposits <- {},
  balance <- [a \in Accounts |-> Balance(a)],
  held <- [r \in Payers |->
             IF legs[r].debit > legs[r].credit + legs[r].refund
             THEN [from |-> SenderAccount(r), to |-> ReceiverAccount(r),
                   amount |-> Amount(r)]
             ELSE [from |-> 0, to |-> 0, amount |-> 0]]

PaymentsImplementBank == PaymentsBank!Spec

(* Whatever a payment goes through, its request keeps what Idempotency     *)
(* promises: the saga is one payment that is credited or not, its answer   *)
(* is saved with the key once, and a request that breaks off never pays    *)
(* later.                                                                  *)
TheEndpoint == INSTANCE Idempotency WITH
  Requests <- Payers,
  Errors <- AppErrors,
  serving <- {r \in Payers : pc[r] \notin Closed \cup {"newKey"}},
  done <- {r \in Payers : legs[r].credit = 1},
  answer <- [r \in Payers |-> IF pc[r] = "replied" THEN reply[r] ELSE NoAnswer]

PaymentsImplementIdempotency == TheEndpoint!IdempotencySpec
=============================================================================
