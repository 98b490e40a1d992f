--------------------------- MODULE PaymentsProofs ---------------------------
(***************************************************************************)
(* Payments is proved for any accounts, requests, keys and amounts, any    *)
(* number of retries, any errors and any number of crashes: its money, its *)
(* events, its keys and its answers, and the two modules it implements.    *)
(*                                                                         *)
(* PaymentsInv says of each request which chapter of the saga its place in *)
(* the code stands for (Saga), what it has taken, read and flushed there   *)
(* (Leg), and what its key's row says (KeyInv).  Only the request itself   *)
(* turns its pages, so each action is looked at for its own request alone. *)
(*                                                                         *)
(* The last sections put the transfers next to the payments (PayUp): the   *)
(* invariants of both hold together because a step of either leaves the    *)
(* sessions and locks of every other process as they are, and every        *)
(* balance is then accounted for.  Nothing before them cites PayUp's       *)
(* assumption.  The very last puts the outbox and the notifications behind *)
(* the payments (Pipeline), and needs of them what they keep alone.        *)
(***************************************************************************)
EXTENDS PayUp, Pipeline, LedgerProofs, FiniteSetTheorems, WellFoundedInduction

Serving == Places \ (Closed \cup {"newKey"})

-----------------------------------------------------------------------------
(* The rows that tell of a payment, from its beginning to its ends.        *)
Rows(r, st, debit, credit, refund, ev, log) ==
  /\ paid[r] = st
  /\ legs[r] = [debit |-> debit, credit |-> credit, refund |-> refund]
  /\ events[r] = ev
  /\ audit[r] = log

Untouched(r) == Rows(r, "NONE", 0, 0, 0, <<>>, <<>>)
Initiated(r) == Rows(r, "INITIATED", 0, 0, 0, <<"INITIATED">>, <<>>)
Processing(r) ==
  Rows(r, "PROCESSING", 0, 0, 0, <<"INITIATED", "PROCESSING">>, <<>>)
Debited(r) ==
  Rows(r, "PROCESSING", 1, 0, 0, <<"INITIATED", "PROCESSING", "DEBITED">>, <<>>)
Credited(r) ==
  Rows(r, "PROCESSING", 1, 1, 0,
       <<"INITIATED", "PROCESSING", "DEBITED", "CREDITED">>, <<>>)
Refunded(r) ==
  Rows(r, "PROCESSING", 1, 0, 1, <<"INITIATED", "PROCESSING", "DEBITED">>, <<>>)
Succeeded(r) ==
  Rows(r, "SUCCESS", 1, 1, 0,
       <<"INITIATED", "PROCESSING", "DEBITED", "CREDITED", "SUCCESS">>,
       <<"PAYMENT_SUCCEEDED">>)
FailedAndRefunded(r) ==
  Rows(r, "FAILED", 1, 0, 1, <<"INITIATED", "PROCESSING", "DEBITED", "FAILED">>,
       <<"PAYMENT_FAILED">>)
FailedUndebited(r) ==
  Rows(r, "FAILED", 0, 0, 0, <<"INITIATED", "PROCESSING", "FAILED">>,
       <<"PAYMENT_FAILED">>)

BeforePayment == {"idle", "newKey", "validate", "create"}
BeforeDebit == {"askSender", "waitSender", "failDebit"} \cup Debiting
InBetween ==
  {"askReceiver", "waitReceiver", "askRefund", "waitRefund"} \cup Crediting \cup Refunding

(* What the rows say where the request is.                                 *)
Saga(r) ==
  /\ pc[r] \in BeforePayment => Untouched(r)
  /\ pc[r] = "process" => Initiated(r)
  /\ pc[r] \in BeforeDebit => Processing(r)
  /\ pc[r] \in InBetween => Debited(r)
  /\ pc[r] = "succeed" => Credited(r)
  /\ pc[r] = "failCredit" => Refunded(r)
  /\ pc[r] = "cache" => \/ Untouched(r) /\ reply[r] = Answer("refused")
                        \/ Succeeded(r) /\ reply[r] = Success(r)
                        \/ FailedAndRefunded(r) /\ reply[r] = Answer("creditFailed")
                        \/ FailedUndebited(r) /\ reply[r] = Answer("debitFailed")
  /\ \/ Untouched(r) \/ Initiated(r) \/ Processing(r) \/ Debited(r) \/ Credited(r)
     \/ Refunded(r) \/ Succeeded(r) \/ FailedAndRefunded(r) \/ FailedUndebited(r)

-----------------------------------------------------------------------------
(* The account a leg is about.                                             *)
LegAccount(r) == IF pc[r] \in Crediting THEN ReceiverAccount(r) ELSE SenderAccount(r)

(* Past validation: the addresses of the request are known.                *)
Validated == Serving \ {"validate", "cache"}

(* From the debit's decision to the refund's the session holds the         *)
(* sender's account as ACTIVE.                                             *)
SenderSeenActive ==
  {"debitSum", "debitCommit", "askReceiver", "waitReceiver", "askRefund",
   "waitRefund", "refund"} \cup Crediting

OnlyPending(r, a, type) ==
  /\ pending[r][a].type = type
  /\ pending[r][a].amount = Amount(r)
  /\ \A b \in Accounts \ {a} : pending[r][b] = NoEntry

(* What the request has taken, seen, read and flushed where it is.         *)
Leg(r) ==
  /\ pc[r] \in Validated => Body(r).sender \in Vpas /\ Body(r).receiver \in Vpas
  /\ pc[r] \in Debiting \cup Crediting \cup Refunding => Holds(r, LegAccount(r))
  /\ IF pc[r] \in {"debitSum", "creditSum", "refundSum"}
     THEN posting[r] # NotPosting /\ posting[r].account = LegAccount(r)
     ELSE posting[r] = NotPosting
  /\ pc[r] = "debitCommit" => OnlyPending(r, SenderAccount(r), "DEBIT")
  /\ pc[r] = "creditCommit" => OnlyPending(r, ReceiverAccount(r), "CREDIT")
  /\ pc[r] = "refundCommit" => OnlyPending(r, SenderAccount(r), "CREDIT")
  /\ pc[r] \notin {"debitCommit", "creditCommit", "refundCommit"}
       => pending[r] = NoEntries
  /\ pc[r] \in SenderSeenActive => identity[r][SenderAccount(r)] = "ACTIVE"

-----------------------------------------------------------------------------
(* The key is this request's own: it serves it, or a payment came of it.   *)
Owns(r) == pc[r] \in Serving \/ paid[r] # "NONE"

Completed(k) == keyRow[k].state = "COMPLETED"

(* What a cached answer says is so of the payments of its key.             *)
SnapshotTrue(k) ==
  LET a == keyRow[k].snapshot IN
  /\ a.code = "success" =>
       /\ a.payment \in Payers
       /\ paid[a.payment] = "SUCCESS"
       /\ Key(a.payment) = k
       /\ Body(a.payment) = keyRow[k].body
  /\ a.code \in AppErrors =>
       \A s \in Payers : Key(s) = k
         => paid[s] \in {"NONE", "FAILED"} /\ legs[s].debit = legs[s].refund

KeyInv ==
  /\ \A r \in Payers : Owns(r) => keyRow[Key(r)] # NoKey
  /\ \A r, s \in Payers : Key(r) = Key(s) /\ Owns(r) /\ Owns(s) => r = s
  /\ \A r \in Payers : pc[r] \in Serving => ~Completed(Key(r)) /\ keyRow[Key(r)].body = Body(r)
  /\ \A k \in Keys : Completed(k) => SnapshotTrue(k)
  /\ \A r \in Payers :
       pc[r] = "replied" /\ reply[r].code \in {"success"} \cup AppErrors
         => Completed(Key(r)) /\ keyRow[Key(r)].body = Body(r)
              /\ keyRow[Key(r)].snapshot = reply[r]

PaymentsInv ==
  /\ LedgerInv
  /\ PaymentsTypeOK
  /\ \A r \in Payers : Saga(r) /\ Leg(r)
  /\ KeyInv

-----------------------------------------------------------------------------
(* The accounts and the amount of a validated request.                     *)
LEMMA RequestType ==
  ASSUME PaymentsTypeOK, NEW r \in Payers
  PROVE  /\ r \in Procs /\ r \notin Seeders /\ r \in Procs \ Seeders
         /\ Key(r) \in Keys
         /\ Body(r) \in Bodies
         /\ Amount(r) \in Nat \ {0}
         /\ Body(r).sender \in Vpas => SenderAccount(r) \in Accounts
         /\ Body(r).receiver \in Vpas => ReceiverAccount(r) \in Accounts
<1>1. call[r] \in Calls BY DEF PaymentsTypeOK
<1> QED BY <1>1, PaymentsAssumption, LedgerAssumption
        DEF Key, Body, Amount, SenderAccount, ReceiverAccount, Bodies

LEMMA LegType ==
  ASSUME PaymentsInv, NEW r \in Payers, pc[r] \in Validated
  PROVE  /\ SenderAccount(r) \in Accounts
         /\ ReceiverAccount(r) \in Accounts
         /\ LegAccount(r) \in Accounts
BY RequestType DEF PaymentsInv, Leg, LegAccount

(* A request leaves every other one as it stands.                          *)
OthersAlone(r) ==
  /\ call' = call
  /\ \A u \in Payers \ {r} :
       /\ pc'[u] = pc[u] /\ reply'[u] = reply[u]
       /\ paid'[u] = paid[u] /\ legs'[u] = legs[u]
       /\ events'[u] = events[u] /\ audit'[u] = audit[u]
       /\ posting'[u] = posting[u] /\ pending'[u] = pending[u]
       /\ identity'[u] = identity[u]
       /\ \A b \in Accounts : Holds(u, b) => Holds(u, b)'

LEMMA RowsStand ==
  ASSUME NEW r, paid'[r] = paid[r], legs'[r] = legs[r],
         events'[r] = events[r], audit'[r] = audit[r]
  PROVE  /\ Untouched(r)' <=> Untouched(r)
         /\ Initiated(r)' <=> Initiated(r)
         /\ Processing(r)' <=> Processing(r)
         /\ Debited(r)' <=> Debited(r)
         /\ Credited(r)' <=> Credited(r)
         /\ Refunded(r)' <=> Refunded(r)
         /\ Succeeded(r)' <=> Succeeded(r)
         /\ FailedAndRefunded(r)' <=> FailedAndRefunded(r)
         /\ FailedUndebited(r)' <=> FailedUndebited(r)
BY DEF Rows, Untouched, Initiated, Processing, Debited, Credited, Refunded,
       Succeeded, FailedAndRefunded, FailedUndebited

LEMMA OthersStand ==
  ASSUME PaymentsInv, NEW r \in Payers, OthersAlone(r)
  PROVE  \A u \in Payers \ {r} : Saga(u)' /\ Leg(u)'
<1> SUFFICES ASSUME NEW u \in Payers \ {r} PROVE Saga(u)' /\ Leg(u)'
  OBVIOUS
<1>1. Saga(u) /\ Leg(u) BY DEF PaymentsInv
<1>2. /\ call' = call
      /\ pc'[u] = pc[u] /\ reply'[u] = reply[u]
      /\ paid'[u] = paid[u] /\ legs'[u] = legs[u]
      /\ events'[u] = events[u] /\ audit'[u] = audit[u]
      /\ posting'[u] = posting[u] /\ pending'[u] = pending[u]
      /\ identity'[u] = identity[u]
      /\ \A b \in Accounts : Holds(u, b) => Holds(u, b)'
  BY DEF OthersAlone
<1>3. Saga(u)' BY <1>1, <1>2, RowsStand DEF Saga, Success
<1>4. /\ SenderAccount(u)' = SenderAccount(u)
      /\ ReceiverAccount(u)' = ReceiverAccount(u)
      /\ Body(u)' = Body(u) /\ Amount(u)' = Amount(u)
      /\ LegAccount(u)' = LegAccount(u)
  BY <1>2 DEF SenderAccount, ReceiverAccount, Body, Amount, LegAccount
<1>5. pc[u] \in Debiting \cup Crediting \cup Refunding => Holds(u, LegAccount(u))'
  <2> SUFFICES ASSUME pc[u] \in Debiting \cup Crediting \cup Refunding
               PROVE  Holds(u, LegAccount(u))'
    OBVIOUS
  <2>1. pc[u] \in Validated
    BY DEF Debiting, Crediting, Refunding, Validated, Serving, Places, Closed
  <2>2. LegAccount(u) \in Accounts BY <2>1, LegType
  <2>3. Holds(u, LegAccount(u)) BY <1>1 DEF Leg
  <2> QED BY <2>2, <2>3, <1>2, <1>4 DEF Holds
<1>6. \A a \in {SenderAccount(u), ReceiverAccount(u)}, type \in {"DEBIT", "CREDIT"} :
        OnlyPending(u, a, type) => OnlyPending(u, a, type)'
  BY <1>2, <1>4 DEF OnlyPending
<1>7. Leg(u)'
  BY <1>1, <1>2, <1>4, <1>5, <1>6 DEF Leg, OnlyPending
<1> QED BY <1>3, <1>7

(* The keys' rows stand, and what they and the answers say stays true: a   *)
(* payment of a key that is answered changes no more.                      *)
LEMMA KeysStand ==
  ASSUME PaymentsInv, NEW r \in Payers, OthersAlone(r), UNCHANGED keyRow,
         pc'[r] \in Serving => pc[r] \in Serving,
         pc[r] \in Serving \/ (paid'[r] = paid[r] /\ legs'[r] = legs[r]),
         pc'[r] = "replied" /\ reply'[r].code \in {"success"} \cup AppErrors
           => Completed(Key(r)) /\ keyRow[Key(r)].body = Body(r)
                /\ keyRow[Key(r)].snapshot = reply'[r]
  PROVE  KeyInv'
<1> USE DEF PaymentsInv, KeyInv
<1>1. \A u \in Payers : Key(u)' = Key(u) /\ Body(u)' = Body(u)
  BY DEF OthersAlone, Key, Body
<1>2. \A k : Completed(k)' <=> Completed(k) BY DEF Completed
<1>3. \A u \in Payers : Owns(u)' => Owns(u)
  BY DEF Owns, OthersAlone
<1>4. \A u \in Payers : pc'[u] \in Serving => pc[u] \in Serving
  BY DEF OthersAlone
<1>5. \A u \in Payers : Completed(Key(u)) => paid'[u] = paid[u] /\ legs'[u] = legs[u]
  BY DEF OthersAlone
<1>6. ASSUME NEW k \in Keys, Completed(k) PROVE SnapshotTrue(k)'
  BY <1>1, <1>2, <1>5, <1>6 DEF SnapshotTrue
<1>7. \A u \in Payers \ {r} : pc'[u] = pc[u] /\ reply'[u] = reply[u]
  BY DEF OthersAlone
<1>8. ASSUME NEW u \in Payers,
             pc'[u] = "replied", reply'[u].code \in {"success"} \cup AppErrors
      PROVE  Completed(Key(u)) /\ keyRow[Key(u)].body = Body(u)
               /\ keyRow[Key(u)].snapshot = reply'[u]
  <2>1. CASE u = r BY <2>1, <1>8
  <2>2. CASE u # r BY <2>2, <1>7, <1>8
  <2> QED BY <2>1, <2>2
<1>9. \A u \in Payers : Owns(u)' => keyRow'[Key(u)'] # NoKey BY <1>1, <1>3
<1>10. \A u, v \in Payers : Key(u)' = Key(v)' /\ Owns(u)' /\ Owns(v)' => u = v
  BY <1>1, <1>3
<1>11. \A u \in Payers : pc'[u] \in Serving
         => ~Completed(Key(u)') /\ keyRow'[Key(u)'].body = Body(u)'
  BY <1>1, <1>4
<1> HIDE DEF PaymentsInv
<1> QED BY <1>1, <1>2, <1>6, <1>8, <1>9, <1>10, <1>11 DEF Completed

LEMMA Together ==
  ASSUME PaymentsInv, NEW r \in Payers, OthersAlone(r),
         LedgerInv', PaymentsTypeOK', Saga(r)', Leg(r)', KeyInv'
  PROVE  PaymentsInv'
BY OthersStand DEF PaymentsInv

(* A step that only moves its request inside what serves a payment, with   *)
(* whatever it does to its locks and its session.                          *)
LEMMA QuietStep ==
  ASSUME PaymentsInv, NEW r \in Payers, NEW to \in Serving, pc[r] \in Serving,
         pc' = [pc EXCEPT ![r] = to],
         UNCHANGED <<call, reply, tables>>,
         LedgerInv',
         \A u \in Procs \ {r} : /\ posting'[u] = posting[u] /\ pending'[u] = pending[u]
                                /\ identity'[u] = identity[u],
         \A u \in Procs \ {r}, b \in Accounts : Holds(u, b) => Holds(u, b)',
         Saga(r)', Leg(r)'
  PROVE  PaymentsInv'
<1>1. /\ pc \in [Payers -> Places] /\ pc' \in [Payers -> Places] /\ pc'[r] = to
      /\ \A u \in Payers \ {r} : pc'[u] = pc[u]
      /\ to # "replied"
  BY DEF PaymentsInv, PaymentsTypeOK, Serving, Closed
<1>2. OthersAlone(r)
  <2>1. \A u \in Payers \ {r} : u \in Procs \ {r} BY RequestType DEF PaymentsInv
  <2> QED BY <1>1, <2>1 DEF OthersAlone, tables
<1>3. KeyInv' BY <1>1, <1>2, KeysStand DEF tables
<1>4. PaymentsTypeOK' BY <1>1 DEF PaymentsInv, PaymentsTypeOK, LedgerInv, tables
<1> QED BY <1>2, <1>3, <1>4, Together

-----------------------------------------------------------------------------
(* The legs.                                                               *)
LEMMA AskStep ==
  ASSUME PaymentsInv, NEW r \in Payers, AskSender(r) \/ AskReceiver(r) \/ AskRefund(r)
  PROVE  PaymentsInv'
<1>1. PICK from \in Queueing, to \in Waiting, a \in {SenderAccount(r), ReceiverAccount(r)} :
        /\ \/ from = "askSender" /\ to = "waitSender" /\ a = SenderAccount(r)
           \/ from = "askReceiver" /\ to = "waitReceiver" /\ a = ReceiverAccount(r)
           \/ from = "askRefund" /\ to = "waitRefund" /\ a = SenderAccount(r)
        /\ Ask(r, a, from, to)
  BY DEF AskSender, AskReceiver, AskRefund, Queueing, Waiting
<1>2. /\ pc[r] = from /\ pc' = [pc EXCEPT ![r] = to] /\ Join(r, a)
      /\ UNCHANGED <<call, dbVars, sessionVars, tables, reply>>
  BY <1>1 DEF Ask, Move
<1>3. pc[r] \in Validated /\ pc[r] \in Serving /\ to \in Serving /\ to \in Validated
  BY <1>1, <1>2 DEF Validated, Serving, Places, Closed, Queueing, Waiting
<1>4. a \in Accounts /\ r \in Procs \ Seeders
  BY <1>1, <1>3, LegType, RequestType DEF PaymentsInv
<1>5. LedgerInv' BY <1>2, <1>4, JoinStep DEF PaymentsInv
<1>6. \A u \in Procs, b \in Accounts : Holds(u, b) => Holds(u, b)'
  BY <1>2, <1>4, JoinKeepsHolders DEF PaymentsInv, LedgerInv
<1>7. pc'[r] = to BY <1>2 DEF PaymentsInv, PaymentsTypeOK
<1>8. Saga(r)'
  <2>1. Saga(r) BY DEF PaymentsInv
  <2> QED BY <1>1, <1>2, <1>7, <2>1, RowsStand
          DEF Saga, tables, BeforePayment, BeforeDebit, InBetween, Debiting, Crediting,
              Refunding
<1>9. Leg(r)'
  <2>1. Leg(r) BY DEF PaymentsInv
  <2>2. SenderAccount(r)' = SenderAccount(r) /\ Body(r)' = Body(r)
    BY <1>2 DEF SenderAccount, Body
  <2> QED BY <1>1, <1>2, <1>3, <1>7, <2>1, <2>2
          DEF Leg, sessionVars, Debiting, Crediting, Refunding, SenderSeenActive
<1> QED BY <1>2, <1>3, <1>5, <1>6, <1>8, <1>9, QuietStep DEF sessionVars

LEMMA EnterStep ==
  ASSUME PaymentsInv, NEW r \in Payers, EnterDebit(r) \/ EnterCredit(r) \/ EnterRefund(r)
  PROVE  PaymentsInv'
<1>1. PICK from \in Waiting, to \in {"debit", "credit", "refund"},
           a \in {SenderAccount(r), ReceiverAccount(r)} :
        /\ \/ from = "waitSender" /\ to = "debit" /\ a = SenderAccount(r)
           \/ from = "waitReceiver" /\ to = "credit" /\ a = ReceiverAccount(r)
           \/ from = "waitRefund" /\ to = "refund" /\ a = SenderAccount(r)
        /\ Enter(r, a, from, to)
  BY DEF EnterDebit, EnterCredit, EnterRefund, Waiting
<1>2. /\ pc[r] = from /\ pc' = [pc EXCEPT ![r] = to] /\ Holds(r, a)
      /\ UNCHANGED <<call, ledgerVars, tables, reply>>
  BY <1>1 DEF Enter, Move
<1>3. pc[r] \in Validated /\ pc[r] \in Serving /\ to \in Serving /\ to \in Validated
  BY <1>1, <1>2
  DEF Validated, Serving, Places, Closed, Waiting, Debiting, Crediting, Refunding
<1>5. LedgerInv' BY <1>2, UnchangedStep DEF PaymentsInv
<1>6. \A u \in Procs, b \in Accounts : Holds(u, b) => Holds(u, b)'
  BY <1>2 DEF Holds, ledgerVars
<1>7. pc'[r] = to BY <1>2 DEF PaymentsInv, PaymentsTypeOK
<1>8. Saga(r)'
  <2>1. Saga(r) BY DEF PaymentsInv
  <2> QED BY <1>1, <1>2, <1>7, <2>1, RowsStand
          DEF Saga, tables, BeforePayment, BeforeDebit, InBetween, Debiting, Crediting,
              Refunding
<1>9. Leg(r)'
  <2>1. Leg(r) BY DEF PaymentsInv
  <2>2. /\ SenderAccount(r)' = SenderAccount(r) /\ Body(r)' = Body(r)
        /\ LegAccount(r)' = a
    BY <1>1, <1>2, <1>7 DEF SenderAccount, ReceiverAccount, Body, LegAccount, Crediting
  <2>3. Holds(r, LegAccount(r))' BY <1>2, <2>2 DEF Holds, ledgerVars
  <2> QED BY <1>1, <1>2, <1>3, <1>7, <2>1, <2>2, <2>3
          DEF Leg, ledgerVars, sessionVars, Debiting, Crediting, Refunding,
              SenderSeenActive
<1> QED BY <1>2, <1>3, <1>5, <1>6, <1>8, <1>9, QuietStep DEF ledgerVars, sessionVars

LEMMA ReadStep ==
  ASSUME PaymentsInv, NEW r \in Payers, DebitRead(r) \/ CreditRead(r) \/ RefundRead(r)
  PROVE  PaymentsInv'
<1>1. PICK from \in {"debit", "credit", "refund"},
           to \in {"debitSum", "creditSum", "refundSum"},
           a \in {SenderAccount(r), ReceiverAccount(r)} :
        /\ \/ from = "debit" /\ to = "debitSum" /\ a = SenderAccount(r)
           \/ from = "credit" /\ to = "creditSum" /\ a = ReceiverAccount(r)
           \/ from = "refund" /\ to = "refundSum" /\ a = SenderAccount(r)
        /\ ReadLeg(r, a, from, to)
  BY DEF DebitRead, CreditRead, RefundRead
<1>2. /\ pc[r] = from /\ pc' = [pc EXCEPT ![r] = to] /\ PostEntryRead(r, a)
      /\ UNCHANGED <<call, dbVars, queue, tables, reply>>
  BY <1>1 DEF ReadLeg, Move
<1>3. pc[r] \in Validated /\ pc[r] \in Serving /\ to \in Serving /\ to \in Validated
  BY <1>1, <1>2
  DEF Validated, Serving, Places, Closed, Debiting, Crediting, Refunding
<1>4. /\ r \in Procs /\ r \notin Seeders
      /\ SenderAccount(r) \in Accounts /\ a \in Accounts
  BY <1>1, <1>3, LegType, RequestType DEF PaymentsInv
<1>5. Leg(r) /\ Saga(r) BY DEF PaymentsInv
<1>6. a = LegAccount(r) BY <1>1, <1>2 DEF LegAccount, Crediting
<1>7. Holds(r, a)
  BY <1>1, <1>2, <1>5, <1>6 DEF Leg, Debiting, Crediting, Refunding
<1>8. /\ Seen(r, a) = "ACTIVE" /\ ReadCredits(r, a) /\ UNCHANGED pending
      /\ identity' = [identity EXCEPT ![r] =
           [b \in Accounts |-> IF b = a THEN Seen(r, b) ELSE identity[r][b]]]
  BY <1>2 DEF PostEntryRead, Load
<1>9. identity' \in [Procs -> [Accounts -> Statuses \cup {"UNLOADED"}]]
  BY <1>4, <1>8 DEF Seen, PaymentsInv, LedgerInv, LedgerTypeOK
<1>10. LedgerInv' /\ posting'[r].account = a /\ posting'[r] # NotPosting
  BY <1>2, <1>4, <1>7, <1>8, <1>9, ReadCreditsStep DEF PaymentsInv
<1>11. \A u \in Procs \ {r} : posting'[u] = posting[u] /\ identity'[u] = identity[u]
  BY <1>8 DEF ReadCredits, PaymentsInv, LedgerInv, LedgerTypeOK
<1>12. pc'[r] = to BY <1>2 DEF PaymentsInv, PaymentsTypeOK
<1>13. Saga(r)'
  BY <1>1, <1>2, <1>5, <1>12, RowsStand
  DEF Saga, tables, BeforePayment, BeforeDebit, InBetween, Debiting, Crediting,
      Refunding
<1>14. to # "refundSum" => identity'[r][SenderAccount(r)] = "ACTIVE"
  <2>1. identity \in [Procs -> [Accounts -> Statuses \cup {"UNLOADED"}]]
    BY DEF PaymentsInv, LedgerInv, LedgerTypeOK
  <2>2. /\ identity'[r][a] = "ACTIVE"
        /\ \A b \in Accounts \ {a} : identity'[r][b] = identity[r][b]
    BY <1>4, <1>8, <2>1
  <2>3. from = "credit" => identity[r][SenderAccount(r)] = "ACTIVE"
    BY <1>2, <1>5 DEF Leg, SenderSeenActive, Crediting
  <2> QED BY <1>1, <1>4, <2>2, <2>3
<1>15. Leg(r)'
  <2>1. /\ SenderAccount(r)' = SenderAccount(r) /\ Body(r)' = Body(r)
        /\ LegAccount(r)' = a
    BY <1>1, <1>2, <1>12 DEF SenderAccount, ReceiverAccount, Body, LegAccount, Crediting
  <2>2. Holds(r, LegAccount(r))' BY <1>2, <1>7, <2>1 DEF Holds
  <2> QED BY <1>1, <1>2, <1>3, <1>5, <1>8, <1>10, <1>12, <1>14, <2>1, <2>2
          DEF Leg, Debiting, Crediting, Refunding, SenderSeenActive
<1>16. \A u \in Procs, b \in Accounts : Holds(u, b) => Holds(u, b)'
  BY <1>2 DEF Holds
<1> QED BY <1>2, <1>3, <1>8, <1>10, <1>11, <1>13, <1>15, <1>16, QuietStep

LEMMA InsertStep ==
  ASSUME PaymentsInv, NEW r \in Payers, DebitInsert(r) \/ CreditInsert(r) \/ RefundInsert(r)
  PROVE  PaymentsInv'
<1>1. PICK from \in {"debitSum", "creditSum", "refundSum"},
           to \in {"debitCommit", "creditCommit", "refundCommit"},
           type \in {"DEBIT", "CREDIT"}, a \in {SenderAccount(r), ReceiverAccount(r)} :
        /\ \/ /\ from = "debitSum" /\ to = "debitCommit"
              /\ type = "DEBIT" /\ a = SenderAccount(r)
           \/ /\ from = "creditSum" /\ to = "creditCommit"
              /\ type = "CREDIT" /\ a = ReceiverAccount(r)
           \/ /\ from = "refundSum" /\ to = "refundCommit"
              /\ type = "CREDIT" /\ a = SenderAccount(r)
        /\ InsertLeg(r, type, from, to)
  BY DEF DebitInsert, CreditInsert, RefundInsert
<1>2. /\ pc[r] = from /\ pc' = [pc EXCEPT ![r] = to]
      /\ InsertEntry(r, type, Amount(r))
      /\ UNCHANGED <<call, dbVars, queue, tables, reply>>
  BY <1>1 DEF InsertLeg, Move
<1>3. pc[r] \in Validated /\ pc[r] \in Serving /\ to \in Serving /\ to \in Validated
  BY <1>1, <1>2
  DEF Validated, Serving, Places, Closed, Debiting, Crediting, Refunding
<1>4. /\ r \in Procs /\ r \notin Seeders /\ Amount(r) \in Nat \ {0}
      /\ SenderAccount(r) \in Accounts /\ a \in Accounts
  BY <1>1, <1>3, LegType, RequestType DEF PaymentsInv
<1>5. Leg(r) /\ Saga(r) BY DEF PaymentsInv
<1>6. a = LegAccount(r) BY <1>1, <1>2 DEF LegAccount, Crediting
<1>7. Holds(r, a) /\ posting[r] # NotPosting /\ posting[r].account = a
  BY <1>1, <1>2, <1>5, <1>6 DEF Leg, Debiting, Crediting, Refunding
<1> DEFINE e == NewEntry(r, type, Amount(r))
<1>8. /\ LedgerInv' /\ posting'[r] = NotPosting
      /\ pending' = [pending EXCEPT ![r][a] = e]
      /\ e.type = type /\ e.amount = Amount(r)
  BY <1>2, <1>4, <1>7, InsertEntryStep DEF PaymentsInv, NewEntry
<1>9. \A u \in Procs \ {r} : posting'[u] = posting[u] /\ pending'[u] = pending[u]
  BY <1>2, <1>8 DEF InsertEntry, PaymentsInv, LedgerInv, LedgerTypeOK
<1>10. identity' = identity BY <1>2 DEF InsertEntry
<1>11. /\ pending'[r][a] = e
       /\ \A b \in Accounts \ {a} : pending'[r][b] = NoEntry
  <2>1. pending[r] = NoEntries BY <1>1, <1>2, <1>5 DEF Leg
  <2> QED BY <1>4, <1>8, <2>1 DEF PaymentsInv, LedgerInv, LedgerTypeOK, NoEntries
<1> HIDE DEF e
<1>12. pc'[r] = to BY <1>2 DEF PaymentsInv, PaymentsTypeOK
<1>13. Saga(r)'
  BY <1>1, <1>2, <1>5, <1>12, RowsStand
  DEF Saga, tables, BeforePayment, BeforeDebit, InBetween, Debiting, Crediting,
      Refunding
<1>14. Leg(r)'
  <2>1. /\ SenderAccount(r)' = SenderAccount(r) /\ Body(r)' = Body(r)
        /\ ReceiverAccount(r)' = ReceiverAccount(r) /\ Amount(r)' = Amount(r)
        /\ LegAccount(r)' = a
    BY <1>1, <1>2, <1>12
    DEF SenderAccount, ReceiverAccount, Body, LegAccount, Crediting, Amount
  <2>2. Holds(r, LegAccount(r))' BY <1>2, <1>7, <2>1 DEF Holds
  <2>3. OnlyPending(r, a, type)' BY <1>8, <1>11, <2>1 DEF OnlyPending
  <2> QED BY <1>1, <1>2, <1>3, <1>5, <1>8, <1>10, <1>12, <2>1, <2>2, <2>3
          DEF Leg, Debiting, Crediting, Refunding, SenderSeenActive, OnlyPending
<1>15. \A u \in Procs, b \in Accounts : Holds(u, b) => Holds(u, b)'
  BY <1>2 DEF Holds
<1> QED BY <1>2, <1>3, <1>8, <1>9, <1>10, <1>13, <1>14, <1>15, QuietStep

(* post_entry raised: nothing is pending, and the lock is left.            *)
LEMMA LeaveLegStep ==
  ASSUME PaymentsInv, NEW r \in Payers,
         DebitInactive(r) \/ DebitInsufficient(r) \/ CreditInactive(r)
  PROVE  PaymentsInv'
<1>1. PICK from \in {"debit", "debitSum", "credit"}, to \in {"failDebit", "askRefund"} :
        /\ from = "credit" <=> to = "askRefund"
        /\ LeaveLeg(r, from, to)
  BY DEF DebitInactive, DebitInsufficient, CreditInactive
<1>2. /\ pc[r] = from /\ pc' = [pc EXCEPT ![r] = to] /\ Release(r)
      /\ posting' = [posting EXCEPT ![r] = NotPosting]
      /\ UNCHANGED <<call, dbVars, identity, pending, tables, reply>>
  BY <1>1 DEF LeaveLeg, Move
<1>3. pc[r] \in Validated /\ pc[r] \in Serving /\ to \in Serving /\ to \in Validated
  BY <1>1, <1>2
  DEF Validated, Serving, Places, Closed, Debiting, Crediting, Queueing, Saving
<1>4. r \in Procs \ Seeders BY RequestType DEF PaymentsInv
<1>5. Leg(r) /\ Saga(r) BY DEF PaymentsInv
<1>6. pending[r] = NoEntries BY <1>1, <1>2, <1>5 DEF Leg
<1>7. LedgerInv' BY <1>2, <1>4, <1>6, LeaveStep DEF PaymentsInv
<1>8. /\ posting'[r] = NotPosting
      /\ \A u \in Procs \ {r} : posting'[u] = posting[u]
  BY <1>2, <1>4 DEF PaymentsInv, LedgerInv, LedgerTypeOK
<1>9. \A u \in Procs \ {r}, b \in Accounts : Holds(u, b) => Holds(u, b)'
  BY <1>2, <1>4, ReleaseKeepsHolders DEF PaymentsInv, LedgerInv
<1>10. pc'[r] = to BY <1>2 DEF PaymentsInv, PaymentsTypeOK
<1>11. Saga(r)'
  BY <1>1, <1>2, <1>5, <1>10, RowsStand
  DEF Saga, tables, BeforePayment, BeforeDebit, InBetween, Debiting, Crediting,
      Refunding
<1>12. Leg(r)'
  <2>1. SenderAccount(r)' = SenderAccount(r) /\ Body(r)' = Body(r)
    BY <1>2 DEF SenderAccount, Body
  <2> QED BY <1>1, <1>2, <1>3, <1>5, <1>6, <1>8, <1>10, <2>1
          DEF Leg, Debiting, Crediting, Refunding, SenderSeenActive
<1> QED BY <1>2, <1>3, <1>7, <1>8, <1>9, <1>11, <1>12, QuietStep

-----------------------------------------------------------------------------
(* A step that writes a page of the payment: its rows and its answer.      *)
LEMMA PageStep ==
  ASSUME PaymentsInv, NEW r \in Payers, NEW to \in Serving, pc[r] \in Serving,
         pc' = [pc EXCEPT ![r] = to],
         UNCHANGED <<call, keyRow>>,
         NEW st \in PaymentStatuses, paid' = [paid EXCEPT ![r] = st],
         NEW l \in [debit : Nat, credit : Nat, refund : Nat],
         legs' = [legs EXCEPT ![r] = l],
         NEW ev \in EventTypes, events' \in {events, [events EXCEPT ![r] = Append(@, ev)]},
         NEW log \in {"PAYMENT_SUCCEEDED", "PAYMENT_FAILED"},
         audit' \in {audit, [audit EXCEPT ![r] = Append(@, log)]},
         NEW ans \in Answers, reply' = [reply EXCEPT ![r] = ans],
         LedgerInv',
         \A u \in Procs \ {r} : /\ posting'[u] = posting[u] /\ pending'[u] = pending[u]
                                /\ identity'[u] = identity[u],
         \A u \in Procs \ {r}, b \in Accounts : Holds(u, b) => Holds(u, b)',
         Saga(r)', Leg(r)'
  PROVE  PaymentsInv'
<1> USE DEF PaymentsInv, PaymentsTypeOK
<1>1. /\ pc' \in [Payers -> Places] /\ pc'[r] = to /\ to # "replied"
      /\ \A u \in Payers \ {r} : pc'[u] = pc[u]
  BY DEF Serving, Closed
<1>2. /\ paid' \in [Payers -> PaymentStatuses]
      /\ legs' \in [Payers -> [debit : Nat, credit : Nat, refund : Nat]]
      /\ reply' \in [Payers -> Answers]
      /\ \A u \in Payers \ {r} : /\ paid'[u] = paid[u] /\ legs'[u] = legs[u]
                                 /\ reply'[u] = reply[u]
  OBVIOUS
<1>3. /\ events' \in [Payers -> Seq(EventTypes)]
      /\ \A u \in Payers \ {r} : events'[u] = events[u]
  <2>1. Append(events[r], ev) \in Seq(EventTypes) OBVIOUS
  <2>2. CASE events' = events BY <2>2
  <2>3. CASE events' = [events EXCEPT ![r] = Append(@, ev)] BY <2>1, <2>3
  <2> QED BY <2>2, <2>3
<1>4. /\ audit' \in [Payers -> Seq({"PAYMENT_SUCCEEDED", "PAYMENT_FAILED"})]
      /\ \A u \in Payers \ {r} : audit'[u] = audit[u]
  <2>1. Append(audit[r], log) \in Seq({"PAYMENT_SUCCEEDED", "PAYMENT_FAILED"}) OBVIOUS
  <2>2. CASE audit' = audit BY <2>2
  <2>3. CASE audit' = [audit EXCEPT ![r] = Append(@, log)] BY <2>1, <2>3
  <2> QED BY <2>2, <2>3
<1>5. PaymentsTypeOK' BY <1>1, <1>2, <1>3, <1>4 DEF LedgerInv
<1> HIDE DEF PaymentsInv, PaymentsTypeOK
<1>6. OthersAlone(r)
  <2>1. \A u \in Payers \ {r} : u \in Procs \ {r} BY RequestType DEF PaymentsInv
  <2> QED BY <1>1, <1>2, <1>3, <1>4, <2>1 DEF OthersAlone
<1>7. KeyInv' BY <1>1, <1>6, KeysStand
<1> QED BY <1>5, <1>6, <1>7, Together

(* How the pages follow each other.                                        *)
LEMMA FirstPage ==
  ASSUME NEW a
  PROVE  Append(<<>>, a) = <<a>>
<1> DEFINE S == {a}
           s == <<>>
           t == <<a>>
<1>1. s \in Seq(S) /\ Len(s) = 0 /\ t \in Seq(S) /\ Len(t) = 1 /\ a \in S
  OBVIOUS
<1> HIDE DEF S
<1>2. /\ Append(s, a) \in Seq(S) /\ Len(Append(s, a)) = 1
      /\ \A i \in 1 .. 1 : Append(s, a)[i] = t[i]
  BY <1>1, AppendProperties
<1> HIDE DEF s, t
<1>3. Append(s, a) = t BY <1>1, <1>2, SeqEqual
<1> QED BY <1>3 DEF s, t

LEMMA SecondPage ==
  ASSUME NEW a, NEW b
  PROVE  Append(<<a>>, b) = <<a, b>>
<1> DEFINE S == {a, b}
           s == <<a>>
           t == <<a, b>>
<1>1. s \in Seq(S) /\ Len(s) = 1 /\ t \in Seq(S) /\ Len(t) = 2 /\ b \in S
  OBVIOUS
<1> HIDE DEF S
<1>2. /\ Append(s, b) \in Seq(S) /\ Len(Append(s, b)) = 2
      /\ \A i \in 1 .. 2 : Append(s, b)[i] = t[i]
  BY <1>1, AppendProperties
<1> HIDE DEF s, t
<1>3. Append(s, b) = t BY <1>1, <1>2, SeqEqual
<1> QED BY <1>3 DEF s, t

LEMMA ThirdPage ==
  ASSUME NEW a, NEW b, NEW c
  PROVE  Append(<<a, b>>, c) = <<a, b, c>>
<1> DEFINE S == {a, b, c}
           s == <<a, b>>
           t == <<a, b, c>>
<1>1. s \in Seq(S) /\ Len(s) = 2 /\ t \in Seq(S) /\ Len(t) = 3 /\ c \in S
  OBVIOUS
<1> HIDE DEF S
<1>2. /\ Append(s, c) \in Seq(S) /\ Len(Append(s, c)) = 3
      /\ \A i \in 1 .. 3 : Append(s, c)[i] = t[i]
  BY <1>1, AppendProperties
<1> HIDE DEF s, t
<1>3. Append(s, c) = t BY <1>1, <1>2, SeqEqual
<1> QED BY <1>3 DEF s, t

LEMMA FourthPage ==
  ASSUME NEW a, NEW b, NEW c, NEW d
  PROVE  Append(<<a, b, c>>, d) = <<a, b, c, d>>
<1> DEFINE S == {a, b, c, d}
           s == <<a, b, c>>
           t == <<a, b, c, d>>
<1>1. s \in Seq(S) /\ Len(s) = 3 /\ t \in Seq(S) /\ Len(t) = 4 /\ d \in S
  OBVIOUS
<1> HIDE DEF S
<1>2. /\ Append(s, d) \in Seq(S) /\ Len(Append(s, d)) = 4
      /\ \A i \in 1 .. 4 : Append(s, d)[i] = t[i]
  BY <1>1, AppendProperties
<1> HIDE DEF s, t
<1>3. Append(s, d) = t BY <1>1, <1>2, SeqEqual
<1> QED BY <1>3 DEF s, t

LEMMA FifthPage ==
  ASSUME NEW a, NEW b, NEW c, NEW d, NEW e
  PROVE  Append(<<a, b, c, d>>, e) = <<a, b, c, d, e>>
<1> DEFINE S == {a, b, c, d, e}
           s == <<a, b, c, d>>
           t == <<a, b, c, d, e>>
<1>1. s \in Seq(S) /\ Len(s) = 4 /\ t \in Seq(S) /\ Len(t) = 5 /\ e \in S
  OBVIOUS
<1> HIDE DEF S
<1>2. /\ Append(s, e) \in Seq(S) /\ Len(Append(s, e)) = 5
      /\ \A i \in 1 .. 5 : Append(s, e)[i] = t[i]
  BY <1>1, AppendProperties
<1> HIDE DEF s, t
<1>3. Append(s, e) = t BY <1>1, <1>2, SeqEqual
<1> QED BY <1>3 DEF s, t

(* An entry is committed, and the event of the leg with it.                *)
LEMMA CommitLegStep ==
  ASSUME PaymentsInv, NEW r \in Payers,
         DebitCommit(r) \/ CreditCommit(r) \/ RefundCommit(r)
  PROVE  PaymentsInv'
<1>1. PICK leg \in {"debit", "credit", "refund"},
           from \in {"debitCommit", "creditCommit", "refundCommit"},
           to \in {"askReceiver", "succeed", "failCredit"} :
        /\ \/ leg = "debit" /\ from = "debitCommit" /\ to = "askReceiver" /\ Record(r, "DEBITED")
           \/ leg = "credit" /\ from = "creditCommit" /\ to = "succeed" /\ Record(r, "CREDITED")
           \/ leg = "refund" /\ from = "refundCommit" /\ to = "failCredit" /\ UNCHANGED events
        /\ CommitLeg(r, leg, from, to)
  BY DEF DebitCommit, CreditCommit, RefundCommit
<1>2. /\ pc[r] = from /\ pc' = [pc EXCEPT ![r] = to]
      /\ CommitEntries(r) /\ Release(r)
      /\ legs' = [legs EXCEPT ![r][leg] = @ + 1]
      /\ UNCHANGED <<call, reply, keyRow, paid, audit>>
  BY <1>1 DEF CommitLeg, Move
<1>3. pc[r] \in Validated /\ pc[r] \in Serving /\ to \in Serving /\ to \in Validated
  BY <1>1, <1>2
  DEF Validated, Serving, Places, Closed, Debiting, Crediting, Refunding, Queueing, Saving
<1>4. r \in Procs /\ r \notin Seeders /\ SenderAccount(r) \in Accounts
  BY <1>3, LegType, RequestType DEF PaymentsInv
<1>5. Leg(r) /\ Saga(r) BY DEF PaymentsInv
<1>6. posting[r] = NotPosting BY <1>1, <1>2, <1>5 DEF Leg
<1>7. LedgerInv' BY <1>2, <1>4, <1>6, CommitStep DEF PaymentsInv
<1>8. /\ pending'[r] = NoEntries
      /\ \A u \in Procs \ {r} : pending'[u] = pending[u]
      /\ UNCHANGED <<posting, identity>>
  BY <1>2, <1>4, <1>6, CommitEntriesStep DEF PaymentsInv, CommitEntries
<1>9. \A u \in Procs \ {r}, b \in Accounts : Holds(u, b) => Holds(u, b)'
  BY <1>2, <1>4, ReleaseKeepsHolders DEF PaymentsInv, LedgerInv
<1>10. pc'[r] = to BY <1>2 DEF PaymentsInv, PaymentsTypeOK
<1>11. /\ legs[r] \in [debit : Nat, credit : Nat, refund : Nat]
       /\ events[r] \in Seq(EventTypes) /\ paid[r] \in PaymentStatuses
       /\ reply[r] \in Answers
       /\ paid' = [paid EXCEPT ![r] = paid[r]] /\ reply' = [reply EXCEPT ![r] = reply[r]]
       /\ paid'[r] = paid[r] /\ audit'[r] = audit[r]
  BY <1>2 DEF PaymentsInv, PaymentsTypeOK
<1> DEFINE l == [legs[r] EXCEPT ![leg] = @ + 1]
<1>12. /\ l \in [debit : Nat, credit : Nat, refund : Nat]
       /\ legs' = [legs EXCEPT ![r] = l] /\ legs'[r] = l
  <2>1. legs' = [legs EXCEPT ![r] = l] BY <1>2
  <2>2. legs'[r] = l BY <2>1 DEF PaymentsInv, PaymentsTypeOK
  <2>3. CASE leg = "debit" BY <1>11, <2>1, <2>2, <2>3
  <2>4. CASE leg = "credit" BY <1>11, <2>1, <2>2, <2>4
  <2>5. CASE leg = "refund" BY <1>11, <2>1, <2>2, <2>5
  <2> QED BY <1>1, <2>3, <2>4, <2>5
<1>13. /\ leg = "debit" => events'[r] = Append(events[r], "DEBITED")
       /\ leg = "credit" => events'[r] = Append(events[r], "CREDITED")
       /\ leg = "refund" => events'[r] = events[r]
  BY <1>1 DEF Record, PaymentsInv, PaymentsTypeOK
<1>14. Saga(r)'
  <2>1. CASE leg = "debit"
    <3>1. Processing(r) BY <1>1, <1>2, <1>5, <2>1 DEF Saga, BeforeDebit, Debiting
    <3>2. Debited(r)'
      BY <1>11, <1>12, <1>13, <2>1, <3>1, ThirdPage DEF Processing, Debited, Rows
    <3> QED BY <1>1, <1>10, <2>1, <3>2
            DEF Saga, BeforePayment, BeforeDebit, InBetween, Debiting, Crediting, Refunding
  <2>2. CASE leg = "credit"
    <3>1. Debited(r) BY <1>1, <1>2, <1>5, <2>2 DEF Saga, InBetween, Crediting
    <3>2. Credited(r)'
      BY <1>11, <1>12, <1>13, <2>2, <3>1, FourthPage DEF Debited, Credited, Rows
    <3> QED BY <1>1, <1>10, <2>2, <3>2
            DEF Saga, BeforePayment, BeforeDebit, InBetween, Debiting, Crediting, Refunding
  <2>3. CASE leg = "refund"
    <3>1. Debited(r) BY <1>1, <1>2, <1>5, <2>3 DEF Saga, InBetween, Refunding
    <3>2. Refunded(r)'
      BY <1>11, <1>12, <1>13, <2>3, <3>1 DEF Debited, Refunded, Rows
    <3> QED BY <1>1, <1>10, <2>3, <3>2
            DEF Saga, BeforePayment, BeforeDebit, InBetween, Debiting, Crediting, Refunding
  <2> QED BY <2>1, <2>2, <2>3
<1>15. Leg(r)'
  <2>1. SenderAccount(r)' = SenderAccount(r) /\ Body(r)' = Body(r)
    BY <1>2 DEF SenderAccount, Body
  <2> QED BY <1>1, <1>2, <1>3, <1>5, <1>6, <1>8, <1>10, <2>1
          DEF Leg, Debiting, Crediting, Refunding, SenderSeenActive
<1>16. PICK ev \in EventTypes : events' \in {events, [events EXCEPT ![r] = Append(@, ev)]}
  BY <1>1 DEF Record, EventTypes
<1>17. /\ paid[r] \in PaymentStatuses
       /\ audit' \in {audit, [audit EXCEPT ![r] = Append(@, "PAYMENT_FAILED")]}
  BY <1>2, <1>11
<1> HIDE DEF l
<1> QED BY <1>2, <1>3, <1>7, <1>8, <1>9, <1>11, <1>12, <1>14, <1>15, <1>16, <1>17,
           PageStep

-----------------------------------------------------------------------------
(* The payment's own pages.                                                *)
LEMMA ValidateStep ==
  ASSUME PaymentsInv, NEW r \in Payers, Validate(r)
  PROVE  PaymentsInv'
<1>1. /\ pc[r] = "validate" /\ pc' = [pc EXCEPT ![r] = "create"] /\ Payable(r)
      /\ Load(r, {SenderAccount(r)})
      /\ UNCHANGED <<call, dbVars, queue, posting, pending, tables, reply>>
  BY DEF Validate, Move
<1>2. pc[r] \in Serving /\ "create" \in Serving
  BY <1>1 DEF Serving, Places, Closed, Saving
<1>3. r \in Procs BY RequestType DEF PaymentsInv
<1>4. /\ identity' \in [Procs -> [Accounts -> Statuses \cup {"UNLOADED"}]]
      /\ \A u \in Procs \ {r} : identity'[u] = identity[u]
  BY <1>1, <1>3 DEF Load, Seen, PaymentsInv, LedgerInv, LedgerTypeOK
<1>5. LedgerInv' BY <1>1, <1>4, IdentityStep DEF PaymentsInv
<1>6. pc'[r] = "create" BY <1>1 DEF PaymentsInv, PaymentsTypeOK
<1>7. Leg(r) /\ Saga(r) BY DEF PaymentsInv
<1>8. Saga(r)'
  BY <1>1, <1>6, <1>7, RowsStand
  DEF Saga, tables, BeforePayment, BeforeDebit, InBetween, Debiting, Crediting, Refunding
<1>9. Leg(r)'
  <2>1. Body(r)' = Body(r) BY <1>1 DEF Body
  <2> QED BY <1>1, <1>6, <1>7, <2>1
          DEF Leg, Payable, Debiting, Crediting, Refunding, SenderSeenActive
<1> QED BY <1>1, <1>2, <1>4, <1>5, <1>8, <1>9, QuietStep DEF Holds

LEMMA FirstPagesStep ==
  ASSUME PaymentsInv, NEW r \in Payers,
         Refuse(r) \/ CreatePayment(r) \/ StartProcessing(r)
  PROVE  PaymentsInv'
<1>1. /\ pc[r] \in {"validate", "create", "process"}
      /\ UNCHANGED <<call, ledgerVars, keyRow, legs, audit>>
  BY DEF Refuse, CreatePayment, StartProcessing, Move, tables
<1>2. PICK to \in {"cache", "process", "askSender"}, st \in PaymentStatuses,
           ev \in EventTypes, ans \in Answers :
        /\ \/ /\ pc[r] = "validate" /\ to = "cache" /\ ans = Answer("refused")
              /\ st = paid[r] /\ events' = events
           \/ /\ pc[r] = "create" /\ to = "process" /\ ans = reply[r]
              /\ st = "INITIATED" /\ ev = st
              /\ events' = [events EXCEPT ![r] = Append(@, ev)]
           \/ /\ pc[r] = "process" /\ to = "askSender" /\ ans = reply[r]
              /\ st = "PROCESSING" /\ ev = st
              /\ events' = [events EXCEPT ![r] = Append(@, ev)]
        /\ pc' = [pc EXCEPT ![r] = to]
        /\ paid' = [paid EXCEPT ![r] = st]
        /\ reply' = [reply EXCEPT ![r] = ans]
  <2>1. /\ paid \in [Payers -> PaymentStatuses] /\ reply \in [Payers -> Answers]
        /\ paid[r] \in PaymentStatuses /\ reply[r] \in Answers
        /\ paid = [paid EXCEPT ![r] = paid[r]] /\ reply = [reply EXCEPT ![r] = reply[r]]
    BY DEF PaymentsInv, PaymentsTypeOK
  <2>2. /\ {"INITIATED", "PROCESSING"} \subseteq PaymentStatuses
        /\ {"INITIATED", "PROCESSING"} \subseteq EventTypes
        /\ Answer("refused") \in Answers
    BY DEF PaymentStatuses, EventTypes, Answers, AppErrors
  <2>3. CASE Refuse(r)
    BY <2>1, <2>2, <2>3 DEF Refuse, Move, Respond, tables
  <2>4. CASE CreatePayment(r)
    BY <2>1, <2>2, <2>4 DEF CreatePayment, Move, SetPaid, Record
  <2>5. CASE StartProcessing(r)
    BY <2>1, <2>2, <2>5 DEF StartProcessing, Move, SetPaid, Record
  <2> QED BY <2>3, <2>4, <2>5
<1>3. pc[r] \in Serving /\ to \in Serving
  BY <1>1, <1>2 DEF Serving, Places, Closed, Saving, Queueing
<1>4. /\ pc'[r] = to /\ paid'[r] = st /\ reply'[r] = ans /\ legs'[r] = legs[r]
      /\ audit'[r] = audit[r]
      /\ to # "cache" => events'[r] = Append(events[r], ev)
      /\ legs[r] \in [debit : Nat, credit : Nat, refund : Nat]
      /\ legs' = [legs EXCEPT ![r] = legs[r]]
  BY <1>1, <1>2 DEF PaymentsInv, PaymentsTypeOK
<1>5. Leg(r) /\ Saga(r) BY DEF PaymentsInv
<1>6. Saga(r)'
  <2>1. CASE pc[r] = "validate"
    <3>1. Untouched(r)' BY <1>2, <1>4, <1>5, <2>1, RowsStand DEF Saga, BeforePayment
    <3> QED BY <1>2, <1>4, <2>1, <3>1
            DEF Saga, Answer, BeforePayment, BeforeDebit, InBetween, Debiting, Crediting,
                Refunding
  <2>2. CASE pc[r] = "create"
    <3>1. Untouched(r) BY <1>5, <2>2 DEF Saga, BeforePayment
    <3>2. Initiated(r)' BY <1>2, <1>4, <2>2, <3>1, FirstPage DEF Untouched, Initiated, Rows
    <3> QED BY <1>2, <1>4, <2>2, <3>2
            DEF Saga, BeforePayment, BeforeDebit, InBetween, Debiting, Crediting, Refunding
  <2>3. CASE pc[r] = "process"
    <3>1. Initiated(r) BY <1>5, <2>3 DEF Saga
    <3>2. Processing(r)' BY <1>2, <1>4, <2>3, <3>1, SecondPage DEF Initiated, Processing, Rows
    <3> QED BY <1>2, <1>4, <2>3, <3>2
            DEF Saga, BeforePayment, BeforeDebit, InBetween, Debiting, Crediting, Refunding
  <2> QED BY <1>1, <2>1, <2>2, <2>3
<1>7. Leg(r)'
  <2>1. Body(r)' = Body(r) BY <1>1 DEF Body
  <2>2. pc[r] # "validate" => pc[r] \in Validated BY <1>1, <1>3 DEF Validated
  <2>3. to = "cache" => to \notin Validated BY DEF Validated
  <2> QED BY <1>1, <1>2, <1>4, <1>5, <2>1, <2>2, <2>3
          DEF Leg, ledgerVars, sessionVars, Debiting, Crediting, Refunding, SenderSeenActive
<1>8. LedgerInv' BY <1>1, UnchangedStep DEF PaymentsInv
<1> QED BY <1>1, <1>2, <1>3, <1>4, <1>6, <1>7, <1>8, PageStep
        DEF ledgerVars, sessionVars, Holds

LEMMA FinishStep ==
  ASSUME PaymentsInv, NEW r \in Payers, FailDebit(r) \/ FailCredit(r) \/ Succeed(r)
  PROVE  PaymentsInv'
<1>1. PICK from \in {"failDebit", "failCredit", "succeed"},
           st \in {"FAILED", "SUCCESS"},
           log \in {"PAYMENT_FAILED", "PAYMENT_SUCCEEDED"},
           ans \in {Answer("debitFailed"), Answer("creditFailed"), Success(r)} :
        /\ \/ /\ from = "failDebit" /\ st = "FAILED" /\ log = "PAYMENT_FAILED"
              /\ ans = Answer("debitFailed")
           \/ /\ from = "failCredit" /\ st = "FAILED" /\ log = "PAYMENT_FAILED"
              /\ ans = Answer("creditFailed")
           \/ /\ from = "succeed" /\ st = "SUCCESS" /\ log = "PAYMENT_SUCCEEDED"
              /\ ans = Success(r)
        /\ Finish(r, from, st, st, log, ans)
  BY DEF FailDebit, FailCredit, Succeed
<1>2. /\ pc[r] = from /\ pc' = [pc EXCEPT ![r] = "cache"]
      /\ paid' = [paid EXCEPT ![r] = st]
      /\ events' = [events EXCEPT ![r] = Append(@, st)]
      /\ audit' = [audit EXCEPT ![r] = Append(@, log)]
      /\ reply' = [reply EXCEPT ![r] = ans]
      /\ UNCHANGED <<call, ledgerVars, keyRow, legs>>
  BY <1>1 DEF Finish, Move, SetPaid, Record, Respond
<1>3. /\ st \in PaymentStatuses /\ st \in EventTypes /\ ans \in Answers
      /\ pc[r] \in Serving /\ "cache" \in Serving
  BY <1>1, <1>2
  DEF PaymentStatuses, EventTypes, Answers, AppErrors, Serving, Places, Closed, Saving
<1>4. /\ pc'[r] = "cache" /\ paid'[r] = st /\ reply'[r] = ans /\ legs'[r] = legs[r]
      /\ audit'[r] = Append(audit[r], log) /\ events'[r] = Append(events[r], st)
      /\ legs[r] \in [debit : Nat, credit : Nat, refund : Nat]
      /\ legs' = [legs EXCEPT ![r] = legs[r]]
  BY <1>2 DEF PaymentsInv, PaymentsTypeOK
<1>5. Leg(r) /\ Saga(r) BY DEF PaymentsInv
<1>0. Append(<<>>, log) = <<log>> BY FirstPage
<1>6. \/ from = "succeed" /\ Succeeded(r)'
      \/ from = "failCredit" /\ FailedAndRefunded(r)'
      \/ from = "failDebit" /\ FailedUndebited(r)'
  <2>1. CASE from = "failDebit"
    <3>1. Processing(r) BY <1>2, <1>5, <2>1 DEF Saga, BeforeDebit
    <3>2. Append(<<"INITIATED", "PROCESSING">>, "FAILED")
            = <<"INITIATED", "PROCESSING", "FAILED">>
      BY ThirdPage
    <3> QED BY <1>0, <1>1, <1>4, <2>1, <3>1, <3>2 DEF Processing, FailedUndebited, Rows
  <2>2. CASE from = "failCredit"
    <3>1. Refunded(r) BY <1>2, <1>5, <2>2 DEF Saga
    <3>2. Append(<<"INITIATED", "PROCESSING", "DEBITED">>, "FAILED")
            = <<"INITIATED", "PROCESSING", "DEBITED", "FAILED">>
      BY FourthPage
    <3> QED BY <1>0, <1>1, <1>4, <2>2, <3>1, <3>2 DEF Refunded, FailedAndRefunded, Rows
  <2>3. CASE from = "succeed"
    <3>1. Credited(r) BY <1>2, <1>5, <2>3 DEF Saga
    <3>2. Append(<<"INITIATED", "PROCESSING", "DEBITED", "CREDITED">>, "SUCCESS")
            = <<"INITIATED", "PROCESSING", "DEBITED", "CREDITED", "SUCCESS">>
      BY FifthPage
    <3> QED BY <1>0, <1>1, <1>4, <2>3, <3>1, <3>2 DEF Credited, Succeeded, Rows
  <2> QED BY <2>1, <2>2, <2>3
<1>7. Saga(r)'
  BY <1>1, <1>4, <1>6
  DEF Saga, Answer, Success, BeforePayment, BeforeDebit, InBetween, Debiting, Crediting,
      Refunding
<1>8. Leg(r)'
  BY <1>2, <1>4, <1>5
  DEF Leg, ledgerVars, sessionVars, Validated, Debiting, Crediting, Refunding,
      SenderSeenActive
<1>9. LedgerInv' BY <1>2, UnchangedStep DEF PaymentsInv
<1> QED BY <1>2, <1>3, <1>4, <1>7, <1>8, <1>9, PageStep DEF ledgerVars, sessionVars, Holds

-----------------------------------------------------------------------------
(* A step that answers its request or takes it one place on, with the      *)
(* tables as they are.                                                     *)
LEMMA AnswerStep ==
  ASSUME PaymentsInv, NEW r \in Payers, NEW to \in {"newKey", "replied"},
         NEW ans \in Answers,
         pc' = [pc EXCEPT ![r] = to], reply' = [reply EXCEPT ![r] = ans],
         UNCHANGED <<call, tables>>,
         to = "newKey" => pc[r] = "idle",
         to = "replied" /\ ans.code \in {"success"} \cup AppErrors
           => Completed(Key(r)) /\ keyRow[Key(r)].body = Body(r)
                /\ keyRow[Key(r)].snapshot = ans,
         LedgerInv', posting'[r] = NotPosting, pending'[r] = NoEntries,
         \A u \in Procs \ {r} : /\ posting'[u] = posting[u] /\ pending'[u] = pending[u]
                                /\ identity'[u] = identity[u],
         \A u \in Procs \ {r}, b \in Accounts : Holds(u, b) => Holds(u, b)'
  PROVE  PaymentsInv'
<1>1. /\ to \in Places /\ to \notin Serving
      /\ pc' \in [Payers -> Places] /\ pc'[r] = to
      /\ reply' \in [Payers -> Answers] /\ reply'[r] = ans
      /\ \A u \in Payers \ {r} : pc'[u] = pc[u] /\ reply'[u] = reply[u]
  BY DEF PaymentsInv, PaymentsTypeOK, Serving, Places, Closed, Saving
<1>2. PaymentsTypeOK' BY <1>1 DEF PaymentsInv, PaymentsTypeOK, LedgerInv, tables
<1>3. OthersAlone(r)
  <2>1. \A u \in Payers \ {r} : u \in Procs \ {r} BY RequestType DEF PaymentsInv
  <2> QED BY <1>1, <2>1 DEF OthersAlone, tables
<1>4. Saga(r)'
  <2>1. Saga(r) BY DEF PaymentsInv
  <2> QED BY <1>1, <2>1, RowsStand
          DEF Saga, tables, BeforePayment, BeforeDebit, InBetween, Debiting, Crediting,
              Refunding
<1>5. Leg(r)'
  BY <1>1 DEF Leg, Validated, Debiting, Crediting, Refunding, SenderSeenActive
<1>6. KeyInv' BY <1>1, <1>3, KeysStand DEF tables
<1> QED BY <1>2, <1>3, <1>4, <1>5, <1>6, Together

LEMMA LookUpStep ==
  ASSUME PaymentsInv, NEW r \in Payers, FindKey(r) \/ FindNoKey(r) \/ DuplicateKey(r)
  PROVE  PaymentsInv'
<1>1. /\ pc[r] \in {"idle", "newKey"} /\ UNCHANGED <<call, ledgerVars, tables>>
  BY DEF FindKey, FindNoKey, DuplicateKey, Move
<1>2. /\ posting[r] = NotPosting /\ pending[r] = NoEntries
      /\ LedgerInv'
  <2>1. Leg(r) BY DEF PaymentsInv
  <2> QED BY <1>1, <2>1, UnchangedStep DEF Leg, PaymentsInv
<1>3. /\ reply[r] \in Answers /\ Key(r) \in Keys
      /\ reply \in [Payers -> Answers]
      /\ keyRow[Key(r)] # NoKey => keyRow[Key(r)].snapshot \in Answers
  BY RequestType DEF PaymentsInv, PaymentsTypeOK
<1>4. Answer("conflict") \in Answers /\ Answer("typeError") \in Answers
      /\ Answer("integrityError") \in Answers
  BY DEF Answers, Unhandled
<1>5. CASE FindKey(r)
  <2> DEFINE ans == KnownKeyAnswer(keyRow[Key(r)], Body(r))
  <2>1. /\ pc' = [pc EXCEPT ![r] = "replied"] /\ reply' = [reply EXCEPT ![r] = ans]
        /\ keyRow[Key(r)] # NoKey
    BY <1>5 DEF FindKey, Move, Respond
  <2>2. ans \in Answers BY <1>3, <1>4, <2>1 DEF KnownKeyAnswer
  <2>3. ans.code \in {"success"} \cup AppErrors
          => Completed(Key(r)) /\ keyRow[Key(r)].body = Body(r)
               /\ keyRow[Key(r)].snapshot = ans
    BY DEF KnownKeyAnswer, Answer, AppErrors, Completed
  <2> HIDE DEF ans
  <2> QED BY <1>1, <1>2, <2>1, <2>2, <2>3, AnswerStep DEF ledgerVars, sessionVars, Holds
<1>6. CASE DuplicateKey(r)
  <2>1. /\ pc' = [pc EXCEPT ![r] = "replied"]
        /\ reply' = [reply EXCEPT ![r] = Answer("integrityError")]
    BY <1>6 DEF DuplicateKey, Move, Respond
  <2>2. Answer("integrityError").code \notin {"success"} \cup AppErrors
    BY DEF Answer, AppErrors
  <2> QED BY <1>1, <1>2, <1>4, <2>1, <2>2, AnswerStep DEF ledgerVars, sessionVars, Holds
<1>7. CASE FindNoKey(r)
  <2>1. /\ pc[r] = "idle" /\ pc' = [pc EXCEPT ![r] = "newKey"]
        /\ reply' = [reply EXCEPT ![r] = reply[r]]
    BY <1>3, <1>7 DEF FindNoKey, Move
  <2> QED BY <1>1, <1>2, <1>3, <2>1, AnswerStep DEF ledgerVars, sessionVars, Holds
<1> QED BY <1>5, <1>6, <1>7

LEMMA ErrorStep ==
  ASSUME PaymentsInv, NEW r \in Payers, DatabaseError(r)
  PROVE  PaymentsInv'
<1>1. /\ pc' = [pc EXCEPT ![r] = "replied"]
      /\ reply' = [reply EXCEPT ![r] = Answer("databaseError")]
      /\ Release(r) /\ CloseSession(r) /\ UNCHANGED <<call, dbVars, tables>>
  BY DEF DatabaseError, Move, Respond
<1>2. r \in Procs \ Seeders BY RequestType DEF PaymentsInv
<1>3. LedgerInv' BY <1>1, <1>2, CloseStep DEF PaymentsInv
<1>4. /\ posting'[r] = NotPosting /\ pending'[r] = NoEntries
      /\ \A u \in Procs \ {r} : /\ posting'[u] = posting[u] /\ pending'[u] = pending[u]
                                /\ identity'[u] = identity[u]
  BY <1>1, <1>2 DEF CloseSession, PaymentsInv, LedgerInv, LedgerTypeOK
<1>5. \A u \in Procs \ {r}, b \in Accounts : Holds(u, b) => Holds(u, b)'
  BY <1>1, <1>2, ReleaseKeepsHolders DEF PaymentsInv, LedgerInv
<1>6. /\ Answer("databaseError") \in Answers
      /\ Answer("databaseError").code \notin {"success"} \cup AppErrors
  BY DEF Answers, Unhandled, Answer, AppErrors
<1> QED BY <1>1, <1>3, <1>4, <1>5, <1>6, AnswerStep

(* The unique index: who creates the row is the key's first and only owner.*)
LEMMA CreateKeyStep ==
  ASSUME PaymentsInv, NEW r \in Payers, CreateKey(r)
  PROVE  PaymentsInv'
<1> DEFINE row == [state |-> "IN_PROGRESS", body |-> Body(r), snapshot |-> NoAnswer]
<1>1. /\ pc[r] = "newKey" /\ pc' = [pc EXCEPT ![r] = "validate"]
      /\ keyRow[Key(r)] = NoKey
      /\ keyRow' = [keyRow EXCEPT ![Key(r)] = row]
      /\ UNCHANGED <<call, ledgerVars, reply, paid, legs, events, audit>>
  BY DEF CreateKey, Move
<1>2. /\ Key(r) \in Keys /\ Body(r) \in Bodies
      /\ keyRow \in [Keys -> {NoKey} \cup [state : {"IN_PROGRESS", "COMPLETED"},
                                           body : Bodies, snapshot : Answers]]
      /\ NoAnswer \in Answers
  BY RequestType DEF PaymentsInv, PaymentsTypeOK, Answers
<1>3. /\ pc' \in [Payers -> Places] /\ pc'[r] = "validate"
      /\ \A u \in Payers \ {r} : pc'[u] = pc[u]
      /\ "validate" \in Serving /\ "newKey" \notin Serving
  BY <1>1 DEF PaymentsInv, PaymentsTypeOK, Places, Serving, Saving, Closed
<1>4. /\ keyRow' \in [Keys -> {NoKey} \cup [state : {"IN_PROGRESS", "COMPLETED"},
                                            body : Bodies, snapshot : Answers]]
      /\ keyRow'[Key(r)] = row
      /\ \A k \in Keys \ {Key(r)} : keyRow'[k] = keyRow[k]
      /\ row # NoKey /\ row.state = "IN_PROGRESS" /\ row.body = Body(r)
      /\ NoKey.state = "absent"
  BY <1>1, <1>2 DEF NoKey
<1> HIDE DEF row
<1>5. LedgerInv' BY <1>1, UnchangedStep DEF PaymentsInv
<1>6. PaymentsTypeOK'
  BY <1>1, <1>3, <1>4, <1>5 DEF PaymentsInv, PaymentsTypeOK, LedgerInv
<1>7. OthersAlone(r) BY <1>1, <1>3 DEF OthersAlone, ledgerVars, sessionVars, Holds
<1>8. Saga(r)' /\ Leg(r)'
  <2>1. Saga(r) /\ Leg(r) BY DEF PaymentsInv
  <2>2. Saga(r)'
    BY <1>1, <1>3, <2>1, RowsStand
    DEF Saga, BeforePayment, BeforeDebit, InBetween, Debiting, Crediting, Refunding
  <2> QED BY <1>1, <1>3, <2>1, <2>2
          DEF Leg, ledgerVars, sessionVars, Validated, Debiting, Crediting, Refunding,
              SenderSeenActive
<1>9. KeyInv'
  <2>1. KeyInv BY DEF PaymentsInv
  <2>2. \A u \in Payers : Key(u)' = Key(u) /\ Body(u)' = Body(u) /\ Key(u) \in Keys
    BY <1>1, RequestType DEF PaymentsInv, Key, Body
  <2>3. \A u \in Payers \ {r} : Owns(u)' => Owns(u) /\ Key(u) # Key(r)
    BY <1>1, <1>3, <2>1 DEF Owns, KeyInv
  <2>4. \A k \in Keys : keyRow'[k].state = "COMPLETED" => Completed(k) /\ k # Key(r)
    BY <1>4 DEF Completed
  <2>5. \A u \in Payers : Completed(Key(u)) => Key(u) # Key(r)
                              /\ keyRow'[Key(u)].state = "COMPLETED"
    BY <1>1, <1>4, <2>2 DEF Completed
  <2>6. ASSUME NEW k \in Keys, keyRow'[k].state = "COMPLETED" PROVE SnapshotTrue(k)'
    <3>1. SnapshotTrue(k) /\ keyRow'[k] = keyRow[k]
      BY <1>4, <2>1, <2>4, <2>6 DEF KeyInv
    <3> QED BY <1>1, <2>2, <3>1 DEF SnapshotTrue
  <2>7. ASSUME NEW u \in Payers, Owns(u)' PROVE keyRow'[Key(u)'] # NoKey
    <3>1. CASE u = r BY <1>4, <2>2, <3>1
    <3>2. CASE u # r BY <1>4, <2>1, <2>2, <2>3, <2>7, <3>2 DEF KeyInv
    <3> QED BY <3>1, <3>2
  <2>8. \A u, v \in Payers : Key(u)' = Key(v)' /\ Owns(u)' /\ Owns(v)' => u = v
    BY <2>1, <2>2, <2>3 DEF KeyInv
  <2>9. ASSUME NEW u \in Payers, pc'[u] \in Serving
        PROVE  /\ keyRow'[Key(u)'].state # "COMPLETED"
               /\ keyRow'[Key(u)'].body = Body(u)'
    <3>1. CASE u = r BY <1>4, <2>2, <3>1 DEF Completed
    <3>2. CASE u # r
      <4>1. Owns(u)' /\ pc[u] \in Serving BY <1>3, <2>9, <3>2 DEF Owns
      <4> QED BY <1>4, <2>1, <2>2, <2>3, <2>4, <3>2, <4>1 DEF KeyInv
    <3> QED BY <3>1, <3>2
  <2>10. ASSUME NEW u \in Payers,
                pc'[u] = "replied", reply'[u].code \in {"success"} \cup AppErrors
         PROVE  /\ keyRow'[Key(u)'].state = "COMPLETED"
                /\ keyRow'[Key(u)'].body = Body(u)'
                /\ keyRow'[Key(u)'].snapshot = reply'[u]
    <3>1. u # r /\ pc[u] = "replied" /\ reply'[u] = reply[u] BY <1>1, <1>3, <2>10
    <3>2. /\ Completed(Key(u)) /\ keyRow[Key(u)].body = Body(u)
          /\ keyRow[Key(u)].snapshot = reply[u]
      BY <2>1, <2>10, <3>1 DEF KeyInv
    <3> QED BY <1>4, <2>2, <2>5, <3>1, <3>2
  <2> QED BY <2>2, <2>6, <2>7, <2>8, <2>9, <2>10 DEF KeyInv, Completed
<1> QED BY <1>5, <1>6, <1>7, <1>8, <1>9, Together

(* The answer saved with the key is true of every payment of the key: the  *)
(* request's own ended as the answer says, and there is no other.          *)
LEMMA CacheAnswerStep ==
  ASSUME PaymentsInv, NEW r \in Payers, CacheAnswer(r)
  PROVE  PaymentsInv'
<1> DEFINE row == [keyRow[Key(r)] EXCEPT !.state = "COMPLETED", !.snapshot = reply[r]]
<1>1. /\ pc[r] = "cache" /\ pc' = [pc EXCEPT ![r] = "replied"]
      /\ keyRow' = [keyRow EXCEPT ![Key(r)].state = "COMPLETED",
                                  ![Key(r)].snapshot = reply[r]]
      /\ CloseSession(r)
      /\ UNCHANGED <<call, dbVars, queue, reply, paid, legs, events, audit>>
  BY DEF CacheAnswer, Move
<1>2. /\ pc' \in [Payers -> Places] /\ pc'[r] = "replied"
      /\ \A u \in Payers \ {r} : pc'[u] = pc[u]
      /\ "cache" \in Serving /\ "replied" \notin Serving
  BY <1>1 DEF PaymentsInv, PaymentsTypeOK, Places, Serving, Saving, Closed
<1>3. KeyInv /\ Saga(r) /\ Leg(r) BY DEF PaymentsInv
<1>4. /\ Key(r) \in Keys /\ r \in Procs /\ reply[r] \in Answers
      /\ keyRow \in [Keys -> {NoKey} \cup [state : {"IN_PROGRESS", "COMPLETED"},
                                           body : Bodies, snapshot : Answers]]
      /\ keyRow[Key(r)] # NoKey /\ ~Completed(Key(r))
      /\ keyRow[Key(r)].body = Body(r)
  BY <1>1, <1>2, <1>3, RequestType DEF PaymentsInv, PaymentsTypeOK, KeyInv, Owns
<1>5. /\ keyRow' \in [Keys -> {NoKey} \cup [state : {"IN_PROGRESS", "COMPLETED"},
                                            body : Bodies, snapshot : Answers]]
      /\ keyRow'[Key(r)].state = "COMPLETED" /\ keyRow'[Key(r)].snapshot = reply[r]
      /\ keyRow'[Key(r)].body = Body(r)
      /\ \A k \in Keys \ {Key(r)} : keyRow'[k] = keyRow[k]
  <2>1. keyRow[Key(r)] \in [state : {"IN_PROGRESS", "COMPLETED"},
                            body : Bodies, snapshot : Answers]
    BY <1>4
  <2> QED BY <1>1, <1>4, <2>1
<1>6. posting[r] = NotPosting /\ pending[r] = NoEntries
  BY <1>1, <1>3 DEF Leg
<1>7. /\ posting' = posting /\ pending' = pending
      /\ identity' \in [Procs -> [Accounts -> Statuses \cup {"UNLOADED"}]]
      /\ \A u \in Procs \ {r} : identity'[u] = identity[u]
  BY <1>1, <1>4, <1>6 DEF CloseSession, Unloaded, PaymentsInv, LedgerInv, LedgerTypeOK
<1>8. LedgerInv' BY <1>1, <1>7, IdentityStep DEF PaymentsInv
<1>9. PaymentsTypeOK'
  BY <1>1, <1>2, <1>5, <1>8 DEF PaymentsInv, PaymentsTypeOK, LedgerInv
<1>10. OthersAlone(r)
  <2>1. \A u \in Payers \ {r} : u \in Procs \ {r} BY RequestType DEF PaymentsInv
  <2> QED BY <1>1, <1>2, <1>7, <2>1 DEF OthersAlone, Holds
<1>11. Saga(r)'
  BY <1>1, <1>2, <1>3, RowsStand
  DEF Saga, BeforePayment, BeforeDebit, InBetween, Debiting, Crediting, Refunding
<1>12. Leg(r)'
  BY <1>2, <1>6, <1>7
  DEF Leg, Validated, Debiting, Crediting, Refunding, SenderSeenActive
<1>13. KeyInv'
  <2>1. \A u \in Payers : Key(u)' = Key(u) /\ Body(u)' = Body(u) /\ Key(u) \in Keys
    BY <1>1, RequestType DEF PaymentsInv, Key, Body
  <2>2. \A u \in Payers : Owns(u)' => Owns(u)
    BY <1>1, <1>2 DEF Owns
  <2>3. \A u \in Payers \ {r} : Key(u) = Key(r) => ~Owns(u)
    BY <1>1, <1>2, <1>3 DEF KeyInv, Owns
  <2>4. \A u \in Payers : Completed(Key(u)) => Key(u) # Key(r) BY <1>4
  <2>5. SnapshotTrue(Key(r))'
    <3>1. \A s \in Payers \ {r} : Key(s) = Key(r) => paid[s] = "NONE" /\ legs[s].debit = legs[s].refund
      <4> SUFFICES ASSUME NEW s \in Payers \ {r}, Key(s) = Key(r)
                   PROVE  paid[s] = "NONE" /\ legs[s].debit = legs[s].refund
        OBVIOUS
      <4>1. paid[s] = "NONE" BY <2>3 DEF Owns
      <4>2. Saga(s) BY DEF PaymentsInv
      <4>3. Untouched(s)
        BY <4>1, <4>2
        DEF Saga, Rows, Initiated, Processing, Debited, Credited, Refunded, Succeeded,
            FailedAndRefunded, FailedUndebited
      <4> QED BY <4>1, <4>3 DEF Untouched, Rows
    <3>2. \/ Untouched(r) /\ reply[r] = Answer("refused")
          \/ Succeeded(r) /\ reply[r] = Success(r)
          \/ FailedAndRefunded(r) /\ reply[r] = Answer("creditFailed")
          \/ FailedUndebited(r) /\ reply[r] = Answer("debitFailed")
      BY <1>1, <1>3 DEF Saga
    <3>3. reply[r].code = "success" =>
            reply[r].payment = r /\ paid[r] = "SUCCESS"
      BY <3>2 DEF Answer, Success, Succeeded, Rows
    <3>4. reply[r].code \in AppErrors =>
            paid[r] \in {"NONE", "FAILED"} /\ legs[r].debit = legs[r].refund
      BY <3>2 DEF Answer, Success, AppErrors, Untouched, FailedAndRefunded,
                  FailedUndebited, Rows
    <3> QED BY <1>1, <1>5, <2>1, <3>1, <3>3, <3>4 DEF SnapshotTrue
  <2>6. ASSUME NEW k \in Keys, keyRow'[k].state = "COMPLETED" PROVE SnapshotTrue(k)'
    <3>1. CASE k = Key(r) BY <2>1, <2>5, <3>1 DEF SnapshotTrue
    <3>2. CASE k # Key(r)
      <4>1. SnapshotTrue(k) /\ keyRow'[k] = keyRow[k]
        BY <1>3, <1>5, <2>6, <3>2 DEF KeyInv, Completed
      <4> QED BY <1>1, <2>1, <4>1 DEF SnapshotTrue
    <3> QED BY <3>1, <3>2
  <2>7. ASSUME NEW u \in Payers, Owns(u)' PROVE keyRow'[Key(u)'] # NoKey
    <3>1. CASE Key(u) = Key(r) BY <1>5, <2>1, <3>1 DEF NoKey
    <3>2. CASE Key(u) # Key(r) BY <1>3, <1>5, <2>1, <2>2, <2>7, <3>2 DEF KeyInv
    <3> QED BY <3>1, <3>2
  <2>8. \A u, v \in Payers : Key(u)' = Key(v)' /\ Owns(u)' /\ Owns(v)' => u = v
    BY <1>3, <2>1, <2>2 DEF KeyInv
  <2>9. ASSUME NEW u \in Payers, pc'[u] \in Serving
        PROVE  /\ keyRow'[Key(u)'].state # "COMPLETED"
               /\ keyRow'[Key(u)'].body = Body(u)'
    <3>1. u # r /\ pc[u] \in Serving BY <1>2, <2>9
    <3>2. Key(u) # Key(r) BY <2>3, <3>1 DEF Owns
    <3> QED BY <1>3, <1>5, <2>1, <3>1, <3>2 DEF KeyInv, Completed
  <2>10. ASSUME NEW u \in Payers,
                pc'[u] = "replied", reply'[u].code \in {"success"} \cup AppErrors
         PROVE  /\ keyRow'[Key(u)'].state = "COMPLETED"
                /\ keyRow'[Key(u)'].body = Body(u)'
                /\ keyRow'[Key(u)'].snapshot = reply'[u]
    <3>1. CASE u = r BY <1>1, <1>5, <2>1, <3>1
    <3>2. CASE u # r
      <4>1. /\ Completed(Key(u)) /\ keyRow[Key(u)].body = Body(u)
            /\ keyRow[Key(u)].snapshot = reply[u] /\ reply'[u] = reply[u]
        BY <1>1, <1>2, <1>3, <2>10, <3>2 DEF KeyInv
      <4> QED BY <1>5, <2>1, <2>4, <4>1 DEF Completed
    <3> QED BY <3>1, <3>2
  <2> QED BY <2>1, <2>6, <2>7, <2>8, <2>9, <2>10 DEF KeyInv, Completed
<1> QED BY <1>8, <1>9, <1>10, <1>11, <1>12, <1>13, Together

-----------------------------------------------------------------------------
LEMMA StandStill ==
  ASSUME PaymentsInv, LedgerInv', UNCHANGED <<queue, sessionVars, paymentVars>>
  PROVE  PaymentsInv'
<1>1. UNCHANGED <<queue, identity, posting, pending, call, pc, reply,
                  keyRow, paid, legs, events, audit>>
  BY DEF sessionVars, paymentVars, tables
<1>2. PaymentsTypeOK' BY <1>1 DEF PaymentsInv, PaymentsTypeOK, LedgerInv
<1>3. ASSUME NEW r \in Payers PROVE Saga(r)' /\ Leg(r)'
  <2>1. Saga(r) /\ Leg(r) BY DEF PaymentsInv
  <2>2. Saga(r)' BY <1>1, <2>1, RowsStand DEF Saga, Success
  <2>3. Leg(r)'
    BY <1>1, <2>1
    DEF Leg, OnlyPending, Holds, LegAccount, SenderAccount, ReceiverAccount, Amount, Body
  <2> QED BY <2>2, <2>3
<1>4. KeyInv'
  BY <1>1 DEF PaymentsInv, KeyInv, Owns, Completed, SnapshotTrue, Key, Body
<1> QED BY <1>2, <1>3, <1>4 DEF PaymentsInv

LEMMA FreezeStep == ASSUME PaymentsInv, Freeze PROVE PaymentsInv'
<1>1. PICK a \in Freezable : SetStatus(a) /\ UNCHANGED paymentVars
  BY DEF Freeze
<1>2. LedgerInv' BY <1>1, SetStatusStep, LedgerAssumption DEF PaymentsInv
<1> QED BY <1>1, <1>2, StandStill DEF SetStatus

(* Nothing is served, held or pending after the server's death; what is    *)
(* committed stands.                                                       *)
LEMMA ServerCrashStep == ASSUME PaymentsInv, ServerCrash PROVE PaymentsInv'
<1>1. /\ LedgerLost
      /\ pc' = [r \in Payers |-> IF pc[r] \in Closed THEN pc[r] ELSE "lost"]
      /\ reply' = [r \in Payers |-> IF pc[r] \in Closed THEN reply[r] ELSE NoAnswer]
      /\ UNCHANGED <<call, tables>>
  BY DEF ServerCrash, PaymentsLost
<1>2. LedgerInv' BY <1>1, LostStep DEF PaymentsInv
<1>3. \A r \in Payers : posting'[r] = NotPosting /\ pending'[r] = NoEntries
  BY <1>1, PaymentsAssumption DEF LedgerLost
<1>4. /\ pc' \in [Payers -> Places] /\ reply' \in [Payers -> Answers]
      /\ \A r \in Payers : /\ pc'[r] \in Closed /\ pc'[r] \notin Serving
                           /\ pc'[r] # "lost" => pc'[r] = pc[r] /\ reply'[r] = reply[r]
  BY <1>1 DEF PaymentsInv, PaymentsTypeOK, Places, Closed, Serving, Answers
<1>5. PaymentsTypeOK'
  BY <1>1, <1>2, <1>4 DEF PaymentsInv, PaymentsTypeOK, LedgerInv, tables
<1>6. ASSUME NEW r \in Payers PROVE Saga(r)' /\ Leg(r)'
  <2>1. Saga(r) BY DEF PaymentsInv
  <2>2. pc'[r] = "idle" => pc[r] = "idle" BY <1>4
  <2>3. Saga(r)'
    BY <1>1, <1>4, <2>1, <2>2, RowsStand
    DEF Saga, tables, Closed, BeforePayment, BeforeDebit, InBetween, Debiting, Crediting,
        Refunding
  <2>4. Leg(r)'
    BY <1>3, <1>4
    DEF Leg, Closed, Validated, Serving, Debiting, Crediting, Refunding, SenderSeenActive
  <2> QED BY <2>3, <2>4
<1>7. KeyInv'
  <2>1. KeyInv BY DEF PaymentsInv
  <2>2. \A r \in Payers : Key(r)' = Key(r) /\ Body(r)' = Body(r)
    BY <1>1 DEF Key, Body
  <2>3. \A r \in Payers : Owns(r)' => Owns(r) BY <1>1, <1>4 DEF Owns, tables
  <2>4. \A k \in Keys : SnapshotTrue(k) => SnapshotTrue(k)'
    BY <1>1, <2>2 DEF SnapshotTrue, tables
  <2> QED BY <1>1, <1>4, <2>1, <2>2, <2>3, <2>4 DEF KeyInv, Completed, tables
<1> QED BY <1>2, <1>5, <1>6, <1>7 DEF PaymentsInv

LEMMA InitPayments == PaymentsInit => PaymentsInv
<1> SUFFICES ASSUME PaymentsInit PROVE PaymentsInv
  OBVIOUS
<1>1. LedgerInv BY InitHolds DEF PaymentsInit
<1>2. PaymentsTypeOK
  BY <1>1 DEF PaymentsInit, LedgerInv, PaymentsTypeOK, Places, Closed, Answers, PaymentStatuses
<1>3. \A r \in Payers : Untouched(r) /\ pc[r] = "idle"
  BY DEF PaymentsInit, Untouched, Rows
<1>4. ASSUME NEW r \in Payers PROVE Saga(r)
  BY <1>3, <1>4
  DEF Saga, BeforePayment, BeforeDebit, InBetween, Debiting, Crediting, Refunding
<1>5. ASSUME NEW r \in Payers PROVE Leg(r)
  <2>1. r \in Procs BY <1>2, RequestType
  <2> QED BY <1>3, <2>1
          DEF Leg, PaymentsInit, LedgerInit, Closed, Validated, Serving, Debiting, Crediting,
              Refunding, SenderSeenActive
<1>6. KeyInv
  <2>1. \A r \in Payers : ~Owns(r)
    BY <1>3 DEF Owns, Serving, Closed, Untouched, Rows
  <2>2. \A k \in Keys : ~Completed(k) BY DEF Completed, PaymentsInit, NoKey
  <2> QED BY <1>3, <2>1, <2>2 DEF KeyInv, Owns
<1> QED BY <1>1, <1>2, <1>4, <1>5, <1>6 DEF PaymentsInv

LEMMA NextPayments == PaymentsInv /\ [PaymentsNext]_payVars => PaymentsInv'
<1> SUFFICES ASSUME PaymentsInv, [PaymentsNext]_payVars PROVE PaymentsInv'
  OBVIOUS
<1>1. ASSUME NEW r \in Payers, PaymentStep(r) PROVE PaymentsInv'
  <2>1. CASE KeyStep(r)
    BY <2>1, LookUpStep, CreateKeyStep, CacheAnswerStep DEF KeyStep
  <2>2. CASE StatusStep(r)
    BY <2>2, ValidateStep, FirstPagesStep, FinishStep DEF StatusStep
  <2>3. CASE DebitStep(r)
    BY <2>3, AskStep, EnterStep, ReadStep, InsertStep, CommitLegStep, LeaveLegStep
    DEF DebitStep
  <2>4. CASE CreditStep(r)
    BY <2>4, AskStep, EnterStep, ReadStep, InsertStep, CommitLegStep, LeaveLegStep
    DEF CreditStep
  <2>5. CASE RefundStep(r)
    BY <2>5, AskStep, EnterStep, ReadStep, InsertStep, CommitLegStep DEF RefundStep
  <2> QED BY <1>1, <2>1, <2>2, <2>3, <2>4, <2>5 DEF PaymentStep
<1>2. ASSUME NEW r \in Payers, DatabaseError(r) PROVE PaymentsInv'
  BY <1>2, ErrorStep
<1>3. CASE Freeze BY <1>3, FreezeStep
<1>4. CASE ServerCrash BY <1>4, ServerCrashStep
<1>5. CASE UNCHANGED payVars
  <2>1. LedgerInv' BY <1>5, UnchangedStep DEF PaymentsInv, payVars
  <2> QED BY <1>5, <2>1, StandStill DEF payVars, ledgerVars
<1> QED BY <1>1, <1>2, <1>3, <1>4, <1>5 DEF PaymentsNext

-----------------------------------------------------------------------------
LEMMA AlwaysPaymentsInv == PaymentsSpec => []PaymentsInv
BY InitPayments, NextPayments, PTL DEF PaymentsSpec

(* Every variable keeps its type.                                          *)
THEOREM PaymentsTypeCorrect == PaymentsSpec => []PaymentsTypeOK
<1>1. PaymentsInv => PaymentsTypeOK BY DEF PaymentsInv
<1> QED BY <1>1, AlwaysPaymentsInv, PTL

(* No payment, refund, error or crash ever overdraws an account.           *)
THEOREM PaymentsNeverOverdraw == PaymentsSpec => []NoOverdraft
<1>1. PaymentsInv => NoOverdraft BY DEF PaymentsInv, LedgerInv
<1> QED BY <1>1, AlwaysPaymentsInv, PTL

(* A payment's status tells what became of its money: it follows from the  *)
(* rows a payment can have.                                                *)
LEMMA StatusTold == PaymentsInv => StatusTellsMoney
<1> SUFFICES ASSUME PaymentsInv, NEW r \in Payers
             PROVE  /\ legs[r].debit <= 1
                    /\ legs[r].credit + legs[r].refund <= legs[r].debit
                    /\ paid[r] = "SUCCESS" => legs[r].credit = 1
                    /\ paid[r] = "FAILED" => legs[r].refund = legs[r].debit
  BY DEF StatusTellsMoney
<1>1. Saga(r) BY DEF PaymentsInv
<1> QED
  BY <1>1
  DEF Saga, Rows, Untouched, Initiated, Processing, Debited, Credited, Refunded,
      Succeeded, FailedAndRefunded, FailedUndebited

(* The status of a payment never lies about where its money is.            *)
THEOREM StatusTellsMoneyAlways == PaymentsSpec => []StatusTellsMoney
BY StatusTold, AlwaysPaymentsInv, PTL

(* Whatever is retried and interleaved, a key is served once.              *)
LEMMA ServedOnce == PaymentsInv => OnePaymentPerKey
BY DEF PaymentsInv, KeyInv, Owns, OnePaymentPerKey

(* One payment at most is made for a key.                                  *)
THEOREM OnePaymentPerKeyAlways == PaymentsSpec => []OnePaymentPerKey
BY ServedOnce, AlwaysPaymentsInv, PTL

(* What a client is told is so and stays so.                               *)
LEMMA AnswersTold == PaymentsInv => AnswersTrue
<1> SUFFICES ASSUME PaymentsInv, NEW r \in Payers, pc[r] = "replied",
                    reply[r].code \in {"success"} \cup AppErrors
             PROVE  /\ reply[r].code = "success" =>
                         /\ paid[reply[r].payment] = "SUCCESS"
                         /\ call[reply[r].payment].key = Key(r)
                         /\ call[reply[r].payment].body = Body(r)
                    /\ reply[r].code \in AppErrors =>
                         \A s \in Payers : Key(s) = Key(r) /\ Body(s) = Body(r)
                           => /\ paid[s] \in {"NONE", "FAILED"}
                              /\ legs[s].debit = legs[s].refund
  BY DEF AnswersTrue
<1>1. /\ Completed(Key(r)) /\ keyRow[Key(r)].body = Body(r)
      /\ keyRow[Key(r)].snapshot = reply[r] /\ Key(r) \in Keys
  BY RequestType DEF PaymentsInv, KeyInv
<1>2. SnapshotTrue(Key(r)) BY <1>1 DEF PaymentsInv, KeyInv
<1> QED BY <1>1, <1>2 DEF SnapshotTrue, Key, Body

(* No client is ever told a lie.                                           *)
THEOREM AnswersAlwaysTrue == PaymentsSpec => []AnswersTrue
BY AnswersTold, AlwaysPaymentsInv, PTL

(* A compensation is never refused by post_entry's check of the status.    *)
LEMMA RefundAllowed == PaymentsInv => RefundNotRefused
BY DEF PaymentsInv, Leg, RefundNotRefused, Seen, SenderSeenActive

(* The except clause of the credit does not raise.                         *)
THEOREM RefundNeverRefused == PaymentsSpec => []RefundNotRefused
BY RefundAllowed, AlwaysPaymentsInv, PTL

-----------------------------------------------------------------------------
LEMMA Beginning ==
  ASSUME NEW S, NEW c \in Seq(S), NEW s \in Seq(S), Len(s) <= Len(c),
         \A i \in 1 .. Len(s) : s[i] = c[i]
  PROVE  s = SubSeq(c, 1, Len(s))
<1>1. Len(s) \in Nat /\ Len(c) \in Nat OBVIOUS
<1>2. CASE Len(s) = 0
  <2>1. s = <<>> BY <1>2, EmptySeq
  <2>2. SubSeq(c, 1, 0) = <<>> BY <1>1
  <2> QED BY <1>2, <2>1, <2>2
<1>3. CASE Len(s) # 0
  <2>1. \A i \in 1 .. Len(s) : c[i] \in S BY <1>1
  <2>2. /\ SubSeq(c, 1, Len(s)) \in Seq(S) /\ Len(SubSeq(c, 1, Len(s))) = Len(s)
        /\ \A i \in 1 .. Len(s) : SubSeq(c, 1, Len(s))[i] = c[i]
    BY <1>1, <1>3, <2>1, SubSeqProperties
  <2> QED BY <2>2, SeqEqual
<1> QED BY <1>2, <1>3

(* The pages of a payment are a beginning of one of its courses.           *)
LEMMA EveryPage ==
  ASSUME NEW r \in Payers, Saga(r)
  PROVE  \E c \in Courses : /\ Len(events[r]) <= Len(c)
                           /\ events[r] = SubSeq(c, 1, Len(events[r]))
<1> DEFINE long == <<"INITIATED", "PROCESSING", "DEBITED", "CREDITED", "SUCCESS">>
           back == <<"INITIATED", "PROCESSING", "DEBITED", "FAILED">>
           short == <<"INITIATED", "PROCESSING", "FAILED">>
<1>1. /\ long \in Courses /\ long \in Seq(EventTypes) /\ Len(long) = 5
      /\ back \in Courses /\ back \in Seq(EventTypes) /\ Len(back) = 4
      /\ short \in Courses /\ short \in Seq(EventTypes) /\ Len(short) = 3
  BY DEF Courses, EventTypes
<1>2. \/ events[r] = <<>>
      \/ events[r] = <<"INITIATED">>
      \/ events[r] = <<"INITIATED", "PROCESSING">>
      \/ events[r] = <<"INITIATED", "PROCESSING", "DEBITED">>
      \/ events[r] = <<"INITIATED", "PROCESSING", "DEBITED", "CREDITED">>
      \/ events[r] = long
      \/ events[r] = back
      \/ events[r] = short
  BY DEF Saga, Rows, Untouched, Initiated, Processing, Debited, Credited, Refunded,
         Succeeded, FailedAndRefunded, FailedUndebited
<1> DEFINE Begins(c) ==
             /\ events[r] \in Seq(EventTypes) /\ Len(events[r]) <= Len(c)
             /\ \A i \in 1 .. Len(events[r]) : events[r][i] = c[i]
<1>3. Begins(long) \/ Begins(back) \/ Begins(short)
  <2>1. ASSUME events[r] = <<>> PROVE Begins(long)
    BY <1>1, <2>1 DEF EventTypes
  <2>2. ASSUME events[r] = <<"INITIATED">> PROVE Begins(long)
    BY <1>1, <2>2 DEF EventTypes
  <2>3. ASSUME events[r] = <<"INITIATED", "PROCESSING">> PROVE Begins(long)
    BY <1>1, <2>3 DEF EventTypes
  <2>4. ASSUME events[r] = <<"INITIATED", "PROCESSING", "DEBITED">> PROVE Begins(long)
    BY <1>1, <2>4 DEF EventTypes
  <2>5. ASSUME events[r] = <<"INITIATED", "PROCESSING", "DEBITED", "CREDITED">> PROVE Begins(long)
    BY <1>1, <2>5 DEF EventTypes
  <2>6. ASSUME events[r] = long PROVE Begins(long)
    BY <1>1, <2>6 DEF EventTypes
  <2>7. ASSUME events[r] = back PROVE Begins(back)
    BY <1>1, <2>7 DEF EventTypes
  <2>8. ASSUME events[r] = short PROVE Begins(short)
    BY <1>1, <2>8 DEF EventTypes
  <2> QED BY <1>2, <2>1, <2>2, <2>3, <2>4, <2>5, <2>6, <2>7, <2>8
<1>4. PICK c \in {long, back, short} : Begins(c) BY <1>3
<1>5. c \in Courses /\ c \in Seq(EventTypes) BY <1>1
<1> HIDE DEF long, back, short
<1>6. events[r] = SubSeq(c, 1, Len(events[r])) BY <1>4, <1>5, Beginning
<1> QED BY <1>4, <1>5, <1>6

LEMMA EventsAndRows ==
  ASSUME NEW r \in Payers, Saga(r)
  PROVE  /\ Tells(r, "DEBITED") <=> legs[r].debit = 1
         /\ Tells(r, "CREDITED") <=> legs[r].credit = 1
         /\ Tells(r, "SUCCESS") <=> paid[r] = "SUCCESS"
         /\ Tells(r, "FAILED") <=> paid[r] = "FAILED"
         /\ audit[r] = CASE paid[r] = "SUCCESS" -> <<"PAYMENT_SUCCEEDED">>
                         [] paid[r] = "FAILED" -> <<"PAYMENT_FAILED">>
                         [] OTHER -> <<>>
<1>1. CASE Untouched(r) BY <1>1 DEF Untouched, Rows, Tells
<1>2. CASE Initiated(r) BY <1>2 DEF Initiated, Rows, Tells
<1>3. CASE Processing(r) BY <1>3 DEF Processing, Rows, Tells
<1>4. CASE Debited(r) BY <1>4 DEF Debited, Rows, Tells
<1>5. CASE Credited(r) BY <1>5 DEF Credited, Rows, Tells
<1>6. CASE Refunded(r) BY <1>6 DEF Refunded, Rows, Tells
<1>7. CASE Succeeded(r) BY <1>7 DEF Succeeded, Rows, Tells
<1>8. CASE FailedAndRefunded(r) BY <1>8 DEF FailedAndRefunded, Rows, Tells
<1>9. CASE FailedUndebited(r) BY <1>9 DEF FailedUndebited, Rows, Tells
<1> QED BY <1>1, <1>2, <1>3, <1>4, <1>5, <1>6, <1>7, <1>8, <1>9 DEF Saga

(* The outbox is told the truth: the events of a payment follow a course,  *)
(* and each of them stands exactly when what it tells of is committed.     *)
LEMMA EventsTold == PaymentsInv => EventsTellPayment
BY EveryPage, EventsAndRows DEF PaymentsInv, EventsTellPayment

(* No event is ever out of step with the payment it tells of.              *)
THEOREM EventsAlwaysTellPayment == PaymentsSpec => []EventsTellPayment
BY EventsTold, AlwaysPaymentsInv, PTL

-----------------------------------------------------------------------------
(***************************************************************************)
(* Payments implements Idempotency: the key's row is Claim, the credit is  *)
(* Pay, the cached answer is Save.                                         *)
(***************************************************************************)
InHand == {r \in Payers : pc[r] \notin Closed \cup {"newKey"}}

Arrived == {r \in Payers : legs[r].credit = 1}

Given(r) == IF pc[r] = "replied" THEN reply[r] ELSE NoAnswer

LEMMA InHandServing ==
  ASSUME PaymentsInv, NEW r \in Payers
  PROVE  r \in InHand <=> pc[r] \in Serving
BY DEF PaymentsInv, PaymentsTypeOK, InHand, Serving

(* A step inside the saga that credits nobody does not show.               *)
LEMMA Unseen ==
  ASSUME PaymentsInv, NEW r \in Payers, NEW to,
         pc' = [pc EXCEPT ![r] = to],
         \/ pc[r] \in Serving /\ to \in Serving
         \/ pc[r] = "idle" /\ to = "newKey",
         \A u \in Payers \ {r} : reply'[u] = reply[u],
         \A u \in Payers : legs'[u].credit = legs[u].credit,
         UNCHANGED <<call, keyRow>>
  PROVE  UNCHANGED TheEndpoint!idemVars
<1>1. /\ pc \in [Payers -> Places] /\ pc'[r] = to
      /\ \A u \in Payers \ {r} : pc'[u] = pc[u]
  BY DEF PaymentsInv, PaymentsTypeOK
<1>2. \A u \in Payers : Given(u)' = Given(u)
  BY <1>1 DEF Given, Serving, Closed
<1>3. /\ [u \in Payers |-> Given(u)]' = [u \in Payers |-> Given(u)]
      /\ Arrived' = Arrived
  BY <1>2 DEF Arrived
<1>4. InHand' = InHand BY <1>1 DEF InHand, Serving, Closed
<1> QED BY <1>3, <1>4 DEF TheEndpoint!idemVars, InHand, Arrived, Given

LEMMA IdempotencyStep ==
  PaymentsInv /\ [PaymentsNext]_payVars
    => [TheEndpoint!IdempotencyNext]_TheEndpoint!idemVars
<1> SUFFICES ASSUME PaymentsInv, [PaymentsNext]_payVars
             PROVE  [TheEndpoint!IdempotencyNext]_TheEndpoint!idemVars
  OBVIOUS
<1> DEFINE given == [u \in Payers |-> Given(u)]
<1>0. PaymentsTypeOK BY DEF PaymentsInv
<1>1. ASSUME NEW r \in Payers, CreateKey(r) PROVE TheEndpoint!Claim(r)
  <2>1. /\ pc[r] = "newKey" /\ pc' = [pc EXCEPT ![r] = "validate"]
        /\ keyRow[Key(r)] = NoKey
        /\ keyRow' = [keyRow EXCEPT ![Key(r)] =
             [state |-> "IN_PROGRESS", body |-> Body(r), snapshot |-> NoAnswer]]
        /\ UNCHANGED <<call, reply, legs>>
    BY <1>1 DEF CreateKey, Move
  <2>2. /\ r \notin InHand /\ InHand' = InHand \cup {r} /\ Arrived' = Arrived
        /\ given[r] = NoAnswer /\ given' = given
    BY <1>0, <2>1 DEF PaymentsTypeOK, InHand, Arrived, Given, Closed
  <2> HIDE DEF given
  <2> QED
    BY <2>1, <2>2
    DEF TheEndpoint!Claim, TheEndpoint!Open, TheEndpoint!NoAnswer, TheEndpoint!NoKey,
        TheEndpoint!Key, TheEndpoint!Body, Key, Body, NoAnswer, NoKey,
        InHand, Arrived, Given, given
<1>2. ASSUME NEW r \in Payers, CreditCommit(r) PROVE TheEndpoint!Pay(r)
  <2>1. /\ pc[r] = "creditCommit" /\ pc' = [pc EXCEPT ![r] = "succeed"]
        /\ legs' = [legs EXCEPT ![r]["credit"] = @ + 1]
        /\ UNCHANGED <<call, keyRow, reply>>
    BY <1>2 DEF CreditCommit, CommitLeg, Move
  <2>2. legs[r].credit = 0
    BY <2>1 DEF PaymentsInv, Saga, InBetween, Crediting, Debited, Rows
  <2>3. /\ r \in InHand /\ r \notin Arrived
        /\ InHand' = InHand /\ Arrived' = Arrived \cup {r} /\ given' = given
    BY <1>0, <2>1, <2>2 DEF PaymentsTypeOK, InHand, Arrived, Given, Closed
  <2> HIDE DEF given
  <2> QED BY <2>1, <2>3 DEF TheEndpoint!Pay, InHand, Arrived, Given, given
<1>3. ASSUME NEW r \in Payers, CacheAnswer(r) PROVE TheEndpoint!Save(r)
  <2>1. /\ pc[r] = "cache" /\ pc' = [pc EXCEPT ![r] = "replied"]
        /\ keyRow' = [keyRow EXCEPT ![Key(r)].state = "COMPLETED",
                                    ![Key(r)].snapshot = reply[r]]
        /\ UNCHANGED <<call, reply, legs>>
    BY <1>3 DEF CacheAnswer, Move
  <2>2. /\ r \in InHand /\ InHand' = InHand \ {r} /\ Arrived' = Arrived
        /\ given' = [given EXCEPT ![r] = reply[r]]
    BY <1>0, <2>1 DEF PaymentsTypeOK, InHand, Arrived, Given, Closed
  <2>3. /\ r \in Arrived => reply[r] = Success(r)
        /\ r \notin Arrived => \E e \in AppErrors : reply[r] = Answer(e)
    BY <2>1
    DEF PaymentsInv, Saga, Arrived, Rows, Untouched, Succeeded, FailedAndRefunded,
        FailedUndebited, AppErrors
  <2>4. reply[r] \in IF r \in Arrived THEN {TheEndpoint!Success(r)}
                     ELSE {TheEndpoint!Answer(e) : e \in AppErrors}
    BY <2>3 DEF TheEndpoint!Success, TheEndpoint!Answer, Success, Answer
  <2> HIDE DEF given
  <2> QED
    BY <2>1, <2>2, <2>4
    DEF TheEndpoint!Save, TheEndpoint!Give, TheEndpoint!Key, Key, InHand, Arrived, Given, given
<1>4. ASSUME NEW r \in Payers, FindKey(r) \/ DuplicateKey(r) PROVE TheEndpoint!Replay(r)
  <2>1. PICK a \in {KnownKeyAnswer(keyRow[Key(r)], Body(r)), Answer("integrityError")} :
          /\ pc[r] \in {"idle", "newKey"} /\ pc' = [pc EXCEPT ![r] = "replied"]
          /\ keyRow[Key(r)] # NoKey
          /\ reply' = [reply EXCEPT ![r] = a]
          /\ UNCHANGED <<call, keyRow, legs>>
    BY <1>4 DEF FindKey, DuplicateKey, Move, Respond, tables
  <2>2. /\ r \notin InHand /\ InHand' = InHand /\ Arrived' = Arrived
        /\ given[r] = NoAnswer /\ given' = [given EXCEPT ![r] = a]
    BY <1>0, <2>1 DEF PaymentsTypeOK, InHand, Arrived, Given, Closed
  <2>3. a \in {TheEndpoint!FromKey(keyRow[Key(r)], Body(r)),
               TheEndpoint!Answer("integrityError")}
    BY <2>1 DEF KnownKeyAnswer, TheEndpoint!FromKey, TheEndpoint!Answer, Answer
  <2> HIDE DEF given
  <2> QED
    BY <2>1, <2>2, <2>3
    DEF TheEndpoint!Replay, TheEndpoint!Open, TheEndpoint!Give, TheEndpoint!NoAnswer,
        TheEndpoint!NoKey, TheEndpoint!Key, TheEndpoint!Body, Key, Body, NoAnswer, NoKey,
        InHand, Arrived, Given, given
<1>5. ASSUME NEW r \in Payers, DatabaseError(r) PROVE TheEndpoint!BreakOff(r)
  <2>1. /\ pc[r] # "replied" /\ pc' = [pc EXCEPT ![r] = "replied"]
        /\ reply' = [reply EXCEPT ![r] = Answer("databaseError")]
        /\ UNCHANGED <<call, keyRow, legs>>
    BY <1>5 DEF DatabaseError, Move, Respond, tables, Closed
  <2>2. /\ InHand' = InHand \ {r} /\ Arrived' = Arrived
        /\ given[r] = NoAnswer
        /\ given' = [given EXCEPT ![r] = Answer("databaseError")]
    BY <1>0, <2>1 DEF PaymentsTypeOK, InHand, Arrived, Given, Closed
  <2> HIDE DEF given
  <2> QED
    BY <2>1, <2>2
    DEF TheEndpoint!BreakOff, TheEndpoint!Give, TheEndpoint!Answer, TheEndpoint!NoAnswer,
        Answer, NoAnswer, InHand, Arrived, Given, given
<1>6. CASE ServerCrash
  <2>1. /\ pc' = [u \in Payers |-> IF pc[u] \in Closed THEN pc[u] ELSE "lost"]
        /\ reply' = [u \in Payers |-> IF pc[u] \in Closed THEN reply[u] ELSE NoAnswer]
        /\ UNCHANGED <<call, keyRow, legs>>
    BY <1>6 DEF ServerCrash, PaymentsLost, tables
  <2>2. InHand' = {} /\ Arrived' = Arrived /\ given' = given
    BY <2>1 DEF InHand, Arrived, Given, Closed
  <2> HIDE DEF given
  <2>3. TheEndpoint!ServerDies
    BY <2>1, <2>2 DEF TheEndpoint!ServerDies, InHand, Arrived, Given, given
  <2> QED BY <2>3 DEF TheEndpoint!IdempotencyNext
<1>7. ASSUME NEW r \in Payers, PaymentStep(r),
             ~CreateKey(r), ~CreditCommit(r), ~CacheAnswer(r), ~FindKey(r), ~DuplicateKey(r)
      PROVE  UNCHANGED TheEndpoint!idemVars
  <2>1. CASE FindNoKey(r)
    BY <2>1, Unseen DEF FindNoKey, Move, tables
  <2>2. CASE StatusStep(r)
    <3>1. PICK to \in {"cache", "create", "process", "askSender"} :
            /\ pc[r] \in {"validate", "create", "process", "failDebit", "failCredit", "succeed"}
            /\ pc' = [pc EXCEPT ![r] = to]
            /\ UNCHANGED <<call, keyRow, legs>>
            /\ \A u \in Payers \ {r} : reply'[u] = reply[u]
      BY <1>0, <2>2
      DEF StatusStep, Validate, Refuse, CreatePayment, StartProcessing, FailDebit, FailCredit,
          Succeed, Finish, Move, Respond, tables, PaymentsTypeOK
    <3>2. pc[r] \in Serving /\ to \in Serving
      BY <3>1 DEF Serving, Places, Closed, Saving, Queueing
    <3> QED BY <3>1, <3>2, Unseen
  <2>3. CASE DebitStep(r) \/ CreditStep(r) \/ RefundStep(r)
    <3> DEFINE Leads(from, to) ==
                 /\ pc[r] = from /\ pc' = [pc EXCEPT ![r] = to]
                 /\ UNCHANGED <<call, keyRow, reply>>
                 /\ \/ UNCHANGED legs
                    \/ legs' = [legs EXCEPT ![r]["debit"] = @ + 1]
                    \/ legs' = [legs EXCEPT ![r]["refund"] = @ + 1]
    <3>4. \A a, from, to : Ask(r, a, from, to) \/ Enter(r, a, from, to)
                             \/ ReadLeg(r, a, from, to) => Leads(from, to)
      BY DEF Ask, Enter, ReadLeg, Move, tables
    <3>5. \A type, from, to : InsertLeg(r, type, from, to) => Leads(from, to)
      BY DEF InsertLeg, Move, tables
    <3>6. \A from, to : LeaveLeg(r, from, to) \/ CommitLeg(r, "debit", from, to)
                          \/ CommitLeg(r, "refund", from, to) => Leads(from, to)
      BY DEF LeaveLeg, CommitLeg, Move, tables
    <3> HIDE DEF Leads
    <3> DEFINE Steps == Waiting \cup Debiting \cup Crediting \cup Refunding \cup Queueing
    <3>7. \E from \in Steps, to \in Steps \cup {"failDebit", "failCredit"} : Leads(from, to)
      <4>1. CASE DebitStep(r)
        BY <3>4, <3>5, <3>6, <4>1
        DEF DebitStep, AskSender, EnterDebit, DebitRead, DebitInsert, DebitCommit,
            DebitInactive, DebitInsufficient, Waiting, Debiting, Queueing
      <4>2. CASE CreditStep(r)
        BY <1>7, <3>4, <3>5, <3>6, <4>2
        DEF CreditStep, AskReceiver, EnterCredit, CreditRead, CreditInsert, CreditInactive,
            Waiting, Crediting, Queueing
      <4>3. CASE RefundStep(r)
        BY <3>4, <3>5, <3>6, <4>3
        DEF RefundStep, AskRefund, EnterRefund, RefundRead, RefundInsert, RefundCommit,
            Waiting, Refunding, Queueing
      <4> QED BY <2>3, <4>1, <4>2, <4>3
    <3>1. PICK to \in Steps \cup {"failDebit", "failCredit"} :
            /\ pc[r] \in Steps
            /\ pc' = [pc EXCEPT ![r] = to]
            /\ UNCHANGED <<call, keyRow, reply>>
            /\ \/ UNCHANGED legs
               \/ legs' = [legs EXCEPT ![r]["debit"] = @ + 1]
               \/ legs' = [legs EXCEPT ![r]["refund"] = @ + 1]
      BY <3>7 DEF Leads
    <3>2. pc[r] \in Serving /\ to \in Serving
      BY <3>1 DEF Serving, Places, Closed, Waiting, Debiting, Crediting, Refunding, Queueing,
                  Saving
    <3>3. \A u \in Payers : legs'[u].credit = legs[u].credit
      <4> SUFFICES ASSUME NEW u \in Payers PROVE legs'[u].credit = legs[u].credit
        OBVIOUS
      <4>1. /\ legs[u] \in [debit : Nat, credit : Nat, refund : Nat]
            /\ legs \in [Payers -> [debit : Nat, credit : Nat, refund : Nat]]
        BY <1>0 DEF PaymentsTypeOK
      <4>2. CASE UNCHANGED legs BY <4>2
      <4>3. CASE legs' = [legs EXCEPT ![r]["debit"] = @ + 1] BY <4>1, <4>3
      <4>4. CASE legs' = [legs EXCEPT ![r]["refund"] = @ + 1] BY <4>1, <4>4
      <4> QED BY <3>1, <4>2, <4>3, <4>4
    <3> QED BY <3>1, <3>2, <3>3, Unseen
  <2> QED BY <1>7, <2>1, <2>2, <2>3 DEF PaymentStep, KeyStep
<1>8. CASE Freeze \/ UNCHANGED payVars
  BY <1>8 DEF Freeze, payVars, paymentVars, tables, TheEndpoint!idemVars
<1>9. ASSUME NEW r \in Payers,
             \/ TheEndpoint!Claim(r) \/ TheEndpoint!Pay(r) \/ TheEndpoint!Save(r)
             \/ TheEndpoint!Replay(r) \/ TheEndpoint!BreakOff(r)
      PROVE  TheEndpoint!IdempotencyNext
  BY <1>9 DEF TheEndpoint!IdempotencyNext, TheEndpoint!Serve
<1> QED BY <1>1, <1>2, <1>3, <1>4, <1>5, <1>6, <1>7, <1>8, <1>9 DEF PaymentsNext

LEMMA NothingClaimed == PaymentsInit => TheEndpoint!IdempotencyInit
BY DEF PaymentsInit, TheEndpoint!IdempotencyInit, TheEndpoint!NoAnswer, TheEndpoint!NoKey,
       NoAnswer, NoKey, Closed

(* A key is served once, answered once and for all, and what broke off     *)
(* never pays later: the saga keeps the promise of Idempotency.            *)
THEOREM IdempotencyRefinement == PaymentsSpec => PaymentsImplementIdempotency
BY NothingClaimed, IdempotencyStep, AlwaysPaymentsInv, PTL
  DEF PaymentsSpec, PaymentsImplementIdempotency, TheEndpoint!IdempotencySpec

-----------------------------------------------------------------------------
(***************************************************************************)
(* Payments implements Bank: its three commits of an entry are Bank's      *)
(* three steps of a payment.                                               *)
(***************************************************************************)
Funds == [a \in Accounts |-> Balance(a)]

Held(r) ==
  IF legs[r].debit > legs[r].credit + legs[r].refund
  THEN [from |-> SenderAccount(r), to |-> ReceiverAccount(r), amount |-> Amount(r)]
  ELSE [from |-> 0, to |-> 0, amount |-> 0]

(* What a commit of a single pending entry does to the balances.           *)
LEMMA OneEntryCommit ==
  ASSUME PaymentsInv, NEW r \in Payers, NEW a \in Accounts, NEW type \in {"DEBIT", "CREDIT"},
         posting[r] = NotPosting, CommitEntries(r), OnlyPending(r, a, type)
  PROVE  /\ type = "DEBIT" => /\ Amount(r) <= Balance(a)
                              /\ Funds' = [Funds EXCEPT ![a] = @ - Amount(r)]
         /\ type = "CREDIT" => Funds' = [Funds EXCEPT ![a] = @ + Amount(r)]
<1>1. r \in Procs /\ r \notin Seeders /\ Amount(r) \in Nat \ {0}
  BY RequestType DEF PaymentsInv
<1>2. \A b \in Accounts : Balance(b) \in Int
  BY DEF PaymentsInv, LedgerInv, LedgerTypeOK, Balance
<1>3. \A b \in Accounts : Balance(b)' = Balance(b) + AmountOf(pending[r][b], "CREDIT")
                                                  - AmountOf(pending[r][b], "DEBIT")
  BY <1>1, CommitEntriesStep DEF PaymentsInv
<1>4. /\ pending[r][a].type = type /\ pending[r][a].amount = Amount(r)
      /\ \A b \in Accounts \ {a} : pending[r][b] = NoEntry
  BY DEF OnlyPending
<1>5. type = "DEBIT" => Amount(r) <= Balance(a)
  BY <1>1, <1>4 DEF PaymentsInv, LedgerInv, PendingEntriesHold, NoEntry
<1>6. /\ Balance(a)' = IF type = "DEBIT" THEN Balance(a) - Amount(r)
                                         ELSE Balance(a) + Amount(r)
      /\ \A b \in Accounts \ {a} : Balance(b)' = Balance(b)
  BY <1>1, <1>2, <1>3, <1>4 DEF AmountOf, NoEntry
<1>7. type = "DEBIT" => Funds' = [Funds EXCEPT ![a] = @ - Amount(r)]
  BY <1>6 DEF Funds
<1>8. type = "CREDIT" => Funds' = [Funds EXCEPT ![a] = @ + Amount(r)]
  BY <1>6 DEF Funds
<1> QED BY <1>5, <1>7, <1>8

(* What a request holds depends on its own leg counts alone.               *)
LEMMA OthersHold ==
  ASSUME PaymentsInv, NEW r \in Payers, NEW leg \in {"debit", "credit", "refund"},
         call' = call, legs' = [legs EXCEPT ![r][leg] = @ + 1]
  PROVE  /\ \A u \in Payers \ {r} : Held(u)' = Held(u)
         /\ legs'[r] = [legs[r] EXCEPT ![leg] = @ + 1]
         /\ SenderAccount(r)' = SenderAccount(r) /\ ReceiverAccount(r)' = ReceiverAccount(r)
         /\ Amount(r)' = Amount(r)
<1>1. legs \in [Payers -> [debit : Nat, credit : Nat, refund : Nat]]
  BY DEF PaymentsInv, PaymentsTypeOK
<1>2. /\ \A u \in Payers \ {r} : legs'[u] = legs[u]
      /\ legs'[r] = [legs[r] EXCEPT ![leg] = @ + 1]
  BY <1>1
<1> QED BY <1>2 DEF Held, SenderAccount, ReceiverAccount, Amount, Body

(* A commit of a leg finds the entry of that leg pending, and no other.    *)
LEMMA LegCommitStep ==
  ASSUME PaymentsInv, NEW r \in Payers, DebitCommit(r) \/ CreditCommit(r) \/ RefundCommit(r)
  PROVE  /\ posting[r] = NotPosting /\ CommitEntries(r) /\ call' = call
         /\ SenderAccount(r) \in Accounts /\ ReceiverAccount(r) \in Accounts
         /\ Amount(r) \in Nat \ {0}
         /\ DebitCommit(r) => legs[r] = [debit |-> 0, credit |-> 0, refund |-> 0]
         /\ CreditCommit(r) \/ RefundCommit(r) =>
              legs[r] = [debit |-> 1, credit |-> 0, refund |-> 0]
<1>1. /\ pc[r] \in {"debitCommit", "creditCommit", "refundCommit"}
      /\ DebitCommit(r) => pc[r] = "debitCommit"
      /\ CreditCommit(r) \/ RefundCommit(r) => pc[r] # "debitCommit"
      /\ CommitEntries(r) /\ call' = call
  BY DEF DebitCommit, CreditCommit, RefundCommit, CommitLeg, Move
<1>2. pc[r] \in Validated
  BY <1>1 DEF Validated, Serving, Places, Closed, Debiting, Crediting, Refunding
<1>3. Leg(r) /\ Saga(r) BY DEF PaymentsInv
<1>4. legs[r] = [debit |-> IF pc[r] = "debitCommit" THEN 0 ELSE 1,
                 credit |-> 0, refund |-> 0]
  BY <1>1, <1>3
  DEF Saga, BeforeDebit, InBetween, Debiting, Crediting, Refunding, Processing, Debited,
      Rows
<1> QED BY <1>1, <1>2, <1>3, <1>4, LegType, RequestType DEF Leg, PaymentsInv

(* What DebitCommit means to Bank: the money leaves an account that has it.*)
LEMMA DebitTakesMoney ==
  ASSUME PaymentsInv, NEW r \in Payers, DebitCommit(r)
  PROVE  \E a, b \in Accounts, n \in Nat \ {0} :
           /\ n <= Balance(a)
           /\ Funds' = [Funds EXCEPT ![a] = @ - n]
           /\ Held(r) = [from |-> 0, to |-> 0, amount |-> 0]
           /\ Held(r)' = [from |-> a, to |-> b, amount |-> n]
           /\ \A u \in Payers \ {r} : Held(u)' = Held(u)
<1>1. /\ posting[r] = NotPosting /\ CommitEntries(r) /\ call' = call
      /\ SenderAccount(r) \in Accounts /\ ReceiverAccount(r) \in Accounts
      /\ Amount(r) \in Nat \ {0}
      /\ legs[r] = [debit |-> 0, credit |-> 0, refund |-> 0]
  BY LegCommitStep
<1>2. /\ legs' = [legs EXCEPT ![r]["debit"] = @ + 1]
      /\ OnlyPending(r, SenderAccount(r), "DEBIT")
  BY DEF DebitCommit, CommitLeg, Move, PaymentsInv, Leg
<1>3. /\ Amount(r) <= Balance(SenderAccount(r))
      /\ Funds' = [Funds EXCEPT ![SenderAccount(r)] = @ - Amount(r)]
  BY <1>1, <1>2, OneEntryCommit
<1>4. /\ \A u \in Payers \ {r} : Held(u)' = Held(u)
      /\ legs'[r] = [legs[r] EXCEPT !["debit"] = @ + 1]
      /\ SenderAccount(r)' = SenderAccount(r) /\ ReceiverAccount(r)' = ReceiverAccount(r)
      /\ Amount(r)' = Amount(r)
  BY <1>1, <1>2, OthersHold
<1>5. legs'[r] = [debit |-> 1, credit |-> 0, refund |-> 0] BY <1>1, <1>4
<1>6. Held(r) = [from |-> 0, to |-> 0, amount |-> 0] BY <1>1 DEF Held
<1>7. Held(r)' = [from |-> SenderAccount(r), to |-> ReceiverAccount(r), amount |-> Amount(r)]
  BY <1>4, <1>5 DEF Held
<1> QED BY <1>1, <1>3, <1>4, <1>6, <1>7

(* CreditCommit and RefundCommit hand the money over, to one end or back   *)
(* to the other.                                                           *)
LEMMA CreditHandsOver ==
  ASSUME PaymentsInv, NEW r \in Payers, CreditCommit(r) \/ RefundCommit(r)
  PROVE  \E from, to \in Accounts, n \in Nat \ {0}, a \in Accounts :
           /\ a \in {from, to}
           /\ Funds' = [Funds EXCEPT ![a] = @ + n]
           /\ Held(r) = [from |-> from, to |-> to, amount |-> n]
           /\ Held(r)' = [from |-> 0, to |-> 0, amount |-> 0]
           /\ \A u \in Payers \ {r} : Held(u)' = Held(u)
<1>1. /\ posting[r] = NotPosting /\ CommitEntries(r) /\ call' = call
      /\ SenderAccount(r) \in Accounts /\ ReceiverAccount(r) \in Accounts
      /\ Amount(r) \in Nat \ {0}
      /\ legs[r] = [debit |-> 1, credit |-> 0, refund |-> 0]
  BY LegCommitStep
<1>2. PICK leg \in {"credit", "refund"}, a \in {SenderAccount(r), ReceiverAccount(r)} :
        /\ legs' = [legs EXCEPT ![r][leg] = @ + 1]
        /\ OnlyPending(r, a, "CREDIT")
  BY DEF CreditCommit, RefundCommit, CommitLeg, Move, PaymentsInv, Leg
<1>3. a \in Accounts BY <1>1
<1>4. Funds' = [Funds EXCEPT ![a] = @ + Amount(r)]
  BY <1>1, <1>2, <1>3, OneEntryCommit
<1>5. /\ \A u \in Payers \ {r} : Held(u)' = Held(u)
      /\ legs'[r] = [legs[r] EXCEPT ![leg] = @ + 1]
      /\ SenderAccount(r)' = SenderAccount(r) /\ ReceiverAccount(r)' = ReceiverAccount(r)
      /\ Amount(r)' = Amount(r)
  BY <1>1, <1>2, OthersHold
<1>6. /\ legs'[r].debit = 1
      /\ legs'[r].credit + legs'[r].refund = 1
  BY <1>1, <1>5
<1>7. Held(r) = [from |-> SenderAccount(r), to |-> ReceiverAccount(r), amount |-> Amount(r)]
  BY <1>1 DEF Held
<1>8. Held(r)' = [from |-> 0, to |-> 0, amount |-> 0] BY <1>6 DEF Held
<1> QED BY <1>1, <1>3, <1>4, <1>5, <1>7, <1>8

(* Nothing but the commit of a leg moves money.                            *)
LEMMA OnlyLegCommitsMove ==
  ASSUME NEW r \in Payers, PaymentStep(r) \/ DatabaseError(r),
         ~DebitCommit(r), ~CreditCommit(r), ~RefundCommit(r)
  PROVE  UNCHANGED <<call, legs, credits, debits>>
<1>1. CASE KeyStep(r) \/ StatusStep(r) \/ DatabaseError(r)
  BY <1>1
  DEF KeyStep, FindKey, FindNoKey, CreateKey, DuplicateKey, CacheAnswer, StatusStep,
      Validate, Refuse, CreatePayment, StartProcessing, FailDebit, FailCredit, Succeed,
      Finish, DatabaseError, Move, tables, ledgerVars, dbVars
<1>2. CASE DebitStep(r) \/ CreditStep(r) \/ RefundStep(r)
  BY <1>2
  DEF DebitStep, CreditStep, RefundStep, AskSender, AskReceiver, AskRefund, EnterDebit,
      EnterCredit, EnterRefund, DebitRead, CreditRead, RefundRead, DebitInsert,
      CreditInsert, RefundInsert, DebitInactive, DebitInsufficient, CreditInactive, Ask,
      Enter, ReadLeg, InsertLeg, LeaveLeg, Move, tables, ledgerVars, dbVars
<1> QED BY <1>1, <1>2 DEF PaymentStep

LEMMA OthersMoveNothing ==
  ASSUME Freeze \/ ServerCrash \/ UNCHANGED payVars
  PROVE  UNCHANGED <<call, legs, credits, debits>>
BY DEF Freeze, SetStatus, ServerCrash, LedgerLost, PaymentsLost, payVars, paymentVars,
       tables, ledgerVars, dbVars

LEMMA PaymentsBankStep ==
  PaymentsInv /\ [PaymentsNext]_payVars => [PaymentsBank!Next]_PaymentsBank!vars
<1> SUFFICES ASSUME PaymentsInv, [PaymentsNext]_payVars
             PROVE  [PaymentsBank!Next]_PaymentsBank!vars
  OBVIOUS
<1> DEFINE held == [u \in Payers |-> Held(u)]
<1>1. \A a \in Accounts : Balance(a) \in Int /\ Funds[a] = Balance(a)
  BY DEF PaymentsInv, LedgerInv, LedgerTypeOK, Balance, Funds
<1>2. ASSUME NEW r \in Payers, DebitCommit(r) PROVE PaymentsBank!Next
  <2>1. PICK a \in Accounts, b \in Accounts, n \in Nat \ {0} :
          /\ n <= Balance(a)
          /\ Funds' = [Funds EXCEPT ![a] = @ - n]
          /\ Held(r) = [from |-> 0, to |-> 0, amount |-> 0]
          /\ Held(r)' = [from |-> a, to |-> b, amount |-> n]
          /\ \A u \in Payers \ {r} : Held(u)' = Held(u)
    BY <1>2, DebitTakesMoney
  <2>2. held' = [held EXCEPT ![r] = [from |-> a, to |-> b, amount |-> n]] BY <2>1
  <2>3. held[r] = [from |-> 0, to |-> 0, amount |-> 0] BY <2>1
  <2>4. n \in 1 .. Funds[a] BY <1>1, <2>1
  <2> HIDE DEF held
  <2>5. PaymentsBank!Debit(r, a, b, n)
    BY <1>1, <2>1, <2>2, <2>3
    DEF PaymentsBank!Debit, PaymentsBank!NoMoney, Funds, held, Held
  <2> QED BY <2>4, <2>5 DEF PaymentsBank!Next, Funds
<1>3. ASSUME NEW r \in Payers, CreditCommit(r) \/ RefundCommit(r) PROVE PaymentsBank!Next
  <2>1. PICK from \in Accounts, to \in Accounts, n \in Nat \ {0}, a \in Accounts :
          /\ a \in {from, to}
          /\ Funds' = [Funds EXCEPT ![a] = @ + n]
          /\ Held(r) = [from |-> from, to |-> to, amount |-> n]
          /\ Held(r)' = [from |-> 0, to |-> 0, amount |-> 0]
          /\ \A u \in Payers \ {r} : Held(u)' = Held(u)
    BY <1>3, CreditHandsOver
  <2>2. /\ held[r].amount = n /\ held[r].from = from /\ held[r].to = to
        /\ held[r] # [from |-> 0, to |-> 0, amount |-> 0]
    BY <2>1
  <2>3. held' = [held EXCEPT ![r] = [from |-> 0, to |-> 0, amount |-> 0]] BY <2>1
  <2> HIDE DEF held
  <2>4. /\ held[r] # [from |-> 0, to |-> 0, amount |-> 0]
        /\ Funds' = [Funds EXCEPT ![a] = @ + held[r].amount]
    BY <2>1, <2>2
  <2>5. CASE a = to
    <3>1. a = held[r].to BY <2>2, <2>5
    <3>2. PaymentsBank!Deliver(r)
      BY <2>3, <2>4, <3>1
      DEF PaymentsBank!Deliver, PaymentsBank!HandOver, PaymentsBank!NoMoney, Funds, held,
          Held
    <3> QED BY <3>2 DEF PaymentsBank!Next
  <2>6. CASE a = from
    <3>1. a = held[r].from BY <2>2, <2>6
    <3>2. PaymentsBank!Refund(r)
      BY <2>3, <2>4, <3>1
      DEF PaymentsBank!Refund, PaymentsBank!HandOver, PaymentsBank!NoMoney, Funds, held,
          Held
    <3> QED BY <3>2 DEF PaymentsBank!Next
  <2> QED BY <2>1, <2>5, <2>6
<1>4. UNCHANGED <<call, legs, credits, debits>> => UNCHANGED PaymentsBank!vars
  BY DEF PaymentsBank!vars, Balance, SenderAccount, ReceiverAccount, Amount, Body
<1>5. Freeze \/ ServerCrash \/ UNCHANGED payVars => UNCHANGED <<call, legs, credits, debits>>
  BY OthersMoveNothing
<1> QED BY <1>2, <1>3, <1>4, <1>5, OnlyLegCommitsMove DEF PaymentsNext

LEMMA BankOpens == PaymentsInit => PaymentsBank!Init
<1> SUFFICES ASSUME PaymentsInit PROVE PaymentsBank!Init
  OBVIOUS
<1>1. [a \in Accounts |-> Balance(a)] = Opening
  <2>1. credits = Opening /\ debits = [a \in Accounts |-> 0]
    BY DEF PaymentsInit, LedgerInit
  <2>2. Opening \in [Accounts -> Nat] BY LedgerAssumption
  <2>3. \A a \in Accounts : Balance(a) = Opening[a] BY <2>1, <2>2 DEF Balance
  <2> QED BY <2>2, <2>3
<1>2. \A r \in Payers : Held(r) = PaymentsBank!NoMoney
  BY DEF PaymentsInit, Held, PaymentsBank!NoMoney
<1> QED BY <1>1, <1>2 DEF PaymentsBank!Init, Held

(* A payment takes its money out of the sender's account and hands it to   *)
(* the receiver or back, and never more than there was.                    *)
THEOREM PaymentsRefineBank == PaymentsSpec => PaymentsImplementBank
BY BankOpens, PaymentsBankStep, AlwaysPaymentsInv, PTL
  DEF PaymentsSpec, PaymentsImplementBank, PaymentsBank!Spec

-----------------------------------------------------------------------------
(***************************************************************************)
(* Transfers and payments over the same accounts.  What TransfersProofs    *)
(* shows of the transfers' own behaviours is instantiated here: no seed    *)
(* script runs, and nobody asks for a balance.                             *)
(***************************************************************************)
TP == INSTANCE TransfersProofs WITH
  spc <- [s \in Seeders |-> "idle"],
  Readers <- {}, stage <- <<>>, asked <- <<>>, total <- <<>>, answer <- <<>>

PayUpInv == PaymentsInv /\ TP!Inv

(* The two instances of Transfers over the same variables: what T of PayUp *)
(* means is what TP's theorems are about.                                  *)
LEMMA SameTransfers == TP!TransfersAssumption
BY PayUpAssumption DEF TP!TransfersAssumption

LEMMA SameLedger == /\ LedgerInv <=> TP!LedgerInv
                    /\ LedgerInv' <=> TP!LedgerInv'
BY DEF LedgerInv, LedgerTypeOK, SumsReadHold, PendingEntriesHold, NoOverdraft,
       RunningBalance, Holds, Balance, AmountOf, NoEntry, Entries, NotPosting, Statuses,
       TP!LedgerInv, TP!LedgerTypeOK, TP!SumsReadHold, TP!PendingEntriesHold,
       TP!NoOverdraft, TP!RunningBalance, TP!Holds, TP!Balance, TP!AmountOf, TP!NoEntry,
       TP!Entries, TP!NotPosting, TP!Statuses

LEMMA SameSteps ==
  /\ \A t : T!TransferStep(t) <=> TP!TransferStep(t)
  /\ \A t : T!DbError(t) <=> TP!DbError(t)
<1> USE DEF T!dbVars, TP!dbVars, T!sessionVars, TP!sessionVars, T!ledgerVars,
            TP!ledgerVars, T!Goto, TP!Goto, T!Holds, TP!Holds, T!Release, TP!Release,
            T!Seen, TP!Seen, T!Load, TP!Load, T!LockOrder, TP!LockOrder, T!Join, TP!Join
<1>1. \A t : T!Start(t) <=> TP!Start(t)
  BY DEF T!Start, TP!Start, T!Requests, TP!Requests, T!Accepted, TP!Accepted
<1>2. \A t : T!Refuse(t) <=> TP!Refuse(t)
  BY DEF T!Refuse, TP!Refuse, T!Requests, TP!Requests, T!Accepted, TP!Accepted
<1>3. \A t : T!AskFirst(t) <=> TP!AskFirst(t)
  BY DEF T!AskFirst, TP!AskFirst
<1>4. \A t : T!AskSecond(t) <=> TP!AskSecond(t)
  BY DEF T!AskSecond, TP!AskSecond
<1>5. \A t : T!Enter(t) <=> TP!Enter(t)
  BY DEF T!Enter, TP!Enter
<1>6. \A t : T!DebitRead(t) <=> TP!DebitRead(t)
  BY DEF T!DebitRead, TP!DebitRead, T!PostEntryRead, TP!PostEntryRead, T!ReadCredits,
         TP!ReadCredits
<1>7. \A t : T!DebitInsert(t) <=> TP!DebitInsert(t)
  BY DEF T!DebitInsert, TP!DebitInsert, T!InsertEntry, TP!InsertEntry,
         T!InsufficientFunds, TP!InsufficientFunds, T!NewEntry, TP!NewEntry,
         T!BalanceSeen, TP!BalanceSeen, T!NotPosting, TP!NotPosting
<1>8. \A t : T!CreditRead(t) <=> TP!CreditRead(t)
  BY DEF T!CreditRead, TP!CreditRead, T!PostEntryRead, TP!PostEntryRead, T!ReadCredits,
         TP!ReadCredits
<1>9. \A t : T!CreditInsert(t) <=> TP!CreditInsert(t)
  BY DEF T!CreditInsert, TP!CreditInsert, T!InsertEntry, TP!InsertEntry,
         T!InsufficientFunds, TP!InsufficientFunds, T!NewEntry, TP!NewEntry,
         T!BalanceSeen, TP!BalanceSeen, T!NotPosting, TP!NotPosting
<1>10. \A t : T!Commit(t) <=> TP!Commit(t)
  BY DEF T!Commit, TP!Commit, T!CommitEntries, TP!CommitEntries, T!AmountOf,
         TP!AmountOf, T!NoEntry, TP!NoEntry, T!NoEntries, TP!NoEntries
<1>11. \A t, s : T!Abandon(t, s) <=> TP!Abandon(t, s)
  BY DEF T!Abandon, TP!Abandon, T!CloseSession, TP!CloseSession, T!Unloaded,
         TP!Unloaded, T!NotPosting, TP!NotPosting, T!NoEntry, TP!NoEntry, T!NoEntries,
         TP!NoEntries
<1>12. \A t : T!Reject(t) <=> TP!Reject(t)
  BY <1>11
  DEF T!Reject, TP!Reject, T!InsufficientFunds, TP!InsufficientFunds, T!BalanceSeen,
      TP!BalanceSeen
<1>13. \A t : T!DbError(t) <=> TP!DbError(t)
  BY <1>11 DEF T!DbError, TP!DbError, T!Critical, TP!Critical
<1> QED
  BY <1>1, <1>2, <1>3, <1>4, <1>5, <1>6, <1>7, <1>8, <1>9, <1>10, <1>12, <1>13
  DEF T!TransferStep, TP!TransferStep

(* A payment touches no other process's session or locks.                  *)
LEMMA PaymentLeavesOthers ==
  ASSUME PaymentsInv, NEW r \in Payers, PaymentStep(r) \/ DatabaseError(r)
  PROVE  LeavesOthers(r)
<1>1. /\ r \in Procs /\ r \notin Seeders /\ LedgerTypeOK
      /\ pc[r] \in Validated =>
           SenderAccount(r) \in Accounts /\ ReceiverAccount(r) \in Accounts
  BY RequestType, LegType DEF PaymentsInv, LedgerInv
<1>2. UNCHANGED <<queue, sessionVars>> => LeavesOthers(r)
  BY DEF LeavesOthers, Holds, sessionVars
<1>3. CASE DatabaseError(r)
  BY <1>1, <1>3, SessionSteps DEF DatabaseError
<1>4. CASE KeyStep(r)
  <2>1. CASE CacheAnswer(r)
    BY <1>1, <2>1, SessionSteps DEF CacheAnswer
  <2>2. CASE ~CacheAnswer(r)
    BY <1>2, <1>4, <2>2 DEF KeyStep, FindKey, FindNoKey, CreateKey, DuplicateKey, ledgerVars
  <2> QED BY <2>1, <2>2
<1>5. CASE StatusStep(r)
  <2>1. CASE Validate(r)
    BY <1>1, <2>1, SessionSteps DEF Validate
  <2>2. CASE ~Validate(r)
    BY <1>2, <1>5, <2>2 DEF StatusStep, Refuse, CreatePayment, StartProcessing, FailDebit,
       FailCredit, Succeed, Finish, ledgerVars
  <2> QED BY <2>1, <2>2
<1>6. ASSUME NEW a, NEW from \in Validated, NEW to,
             a \in {SenderAccount(r), ReceiverAccount(r)},
             \/ Ask(r, a, from, to) \/ Enter(r, a, from, to) \/ ReadLeg(r, a, from, to)
             \/ InsertLeg(r, "DEBIT", from, to) \/ InsertLeg(r, "CREDIT", from, to)
             \/ (\E leg : CommitLeg(r, leg, from, to))
             \/ LeaveLeg(r, from, to)
      PROVE  LeavesOthers(r)
  <2>1. CASE Ask(r, a, from, to)
    <3>1. pc[r] \in Validated /\ Join(r, a) /\ UNCHANGED sessionVars
      BY <2>1 DEF Ask, Move
    <3>2. \A q \in Procs \ {r} : /\ posting'[q] = posting[q] /\ pending'[q] = pending[q]
                                 /\ identity'[q] = identity[q]
      BY <3>1 DEF sessionVars
    <3> QED BY <1>1, <1>6, <3>1, <3>2, OwnSession
  <2>2. CASE Enter(r, a, from, to)
    BY <1>2, <2>2 DEF Enter, ledgerVars
  <2>3. CASE ReadLeg(r, a, from, to)
    BY <1>1, <2>3, SessionSteps DEF ReadLeg
  <2>4. CASE InsertLeg(r, "DEBIT", from, to) \/ InsertLeg(r, "CREDIT", from, to)
    BY <1>1, <2>4, SessionSteps DEF InsertLeg
  <2>5. CASE \E leg : CommitLeg(r, leg, from, to)
    BY <1>1, <2>5, SessionSteps DEF CommitLeg
  <2>6. CASE LeaveLeg(r, from, to)
    <3>1. \A q \in Procs \ {r} : /\ posting'[q] = posting[q] /\ pending'[q] = pending[q]
                                 /\ identity'[q] = identity[q]
      BY <1>1, <2>6 DEF LeaveLeg, LedgerTypeOK
    <3> QED BY <1>1, <2>6, <3>1, OwnSession DEF LeaveLeg
  <2> QED BY <1>6, <2>1, <2>2, <2>3, <2>4, <2>5, <2>6
<1>7. {"askSender", "waitSender", "debit", "debitSum", "debitCommit", "askReceiver",
       "waitReceiver", "credit", "creditSum", "creditCommit", "askRefund", "waitRefund",
       "refund", "refundSum", "refundCommit"} \subseteq Validated
  BY DEF Validated, Serving, Places, Closed, Queueing, Waiting, Debiting, Crediting, Refunding
<1>8. CASE DebitStep(r)
  <2>1. CASE AskSender(r) \/ EnterDebit(r)
    BY <1>6, <1>7, <2>1 DEF AskSender, EnterDebit
  <2>4. CASE DebitRead(r) \/ DebitInsert(r)
    BY <1>6, <1>7, <2>4 DEF DebitRead, DebitInsert
  <2>2. CASE DebitCommit(r)
    BY <1>6, <1>7, <2>2 DEF DebitCommit
  <2>3. CASE DebitInactive(r) \/ DebitInsufficient(r)
    BY <1>6, <1>7, <2>3 DEF DebitInactive, DebitInsufficient
  <2> QED BY <1>8, <2>1, <2>2, <2>3, <2>4 DEF DebitStep
<1>9. CASE CreditStep(r)
  <2>1. CASE AskReceiver(r) \/ EnterCredit(r)
    BY <1>6, <1>7, <2>1 DEF AskReceiver, EnterCredit
  <2>4. CASE CreditRead(r) \/ CreditInsert(r)
    BY <1>6, <1>7, <2>4 DEF CreditRead, CreditInsert
  <2>2. CASE CreditCommit(r)
    BY <1>6, <1>7, <2>2 DEF CreditCommit
  <2>3. CASE CreditInactive(r)
    BY <1>6, <1>7, <2>3 DEF CreditInactive
  <2> QED BY <1>9, <2>1, <2>2, <2>3, <2>4 DEF CreditStep
<1>10. CASE RefundStep(r)
  <2>1. CASE AskRefund(r) \/ EnterRefund(r)
    BY <1>6, <1>7, <2>1 DEF AskRefund, EnterRefund
  <2>2. CASE RefundRead(r) \/ RefundInsert(r)
    BY <1>6, <1>7, <2>2 DEF RefundRead, RefundInsert
  <2>3. CASE RefundCommit(r)
    BY <1>6, <1>7, <2>3 DEF RefundCommit
  <2> QED BY <1>10, <2>1, <2>2, <2>3 DEF RefundStep
<1> QED BY <1>3, <1>4, <1>5, <1>8, <1>9, <1>10 DEF PaymentStep

(* What another process does to the ledger leaves the payments as they     *)
(* stand.                                                                  *)
LEMMA ForeignStep ==
  ASSUME PaymentsInv, NEW p \in Procs \ Payers, LeavesOthers(p),
         UNCHANGED paymentVars, LedgerInv'
  PROVE  PaymentsInv'
<1>1. UNCHANGED <<call, pc, reply, keyRow, paid, legs, events, audit>>
  BY DEF paymentVars, tables
<1>2. PaymentsTypeOK' BY <1>1 DEF PaymentsInv, PaymentsTypeOK, LedgerInv
<1>3. ASSUME NEW r \in Payers PROVE Saga(r)' /\ Leg(r)'
  <2>1. Saga(r) /\ Leg(r) BY DEF PaymentsInv
  <2>2. Saga(r)' BY <1>1, <2>1, RowsStand DEF Saga, Success
  <2>3. r \in Procs \ {p} BY RequestType DEF PaymentsInv
  <2>4. /\ posting'[r] = posting[r] /\ pending'[r] = pending[r]
        /\ identity'[r] = identity[r]
        /\ \A b \in Accounts : Holds(r, b) => Holds(r, b)'
    BY <2>3 DEF LeavesOthers
  <2>5. pc[r] \in Debiting \cup Crediting \cup Refunding =>
          LegAccount(r) \in Accounts /\ Holds(r, LegAccount(r))
    BY <2>1, LegType
       DEF Leg, Validated, Serving, Places, Closed, Debiting, Crediting, Refunding
  <2>6. LegAccount(r)' = LegAccount(r)
    BY <1>1 DEF LegAccount, SenderAccount, ReceiverAccount, Body
  <2>7. pc[r] \in Debiting \cup Crediting \cup Refunding => Holds(r, LegAccount(r))'
    BY <2>4, <2>5, <2>6 DEF Holds
  <2>8. Leg(r)'
    BY <1>1, <2>1, <2>4, <2>6, <2>7
    DEF Leg, OnlyPending, SenderAccount, ReceiverAccount, Amount, Body
  <2> QED BY <2>2, <2>8
<1>4. KeyInv'
  BY <1>1 DEF PaymentsInv, KeyInv, Owns, Completed, SnapshotTrue, Key, Body
<1> QED BY <1>2, <1>3, <1>4 DEF PaymentsInv

-----------------------------------------------------------------------------
LEMMA InitPayUp == PayUpInit => PayUpInv
<1> SUFFICES ASSUME PayUpInit PROVE PayUpInv
  OBVIOUS
<1>1. PaymentsInv BY InitPayments DEF PayUpInit
<1>2. TP!Init
  BY DEF PayUpInit, PaymentsInit, T!TransfersInit, TP!Init, TP!TransfersInit,
     T!NoRequest, TP!NoRequest, LedgerInit, TP!LedgerInit, Statuses, TP!Statuses,
     NoEntries, TP!NoEntries, NoEntry, TP!NoEntry, Unloaded, TP!Unloaded,
     NotPosting, TP!NotPosting
<1>3. TP!Inv
  BY <1>2, TP!InitInv, SameTransfers, LedgerAssumption, PayUpAssumption
<1> QED BY <1>1, <1>3 DEF PayUpInv

(* A step of a payment is nothing to a transfer.                           *)
LEMMA PayerKeeps ==
  ASSUME PayUpInv, NEW r \in Payers, PaymentStep(r) \/ DatabaseError(r),
         UNCHANGED <<tpc, treq>>
  PROVE  PayUpInv'
<1>1. PaymentsInv' BY NextPayments DEF PaymentsNext, PayUpInv
<1>2. LeavesOthers(r) BY PaymentLeavesOthers DEF PayUpInv
<1>3. r \in Procs /\ r \notin Transferers /\ r \notin Seeders
  BY PaymentsAssumption, PayUpAssumption
<1>4. TP!LedgerInv' BY <1>1, SameLedger DEF PaymentsInv
<1>5. TP!TransfersTypeOK'
  BY DEF PayUpInv, TP!Inv, TP!TransfersTypeOK
<1>6. /\ TP!Inv
      /\ \A u \in Transferers \ {r} : tpc'[u] = tpc[u] /\ treq'[u] = treq[u]
      /\ \A q \in Procs \ {r} : posting'[q] = posting[q] /\ pending'[q] = pending[q]
      /\ \A u \in Procs \ {r}, b \in Accounts : TP!Holds(u, b) => TP!Holds(u, b)'
  BY <1>2 DEF PayUpInv, LeavesOthers, Holds, TP!Holds
<1>7. /\ \A u \in Transferers \ {r} :
            TP!LocksTaken(u)' /\ TP!SumRead(u)' /\ TP!EntriesPending(u)'
      /\ \A s \in Seeders \ {r} : TP!SeedPending(s)'
  BY <1>3, <1>6, TP!OthersKept, SameTransfers, LedgerAssumption, PayUpAssumption
<1> QED BY <1>1, <1>3, <1>4, <1>5, <1>7 DEF PayUpInv, TP!Inv

(* Nor is a step of a transfer anything to a payment.                      *)
LEMMA TransferKeeps ==
  ASSUME PayUpInv, NEW t \in Transferers, T!TransferStep(t) \/ T!DbError(t),
         UNCHANGED paymentVars
  PROVE  PayUpInv'
<1>1. TP!TransferStep(t) \/ TP!DbError(t) BY SameSteps
<1>2. TP!Inv /\ TP!Next BY <1>1 DEF PayUpInv, TP!Next, TP!LiveStep
<1>3. TP!Inv' BY <1>2, TP!NextInv, SameTransfers, LedgerAssumption, PayUpAssumption
<1>4. t \in Procs \ Payers BY PayUpAssumption
<1>5. TP!LeavesOthers(t)
  BY <1>1, <1>2, TP!TransferLeavesOthers, SameTransfers, LedgerAssumption, PayUpAssumption
<1>6. LeavesOthers(t)
  BY <1>5 DEF LeavesOthers, TP!LeavesOthers, Holds, TP!Holds
<1>7. LedgerInv' BY <1>3, SameLedger DEF TP!Inv
<1> QED BY <1>3, <1>4, <1>6, <1>7, ForeignStep DEF PayUpInv

(* The locks, sums, entries, sagas and keys of transfers and payments keep *)
(* standing as PayUpInv says, whichever of them takes a step.              *)
LEMMA NextPayUp == PayUpInv /\ [PayUpNext]_allVars => PayUpInv'
<1> SUFFICES ASSUME PayUpInv, [PayUpNext]_allVars PROVE PayUpInv'
  OBVIOUS
<1>1. ASSUME NEW r \in Payers,
             PayerResumes(r) \/ (DatabaseError(r) /\ UNCHANGED <<tpc, treq>>)
      PROVE  PayUpInv'
  BY <1>1, PayerKeeps DEF PayerResumes, PayerStep, PoolTimeout
<1>2. ASSUME NEW t \in Transferers,
             TransferResumes(t) \/ (T!DbError(t) /\ UNCHANGED paymentVars)
      PROVE  PayUpInv'
  BY <1>2, TransferKeeps DEF TransferResumes
<1>3. ASSUME Freeze, UNCHANGED <<tpc, treq>> PROVE PayUpInv'
  <2>1. PaymentsInv' BY <1>3, FreezeStep DEF PayUpInv
  <2>2. TP!Inv /\ TP!Operator
    BY <1>3 DEF PayUpInv, Freeze, TP!Operator, SetStatus, TP!SetStatus, TP!transferVars,
       Statuses, TP!Statuses, sessionVars, TP!sessionVars
  <2>3. TP!Inv'
    BY <2>2, TP!OperatorStep, SameTransfers, LedgerAssumption, PayUpAssumption
  <2> QED BY <2>1, <2>3 DEF PayUpInv
<1>4. ASSUME ServerDies PROVE PayUpInv'
  <2>1. PaymentsInv' BY <1>4, ServerCrashStep DEF ServerDies, PayUpInv
  <2>2. TP!LedgerLost
    BY <1>4 DEF ServerDies, ServerCrash, LedgerLost, TP!LedgerLost,
       Unloaded, TP!Unloaded, NotPosting, TP!NotPosting, NoEntries, TP!NoEntries,
       NoEntry, TP!NoEntry, dbVars, TP!dbVars
  <2>3. TP!TransfersLost
    BY <1>4 DEF ServerDies, T!TransfersLost, TP!TransfersLost, T!Ended, TP!Ended
  <2>4. TP!Inv'
    BY <2>2, <2>3, TP!CrashStep, SameTransfers, LedgerAssumption, PayUpAssumption
       DEF PayUpInv, TP!Crash
  <2> QED BY <2>1, <2>4 DEF PayUpInv
<1>5. CASE UNCHANGED allVars
  <2>1. PaymentsInv' BY <1>5, NextPayments DEF PayUpInv, allVars
  <2>2. UNCHANGED TP!vars
    BY <1>5 DEF allVars, payVars, TP!vars, TP!transferVars, ledgerVars, TP!ledgerVars,
       dbVars, TP!dbVars, sessionVars, TP!sessionVars
  <2>3. TP!Inv'
    BY <2>2, TP!NextInv, SameTransfers, LedgerAssumption, PayUpAssumption DEF PayUpInv
  <2> QED BY <2>1, <2>3 DEF PayUpInv
<1> QED BY <1>1, <1>2, <1>3, <1>4, <1>5 DEF PayUpNext, Fails

LEMMA AlwaysPayUpInv == PayUpSpec => []PayUpInv
BY InitPayUp, NextPayUp, PTL DEF PayUpSpec

(* The account locks keep transfers and payments together from overdrawing *)
(* an account, whatever the pool, the errors and the crashes do.           *)
THEOREM PayUpNeverOverdraws == PayUpSpec => []NoOverdraft
<1>1. PayUpInv => NoOverdraft BY DEF PayUpInv, PaymentsInv, LedgerInv
<1> QED BY <1>1, AlwaysPayUpInv, PTL

(* The newest entry of an account tells its balance, whichever of the two  *)
(* kinds of request wrote it.                                              *)
THEOREM PayUpRunningBalance == PayUpSpec => []RunningBalance
<1>1. PayUpInv => RunningBalance BY DEF PayUpInv, PaymentsInv, LedgerInv
<1> QED BY <1>1, AlwaysPayUpInv, PTL

(* Money, keys, answers and events of the payments are as they are without *)
(* transfers: a transfer that shares their accounts, locks and connections *)
(* spoils none of it, nor does a pool that times out.                      *)
THEOREM PayUpKeepsPayments ==
  PayUpSpec => [](/\ PaymentsTypeOK /\ StatusTellsMoney /\ OnePaymentPerKey
                  /\ AnswersTrue /\ RefundNotRefused /\ EventsTellPayment)
<1>1. PayUpInv => PaymentsInv /\ PaymentsTypeOK BY DEF PayUpInv, PaymentsInv
<1> QED
  BY <1>1, StatusTold, ServedOnce, AnswersTold, RefundAllowed, EventsTold, AlwaysPayUpInv,
     PTL

-----------------------------------------------------------------------------
(* What a step of PayUp is to the payments: one of their own, or nothing.  *)
LEMMA PaymentsAlone ==
  ASSUME [PayUpNext]_allVars
  PROVE  \/ [PaymentsNext]_payVars
         \/ UNCHANGED paymentVars
            /\ \E t \in Transferers : T!TransferStep(t) \/ T!DbError(t)
BY DEF PayUpNext, PayerResumes, PayerStep, PoolTimeout, TransferResumes, Fails,
   ServerDies, PaymentsNext, allVars

(* A client is told the truth once and for all, next to transfers too.     *)
THEOREM PayUpKeepsIdempotency == PayUpSpec => PaymentsImplementIdempotency
<1>1. PayUpInit => TheEndpoint!IdempotencyInit BY NothingClaimed DEF PayUpInit
<1>2. PayUpInv /\ [PayUpNext]_allVars => [TheEndpoint!IdempotencyNext]_TheEndpoint!idemVars
  <2> SUFFICES ASSUME PayUpInv, [PayUpNext]_allVars
               PROVE  [TheEndpoint!IdempotencyNext]_TheEndpoint!idemVars
    OBVIOUS
  <2>1. CASE [PaymentsNext]_payVars BY <2>1, IdempotencyStep DEF PayUpInv
  <2>2. CASE UNCHANGED paymentVars
    BY <2>2 DEF paymentVars, tables, TheEndpoint!idemVars
  <2> QED BY <2>1, <2>2, PaymentsAlone
<1> QED
  BY <1>1, <1>2, AlwaysPayUpInv, PTL
  DEF PayUpSpec, PaymentsImplementIdempotency, TheEndpoint!IdempotencySpec

(* Transfers and payments together are one bank: a transfer moves money at *)
(* once, a payment takes it and hands it on or back, and nothing else that *)
(* happens over the same accounts shows.                                   *)
THEOREM PayUpRefinesBank == PayUpSpec => PaymentsImplementBank
<1>1. PayUpInit => PaymentsBank!Init BY BankOpens DEF PayUpInit
<1>2. PayUpInv /\ [PayUpNext]_allVars => [PaymentsBank!Next]_PaymentsBank!vars
  <2> SUFFICES ASSUME PayUpInv, [PayUpNext]_allVars
               PROVE  [PaymentsBank!Next]_PaymentsBank!vars
    OBVIOUS
  <2>1. CASE [PaymentsNext]_payVars BY <2>1, PaymentsBankStep DEF PayUpInv
  <2>2. ASSUME NEW t \in Transferers, TP!TransferStep(t) \/ TP!DbError(t),
               UNCHANGED paymentVars
        PROVE  [PaymentsBank!Next]_PaymentsBank!vars
    <3>1. CASE TP!Commit(t)
      <4>1. PICK from \in Accounts, to \in Accounts, n \in Nat \ {0} :
              /\ from # to /\ n <= Balance(from)
              /\ \A b \in Accounts : Balance(b) \in Int
              /\ Balance(from)' = Balance(from) - n
              /\ Balance(to)' = Balance(to) + n
              /\ \A b \in Accounts \ {from, to} : Balance(b)' = Balance(b)
        BY <3>1, TP!CommitMoves, SameTransfers, LedgerAssumption, PayUpAssumption
           DEF PayUpInv, TP!Balance, Balance
      <4>2. Funds' = [Funds EXCEPT ![from] = @ - n, ![to] = @ + n]
        <5> DEFINE new == [Funds EXCEPT ![from] = @ - n, ![to] = @ + n]
        <5>1. ASSUME NEW b \in Accounts PROVE Balance(b)' = new[b]
          BY <4>1 DEF Funds
        <5> QED BY <5>1 DEF Funds
      <4>3. UNCHANGED [r \in Payers |-> Held(r)]
        BY <2>2 DEF paymentVars, tables, Held, SenderAccount, ReceiverAccount, Amount, Body
      <4>4. n \in 1 .. Funds[from] BY <4>1 DEF Funds
      <4>5. PaymentsBank!Transfer(from, to, n)
        BY <4>1, <4>2, <4>3 DEF PaymentsBank!Transfer, Funds, Held
      <4> QED BY <4>1, <4>4, <4>5 DEF PaymentsBank!Next, Funds
    <3>2. CASE ~TP!Commit(t)
      <4>1. UNCHANGED <<credits, debits>>
        BY <2>2, <3>2, TP!OnlyCommitMoves, SameTransfers, LedgerAssumption, PayUpAssumption
      <4> QED BY <4>1, <2>2
              DEF paymentVars, tables, PaymentsBank!vars, Balance, SenderAccount,
                  ReceiverAccount, Amount, Body
    <3> QED BY <3>1, <3>2
  <2> QED BY <2>1, <2>2, PaymentsAlone, SameSteps
<1> QED
  BY <1>1, <1>2, AlwaysPayUpInv, PTL
  DEF PayUpSpec, PaymentsImplementBank, PaymentsBank!Spec

-----------------------------------------------------------------------------
(***************************************************************************)
(* SumFunction, which BalancesExplained adds up with, is defined by a      *)
(* CHOOSE of a recursive function on the subsets of a set.  That there is  *)
(* one on a finite set, and what it does when one term changes, follows by *)
(* induction on the subsets; the induction is carried by sets of subsets,  *)
(* and rests on well-founded relations having minimal elements.            *)
(***************************************************************************)
(* The numbers are well founded.                                           *)
LEMMA Smallest ==
  ASSUME NEW S \in SUBSET Nat, S # {}
  PROVE  \E n \in S : \A m \in S : n <= m
<1> DEFINE R == {ss \in Nat \X Nat : ss[1] < ss[2]}
<1>1. R = OpToRel(<, Nat)
  BY Zenon DEF OpToRel
<1>2. IsWellFoundedOn(R, Nat)
  BY <1>1, NatLessThanWellFounded, Zenon
<1>3. \A m, n \in Nat : m < n => <<m, n>> \in R
  OBVIOUS
<1> HIDE DEF R
<1>4. PICK n \in S : \A m \in S : ~ (<<m, n>> \in R)
  BY <1>2, WFMin, Zenon
<1>5. \A m \in S : ~ (m < n)
  BY <1>3, <1>4
<1> QED BY <1>5

(* Induction on the numbers, for a set of them.                            *)
LEMMA NumbersByInduction ==
  ASSUME NEW S \in SUBSET Nat, 0 \in S, \A n \in S : n + 1 \in S
  PROVE  S = Nat
<1> SUFFICES ASSUME Nat \ S # {} PROVE FALSE
  OBVIOUS
<1>1. PICK n \in Nat \ S : \A m \in Nat \ S : n <= m
  BY Smallest
<1>2. n - 1 \in Nat /\ n - 1 \in S
  BY <1>1
<1> QED BY <1>1, <1>2

(* The element FoldFunctionOnSet takes out of s first.                     *)
Pick(s) == CHOOSE x \in s : TRUE

LEMMA PickIn == ASSUME NEW s, s # {} PROVE Pick(s) \in s
BY DEF Pick

(* Induction on the subsets of a finite set, for a set G of them.          *)
LEMMA SubsetsByInduction ==
  ASSUME NEW S, IsFiniteSet(S), NEW G \in SUBSET SUBSET S, {} \in G,
         \A V \in SUBSET S : V # {} /\ V \ {Pick(V)} \in G => V \in G
  PROVE  G = SUBSET S
<1> DEFINE Bad == (SUBSET S) \ G
<1>1. IsWellFoundedOn(StrictSubsetOrdering(S), SUBSET S)
  BY FS_StrictSubsetOrderingWellFounded, FS_FiniteSubsetsOfFinite
<1> SUFFICES ASSUME Bad # {} PROVE FALSE
  OBVIOUS
<1>a. Bad \subseteq SUBSET S /\ Bad # {}
  OBVIOUS
<1> HIDE DEF Bad
<1>2. PICK V \in Bad : \A U \in Bad : ~ (<<U, V>> \in StrictSubsetOrdering(S))
  <2> DEFINE R == StrictSubsetOrdering(S)
             P == SUBSET S
  <2>1. IsWellFoundedOn(R, P) /\ Bad \subseteq P /\ Bad # {}
    BY <1>1, <1>a
  <2> HIDE DEF R, P
  <2>2. \E V \in Bad : \A U \in Bad : ~ (<<U, V>> \in R)
    BY <2>1, WFMin, Zenon
  <2> QED BY <2>2 DEF R
<1>3. V \in SUBSET S /\ V \notin G /\ V # {}
  BY DEF Bad
<1>4. Pick(V) \in V
  BY <1>3, PickIn
<1>5. <<V \ {Pick(V)}, V>> \in StrictSubsetOrdering(S)
  BY <1>3, <1>4 DEF StrictSubsetOrdering
<1>6. V \ {Pick(V)} \in G
  BY <1>2, <1>3, <1>5 DEF Bad
<1> QED BY <1>3, <1>6

(* The sum over s, if h has the sums over the smaller sets.                *)
SumStep(f, h, s) == IF s = {} THEN 0 ELSE f[Pick(s)] + h[s \ {Pick(s)}]

(* The recursive function is there: it is built up by the size of the      *)
(* subsets.                                                                *)
LEMMA SumsExist ==
  ASSUME NEW S, IsFiniteSet(S), NEW f
  PROVE  \E h : h = [s \in SUBSET S |-> SumStep(f, h, s)]
<1> DEFINE Small(n) == {s \in SUBSET S : Cardinality(s) <= n}
           Sums(n, h) == h = [s \in Small(n) |-> SumStep(f, h, s)]
           N == {n \in Nat : \E h : Sums(n, h)}
<1>0. \A s \in SUBSET S : /\ IsFiniteSet(s) /\ Cardinality(s) \in Nat
                          /\ Cardinality(s) <= Cardinality(S)
                          /\ Cardinality(s) = 0 => s = {}
  BY FS_Subset, FS_CardinalityType, FS_EmptySet
<1>1. 0 \in N
  <2>1. \A s \in Small(0) : s = {}
    BY <1>0
  <2>2. [s \in Small(0) |-> 0] = [s \in Small(0) |-> SumStep(f, [u \in Small(0) |-> 0], s)]
    BY <2>1 DEF SumStep
  <2> QED BY <2>2
<1>2. ASSUME NEW n \in N
      PROVE  n + 1 \in N
  <2>1. PICK h : Sums(n, h)
    OBVIOUS
  <2> DEFINE k == [s \in Small(n + 1) |-> SumStep(f, h, s)]
  <2>2. ASSUME NEW s \in Small(n + 1), s # {}
        PROVE  s \ {Pick(s)} \in Small(n) /\ s \ {Pick(s)} \in Small(n + 1)
    <3>1. Pick(s) \in s
      BY <2>2, PickIn
    <3>2. Cardinality(s \ {Pick(s)}) = Cardinality(s) - 1
      BY <3>1, <1>0, FS_RemoveElement
    <3> QED BY <3>2, <1>0
  <2>3. \A s \in Small(n) : s \in Small(n + 1) /\ h[s] = k[s]
    <3>1. \A s \in Small(n) : s \in Small(n + 1)
      BY <1>0
    <3> HIDE DEF Small
    <3> QED BY <3>1, <2>1
  <2>4. \A s \in Small(n + 1) : SumStep(f, h, s) = SumStep(f, k, s)
    <3> HIDE DEF Small, k
    <3> QED BY <2>2, <2>3 DEF SumStep
  <2>5. Sums(n + 1, k)
    <3> HIDE DEF Small
    <3> QED BY <2>4
  <2> HIDE DEF k, Sums
  <2> QED BY <2>5
<1>3. N = Nat
  <2> HIDE DEF N
  <2>1. N \subseteq Nat BY DEF N
  <2> QED BY <2>1, <1>1, <1>2, NumbersByInduction
<1>4. PICK h : Sums(Cardinality(S), h)
  BY <1>3, <1>0
<1>5. Small(Cardinality(S)) = SUBSET S
  BY <1>0
<1> QED BY <1>4, <1>5

(* So the CHOOSE in SumFunctionOnSet finds it.                             *)
LEMMA SumIs ==
  ASSUME NEW S, IsFiniteSet(S), NEW f
  PROVE  \E h : /\ h = [s \in SUBSET S |-> SumStep(f, h, s)]
                /\ SumFunctionOnSet(f, S) = h[S]
<1> DEFINE IsSum(h) == h = [s \in SUBSET S |-> SumStep(f, h, s)]
<1>0. \E h : IsSum(h)
  BY SumsExist
<1>1. IsSum(CHOOSE h : IsSum(h))
  <2> HIDE DEF IsSum
  <2> QED BY <1>0, Zenon
<1>2. SumFunctionOnSet(f, S) = (CHOOSE h : IsSum(h))[S]
  BY Zenon DEF SumFunctionOnSet, FoldFunctionOnSet, MapThenFoldSet, SumStep, Pick
<1> QED BY <1>1, <1>2

(* A sum of which one term changes, changes by as much.                    *)
LEMMA SumChanges ==
  ASSUME NEW S, IsFiniteSet(S), NEW f \in [S -> Int], NEW g \in [S -> Int],
         NEW x \in S, \A y \in S \ {x} : g[y] = f[y]
  PROVE  /\ SumFunction(f) \in Int
         /\ SumFunction(g) = SumFunction(f) + (g[x] - f[x])
<1>1. PICK h : /\ h = [s \in SUBSET S |-> SumStep(f, h, s)]
               /\ SumFunctionOnSet(f, S) = h[S]
  BY SumIs
<1>2. PICK k : /\ k = [s \in SUBSET S |-> SumStep(g, k, s)]
               /\ SumFunctionOnSet(g, S) = k[S]
  BY SumIs
<1> DEFINE Change(V) == IF x \in V THEN g[x] - f[x] ELSE 0
           G == {V \in SUBSET S : h[V] \in Int /\ k[V] = h[V] + Change(V)}
<1>3. {} \in G
  BY <1>1, <1>2 DEF SumStep
<1>4. ASSUME NEW V \in SUBSET S, V # {}, V \ {Pick(V)} \in G
      PROVE  V \in G
  <2> DEFINE c == Pick(V)
  <2>1. c \in V /\ c \in S
    BY <1>4, PickIn
  <2>2. h[V] = f[c] + h[V \ {c}] /\ k[V] = g[c] + k[V \ {c}]
    BY <1>1, <1>2, <1>4 DEF SumStep
  <2> HIDE DEF c
  <2>3. /\ h[V \ {c}] \in Int /\ k[V \ {c}] = h[V \ {c}] + Change(V \ {c})
    BY <1>4 DEF c
  <2>4. f[c] \in Int /\ g[c] \in Int /\ f[x] \in Int /\ g[x] \in Int
    BY <2>1
  <2>5. CASE c = x
    BY <2>1, <2>2, <2>3, <2>4, <2>5
  <2>6. CASE c # x
    <3>1. g[c] = f[c] /\ Change(V \ {c}) = Change(V) /\ Change(V) \in Int
      BY <2>1, <2>4, <2>6
    <3> HIDE DEF Change
    <3> QED BY <3>1, <2>2, <2>3, <2>4
  <2> QED BY <2>5, <2>6
<1>5. S \in G
  <2> HIDE DEF G
  <2>1. G \in SUBSET SUBSET S BY DEF G
  <2> QED BY <2>1, <1>3, <1>4, SubsetsByInduction
<1> QED BY <1>1, <1>2, <1>5 DEF SumFunction

(* A sum of nothing but zeros is zero.                                     *)
LEMMA SumOfZeros ==
  ASSUME NEW S, IsFiniteSet(S)
  PROVE  SumFunction([x \in S |-> 0]) = 0
<1> DEFINE f == [x \in S |-> 0]
<1>1. PICK h : /\ h = [s \in SUBSET S |-> SumStep(f, h, s)]
               /\ SumFunctionOnSet(f, S) = h[S]
  BY SumIs
<1> DEFINE G == {V \in SUBSET S : h[V] = 0}
<1>2. {} \in G
  BY <1>1 DEF SumStep
<1>3. ASSUME NEW V \in SUBSET S, V # {}, V \ {Pick(V)} \in G
      PROVE  V \in G
  <2>1. Pick(V) \in V
    BY <1>3, PickIn
  <2>2. f[Pick(V)] = 0 /\ h[V] = f[Pick(V)] + h[V \ {Pick(V)}]
    BY <1>1, <1>3, <2>1 DEF SumStep
  <2> QED BY <2>2, <1>3
<1>4. S \in G
  <2> HIDE DEF G
  <2>1. G \in SUBSET SUBSET S BY DEF G
  <2> QED BY <2>1, <1>2, <1>3, SubsetsByInduction
<1> QED BY <1>1, <1>4 DEF SumFunction

(* A sum of integers is one.                                               *)
LEMMA SumIsNumber ==
  ASSUME NEW S, IsFiniteSet(S), NEW f \in [S -> Int]
  PROVE  SumFunction(f) \in Int
<1>1. CASE S = {}
  <2>1. f = [x \in S |-> 0] BY <1>1
  <2> QED BY <2>1, SumOfZeros
<1>2. CASE S # {}
  <2>1. PICK x \in S : TRUE BY <1>2
  <2> QED BY <2>1, SumChanges
<1> QED BY <1>1, <1>2

-----------------------------------------------------------------------------
(***************************************************************************)
(* BalancesExplained is inductive next to PayUpInv: a commit changes one   *)
(* term of one of the two sums by what it changes the balance, and no      *)
(* other step changes a balance or a term.                                 *)
(***************************************************************************)
TransferSum(a) == SumFunction([t \in Transferers |-> Transferred(t, a)])

LegSum(a) == SumFunction([r \in Payers |-> LegsOn(r, a)])

LEMMA AmountsAreNumbers == \A n \in Amounts : n \in Int
<1>1. \A n \in Amounts : n \in Nat BY LedgerAssumption
<1> QED BY <1>1

LEMMA WhatMoved ==
  ASSUME PayUpInv, NEW a \in Accounts
  PROVE  /\ \A t \in Transferers : Transferred(t, a) \in Int
         /\ \A r \in Payers : LegsOn(r, a) \in Int
         /\ TransferSum(a) \in Int /\ LegSum(a) \in Int /\ Balance(a) \in Int
<1>1. ASSUME NEW t \in Transferers PROVE Transferred(t, a) \in Int
  <2>1. TP!TransfersTypeOK BY DEF PayUpInv, TP!Inv
  <2>2. treq[t] \in TP!Requests \cup {TP!NoRequest} BY <2>1 DEF TP!TransfersTypeOK
  <2>3. treq[t].amount \in Int
    BY <2>2, AmountsAreNumbers DEF TP!Requests, TP!NoRequest
  <2> QED BY <2>3 DEF Transferred
<1>2. ASSUME NEW r \in Payers PROVE LegsOn(r, a) \in Int
  <2>1. Amount(r) \in Int /\ legs[r] \in [debit : Nat, credit : Nat, refund : Nat]
    BY RequestType DEF PayUpInv, PaymentsInv, PaymentsTypeOK
  <2>2. \A n \in Int : Amount(r) * n \in Int BY <2>1
  <2> QED BY <2>1, <2>2 DEF LegsOn
<1>3. TransferSum(a) \in Int BY <1>1, SumIsNumber, PayUpAssumption DEF TransferSum
<1>4. LegSum(a) \in Int BY <1>2, SumIsNumber, PayUpAssumption DEF LegSum
<1>5. Balance(a) \in Int
  BY DEF PayUpInv, PaymentsInv, LedgerInv, LedgerTypeOK, Balance
<1> QED BY <1>1, <1>2, <1>3, <1>4, <1>5

(* Legs that stand count the same: a payment that is not made yet has none.*)
LEMMA LegsStand ==
  ASSUME PaymentsInv, PaymentsInv', UNCHANGED <<call, legs>>,
         NEW r \in Payers, NEW a \in Accounts
  PROVE  LegsOn(r, a)' = LegsOn(r, a)
<1>1. /\ SenderAccount(r)' = SenderAccount(r) /\ ReceiverAccount(r)' = ReceiverAccount(r)
      /\ Amount(r)' = Amount(r) /\ legs'[r] = legs[r]
      /\ Amount(r) \in Int
  BY RequestType DEF SenderAccount, ReceiverAccount, Amount, Body, PaymentsInv
<1>2. Saga(r) /\ Saga(r)' BY DEF PaymentsInv
<1>3. paid[r] = "NONE" \/ paid'[r] = "NONE" =>
        legs[r] = [debit |-> 0, credit |-> 0, refund |-> 0]
  BY <1>1, <1>2
  DEF Saga, Rows, Untouched, Initiated, Processing, Debited, Credited, Refunded,
      Succeeded, FailedAndRefunded, FailedUndebited
<1>4. CASE legs[r] = [debit |-> 0, credit |-> 0, refund |-> 0]
  <2>1. /\ (IF ReceiverAccount(r) = a THEN legs[r].credit ELSE 0)
             + (IF SenderAccount(r) = a THEN legs[r].refund - legs[r].debit ELSE 0) = 0
        /\ Amount(r) * 0 = 0
    BY <1>1, <1>4
  <2> QED BY <1>1, <2>1 DEF LegsOn
<1>5. CASE paid[r] # "NONE" /\ paid'[r] # "NONE"
  BY <1>1, <1>5 DEF LegsOn
<1> QED BY <1>3, <1>4, <1>5

(* A step that shows on no sum.                                            *)
LEMMA NothingMoves ==
  ASSUME BalancesExplained, UNCHANGED <<credits, debits>>,
         \A t \in Transferers, a \in Accounts : Transferred(t, a)' = Transferred(t, a),
         \A r \in Payers, a \in Accounts : LegsOn(r, a)' = LegsOn(r, a)
  PROVE  BalancesExplained'
<1> SUFFICES ASSUME NEW a \in Accounts
             PROVE  Balance(a)' = Opening[a] + TransferSum(a)' + LegSum(a)'
  BY DEF BalancesExplained, TransferSum, LegSum
<1>1. TransferSum(a)' = TransferSum(a) BY DEF TransferSum
<1>2. LegSum(a)' = LegSum(a) BY DEF LegSum
<1>3. Balance(a)' = Balance(a) BY DEF Balance
<1> QED BY <1>1, <1>2, <1>3 DEF BalancesExplained, TransferSum, LegSum

(* The term of one transfer changes by what the balance changes.           *)
LEMMA TransferMoves ==
  ASSUME PayUpInv, PayUpInv', BalancesExplained, NEW t \in Transferers,
         \A a \in Accounts :
           Balance(a)' = Balance(a) + (Transferred(t, a)' - Transferred(t, a)),
         \A u \in Transferers \ {t}, a \in Accounts : Transferred(u, a)' = Transferred(u, a),
         \A r \in Payers, a \in Accounts : LegsOn(r, a)' = LegsOn(r, a)
  PROVE  BalancesExplained'
<1> SUFFICES ASSUME NEW a \in Accounts
             PROVE  Balance(a)' = Opening[a] + TransferSum(a)' + LegSum(a)'
  BY DEF BalancesExplained, TransferSum, LegSum
<1> DEFINE f == [u \in Transferers |-> Transferred(u, a)]
           g == [u \in Transferers |-> Transferred(u, a)']
<1>1. /\ \A u \in Transferers : Transferred(u, a) \in Int
      /\ TransferSum(a) \in Int /\ LegSum(a) \in Int /\ Balance(a) \in Int
  BY WhatMoved
<1>2. \A u \in Transferers : Transferred(u, a)' \in Int
  <2>1. Transferred(t, a)' \in Int
    <3>1. TP!TransfersTypeOK' BY DEF PayUpInv, TP!Inv
    <3>2. treq'[t] \in TP!Requests \cup {TP!NoRequest} BY <3>1 DEF TP!TransfersTypeOK
    <3>3. treq'[t].amount \in Int
      BY <3>2, AmountsAreNumbers DEF TP!Requests, TP!NoRequest
    <3> QED BY <3>3 DEF Transferred
  <2> QED BY <1>1, <2>1
<1>3. /\ f \in [Transferers -> Int] /\ g \in [Transferers -> Int]
      /\ \A u \in Transferers \ {t} : g[u] = f[u]
      /\ f[t] = Transferred(t, a) /\ g[t] = Transferred(t, a)'
      /\ TransferSum(a) = SumFunction(f)
      /\ TransferSum(a)' = SumFunction(g)
  BY <1>1, <1>2 DEF TransferSum
<1> HIDE DEF f, g
<1>4. SumFunction(g) = SumFunction(f) + (g[t] - f[t])
  BY <1>3, SumChanges, PayUpAssumption
<1>5. LegSum(a)' = LegSum(a) BY DEF LegSum
<1>6. Balance(a) = Opening[a] + TransferSum(a) + LegSum(a)
  BY DEF BalancesExplained, TransferSum, LegSum
<1>7. Opening[a] \in Int /\ Transferred(t, a)' \in Int /\ Transferred(t, a) \in Int
  BY <1>1, <1>2, LedgerAssumption
<1>8. Balance(a)' = Balance(a) + (Transferred(t, a)' - Transferred(t, a))
  OBVIOUS
<1> QED BY <1>1, <1>3, <1>4, <1>5, <1>6, <1>7, <1>8

(* The term of one payment does.                                           *)
LEMMA LegMoves ==
  ASSUME PayUpInv, PayUpInv', BalancesExplained, NEW r \in Payers,
         \A a \in Accounts : Balance(a)' = Balance(a) + (LegsOn(r, a)' - LegsOn(r, a)),
         \A u \in Payers \ {r}, a \in Accounts : LegsOn(u, a)' = LegsOn(u, a),
         \A t \in Transferers, a \in Accounts : Transferred(t, a)' = Transferred(t, a)
  PROVE  BalancesExplained'
<1> SUFFICES ASSUME NEW a \in Accounts
             PROVE  Balance(a)' = Opening[a] + TransferSum(a)' + LegSum(a)'
  BY DEF BalancesExplained, TransferSum, LegSum
<1> DEFINE f == [u \in Payers |-> LegsOn(u, a)]
           g == [u \in Payers |-> LegsOn(u, a)']
<1>1. /\ \A u \in Payers : LegsOn(u, a) \in Int
      /\ TransferSum(a) \in Int /\ LegSum(a) \in Int /\ Balance(a) \in Int
  BY WhatMoved
<1>2. \A u \in Payers : LegsOn(u, a)' \in Int
  <2>1. LegsOn(r, a)' \in Int
    <3>1. Amount(r)' \in Int /\ legs'[r] \in [debit : Nat, credit : Nat, refund : Nat]
      <4>1. PaymentsTypeOK' BY DEF PayUpInv, PaymentsInv
      <4>2. call'[r] \in Calls /\ legs'[r] \in [debit : Nat, credit : Nat, refund : Nat]
        BY <4>1 DEF PaymentsTypeOK
      <4>3. call'[r].body.amount \in Amounts BY <4>2, PaymentsAssumption
      <4>4. Amount(r)' = call'[r].body.amount BY DEF Amount, Body
      <4> QED BY <4>2, <4>3, <4>4, AmountsAreNumbers
    <3>2. \A n \in Int : Amount(r)' * n \in Int BY <3>1
    <3> QED BY <3>1, <3>2 DEF LegsOn
  <2> QED BY <1>1, <2>1
<1>3. /\ f \in [Payers -> Int] /\ g \in [Payers -> Int]
      /\ \A u \in Payers \ {r} : g[u] = f[u]
      /\ f[r] = LegsOn(r, a) /\ g[r] = LegsOn(r, a)'
      /\ LegSum(a) = SumFunction(f)
      /\ LegSum(a)' = SumFunction(g)
  BY <1>1, <1>2 DEF LegSum
<1> HIDE DEF f, g
<1>4. SumFunction(g) = SumFunction(f) + (g[r] - f[r])
  BY <1>3, SumChanges, PayUpAssumption
<1>5. TransferSum(a)' = TransferSum(a) BY DEF TransferSum
<1>6. Balance(a) = Opening[a] + TransferSum(a) + LegSum(a)
  BY DEF BalancesExplained, TransferSum, LegSum
<1>7. Opening[a] \in Int /\ LegsOn(r, a)' \in Int /\ LegsOn(r, a) \in Int
  BY <1>1, <1>2, LedgerAssumption
<1>8. Balance(a)' = Balance(a) + (LegsOn(r, a)' - LegsOn(r, a))
  OBVIOUS
<1> QED BY <1>1, <1>3, <1>4, <1>5, <1>6, <1>7, <1>8

LEMMA OneMore == \A n, k \in Int : n * (k + 1) = n * k + n /\ n * (k - 1) = n * k - n
OBVIOUS

(* How often the amount of payment r came to account a.                    *)
Net(r, a) ==
  (IF ReceiverAccount(r) = a THEN legs[r].credit ELSE 0)
    + (IF SenderAccount(r) = a THEN legs[r].refund - legs[r].debit ELSE 0)

(* The commit of a leg moves the amount, and counts.                       *)
LEMMA LegCommitExplained ==
  ASSUME PayUpInv, PayUpInv', BalancesExplained, NEW r \in Payers,
         DebitCommit(r) \/ CreditCommit(r) \/ RefundCommit(r), UNCHANGED <<tpc, treq>>
  PROVE  BalancesExplained'
<1>0. PaymentsInv BY DEF PayUpInv
<1>1. /\ posting[r] = NotPosting /\ CommitEntries(r) /\ call' = call
      /\ SenderAccount(r) \in Accounts /\ ReceiverAccount(r) \in Accounts
      /\ Amount(r) \in Nat \ {0}
      /\ DebitCommit(r) => legs[r] = [debit |-> 0, credit |-> 0, refund |-> 0]
      /\ CreditCommit(r) \/ RefundCommit(r) =>
           legs[r] = [debit |-> 1, credit |-> 0, refund |-> 0]
  BY <1>0, LegCommitStep
<1>2. /\ SenderAccount(r)' = SenderAccount(r) /\ ReceiverAccount(r)' = ReceiverAccount(r)
      /\ Amount(r)' = Amount(r)
  BY <1>1 DEF SenderAccount, ReceiverAccount, Amount, Body
<1>3. paid[r] # "NONE" /\ paid'[r] # "NONE"
  <2>1. pc[r] \in {"debitCommit", "creditCommit", "refundCommit"} /\ paid' = paid
    BY DEF DebitCommit, CreditCommit, RefundCommit, CommitLeg, Move
  <2>2. Saga(r) BY <1>0 DEF PaymentsInv
  <2> QED BY <2>1, <2>2
          DEF Saga, BeforeDebit, InBetween, Debiting, Crediting, Refunding, Processing,
              Debited, Rows
<1>4. \A a \in Accounts : /\ LegsOn(r, a) = Amount(r) * Net(r, a)
                          /\ LegsOn(r, a)' = Amount(r) * Net(r, a)'
  BY <1>2, <1>3 DEF LegsOn, Net
<1>5. /\ Funds \in [Accounts -> Int]
      /\ \A a \in Accounts :
           Balance(a) \in Int /\ Funds[a] = Balance(a) /\ Funds'[a] = Balance(a)'
  BY <1>0 DEF PaymentsInv, LedgerInv, LedgerTypeOK, Balance, Funds
<1>6. PICK leg \in {"debit", "credit", "refund"}, b \in Accounts, type \in {"DEBIT", "CREDIT"} :
        /\ legs' = [legs EXCEPT ![r][leg] = @ + 1]
        /\ OnlyPending(r, b, type)
        /\ b = IF leg = "credit" THEN ReceiverAccount(r) ELSE SenderAccount(r)
        /\ type = IF leg = "debit" THEN "DEBIT" ELSE "CREDIT"
  BY <1>0, <1>1 DEF DebitCommit, CreditCommit, RefundCommit, CommitLeg, Move, PaymentsInv, Leg
<1>7. Funds' = IF leg = "debit" THEN [Funds EXCEPT ![b] = @ - Amount(r)]
                                ELSE [Funds EXCEPT ![b] = @ + Amount(r)]
  BY <1>0, <1>1, <1>6, OneEntryCommit
<1>8. /\ legs[r] \in [debit : Int, credit : Int, refund : Int]
      /\ legs'[r] = [legs[r] EXCEPT ![leg] = @ + 1]
      /\ \A u \in Payers \ {r} : legs'[u] = legs[u]
  BY <1>0, <1>6 DEF PaymentsInv, PaymentsTypeOK
<1>9. ASSUME NEW a \in Accounts
      PROVE  /\ Net(r, a) \in Int
             /\ Net(r, a)' = IF a # b THEN Net(r, a)
                             ELSE IF leg = "debit" THEN Net(r, a) - 1 ELSE Net(r, a) + 1
  <2>1. CASE leg = "debit" BY <1>2, <1>6, <1>8, <2>1 DEF Net
  <2>2. CASE leg = "credit" BY <1>2, <1>6, <1>8, <2>2 DEF Net
  <2>3. CASE leg = "refund" BY <1>2, <1>6, <1>8, <2>3 DEF Net
  <2> QED BY <2>1, <2>2, <2>3
<1>10. ASSUME NEW a \in Accounts
       PROVE  Balance(a)' = Balance(a) + (LegsOn(r, a)' - LegsOn(r, a))
  <2> DEFINE n == Amount(r)
             k == Net(r, a)
             m == Amount(r) * Net(r, a)
  <2>1. n \in Int /\ k \in Int /\ m \in Int BY <1>1, <1>9
  <2>2. n * (k + 1) = m + n /\ n * (k - 1) = m - n
    <3> HIDE DEF n, k
    <3> QED BY <2>1, OneMore DEF n, k
  <2>3. Balance(a)' = IF a # b THEN Balance(a)
                      ELSE IF leg = "debit" THEN Balance(a) - n ELSE Balance(a) + n
    BY <1>5, <1>7
  <2>4. LegsOn(r, a) = m
    BY <1>4
  <2>5. LegsOn(r, a)' = IF a # b THEN m ELSE IF leg = "debit" THEN m - n ELSE m + n
    <3>1. CASE a # b BY <1>4, <1>9, <3>1
    <3>2. CASE a = b /\ leg = "debit"
      <4>1. Net(r, a)' = k - 1 BY <1>9, <3>2
      <4> QED BY <1>4, <2>2, <3>2, <4>1
    <3>3. CASE a = b /\ leg # "debit"
      <4>1. Net(r, a)' = k + 1 BY <1>9, <3>3
      <4> QED BY <1>4, <2>2, <3>3, <4>1
    <3> QED BY <3>1, <3>2, <3>3
  <2> HIDE DEF n, k, m
  <2> QED BY <1>5, <2>1, <2>3, <2>4, <2>5
<1>11. \A u \in Payers \ {r}, a \in Accounts : LegsOn(u, a)' = LegsOn(u, a)
  <2>1. paid' = paid BY DEF DebitCommit, CreditCommit, RefundCommit, CommitLeg
  <2> QED BY <1>1, <1>8, <2>1
          DEF LegsOn, SenderAccount, ReceiverAccount, Amount, Body
<1>12. \A t \in Transferers, a \in Accounts : Transferred(t, a)' = Transferred(t, a)
  BY DEF Transferred
<1> QED BY <1>10, <1>11, <1>12, LegMoves

(* The commit of a transfer takes from one account what the other gets.    *)
LEMMA CommitExplained ==
  ASSUME PayUpInv, PayUpInv', BalancesExplained, NEW t \in Transferers, TP!Commit(t),
         UNCHANGED paymentVars
  PROVE  BalancesExplained'
<1>1. PICK from \in Accounts, to \in Accounts, n \in Nat \ {0} :
        /\ treq[t].from = from /\ treq[t].to = to /\ treq[t].amount = n
        /\ from # to
        /\ \A b \in Accounts : Balance(b) \in Int
        /\ Balance(from)' = Balance(from) - n
        /\ Balance(to)' = Balance(to) + n
        /\ \A b \in Accounts \ {from, to} : Balance(b)' = Balance(b)
  <2>1. TP!Inv BY DEF PayUpInv
  <2>2. \E from, to \in Accounts, n \in Nat \ {0} :
          /\ treq[t].from = from /\ treq[t].to = to /\ treq[t].amount = n
          /\ from # to /\ n <= TP!Balance(from)
          /\ \A b \in Accounts : TP!Balance(b) \in Int
          /\ TP!Balance(from)' = TP!Balance(from) - n
          /\ TP!Balance(to)' = TP!Balance(to) + n
          /\ \A b \in Accounts \ {from, to} : TP!Balance(b)' = TP!Balance(b)
    BY <2>1, TP!CommitMoves, SameTransfers, LedgerAssumption, PayUpAssumption
  <2> QED BY <2>2 DEF TP!Balance, Balance
<1>2. /\ tpc[t] = "commit" /\ tpc'[t] = "done" /\ treq' = treq
      /\ \A u \in Transferers \ {t} : tpc'[u] = tpc[u]
  BY DEF TP!Commit, TP!Goto, PayUpInv, TP!Inv, TP!TransfersTypeOK
<1>3. ASSUME NEW a \in Accounts
      PROVE  /\ Transferred(t, a) = 0
             /\ Transferred(t, a)' = (IF to = a THEN n ELSE 0) - (IF from = a THEN n ELSE 0)
  BY <1>1, <1>2 DEF Transferred
<1>4. ASSUME NEW a \in Accounts
      PROVE  Balance(a)' = Balance(a) + (Transferred(t, a)' - Transferred(t, a))
  <2>1. CASE a = from BY <1>1, <1>3, <2>1
  <2>2. CASE a = to BY <1>1, <1>3, <2>2
  <2>3. CASE a \notin {from, to} BY <1>1, <1>3, <2>3
  <2> QED BY <2>1, <2>2, <2>3
<1>5. \A u \in Transferers \ {t}, a \in Accounts : Transferred(u, a)' = Transferred(u, a)
  BY <1>2 DEF Transferred
<1>6. \A r \in Payers, a \in Accounts : LegsOn(r, a)' = LegsOn(r, a)
  BY LegsStand DEF PayUpInv, paymentVars, tables
<1> QED BY <1>4, <1>5, <1>6, TransferMoves

LEMMA InitExplained ==
  ASSUME PayUpInit PROVE BalancesExplained
<1> SUFFICES ASSUME NEW a \in Accounts
             PROVE  Balance(a) = Opening[a] + TransferSum(a) + LegSum(a)
  BY DEF BalancesExplained, TransferSum, LegSum
<1>1. [t \in Transferers |-> Transferred(t, a)] = [t \in Transferers |-> 0]
  BY DEF PayUpInit, T!TransfersInit, Transferred
<1>2. [r \in Payers |-> LegsOn(r, a)] = [r \in Payers |-> 0]
  BY DEF PayUpInit, PaymentsInit, LegsOn
<1>3. TransferSum(a) = 0 /\ LegSum(a) = 0
  BY <1>1, <1>2, SumOfZeros, PayUpAssumption DEF TransferSum, LegSum
<1>4. Balance(a) = Opening[a] - 0 /\ Opening[a] \in Nat
  BY LedgerAssumption DEF PayUpInit, PaymentsInit, LedgerInit, Balance
<1> QED BY <1>3, <1>4

LEMMA NextExplained ==
  PayUpInv /\ PayUpInv' /\ BalancesExplained /\ [PayUpNext]_allVars => BalancesExplained'
<1> SUFFICES ASSUME PayUpInv, PayUpInv', BalancesExplained, [PayUpNext]_allVars
             PROVE  BalancesExplained'
  OBVIOUS
<1>1. ASSUME UNCHANGED <<call, legs>>
      PROVE  \A r \in Payers, a \in Accounts : LegsOn(r, a)' = LegsOn(r, a)
  BY <1>1, LegsStand DEF PayUpInv
<1>2. ASSUME UNCHANGED <<tpc, treq>>
      PROVE  \A t \in Transferers, a \in Accounts : Transferred(t, a)' = Transferred(t, a)
  BY <1>2 DEF Transferred
<1>3. ASSUME NEW r \in Payers, PaymentStep(r) \/ DatabaseError(r), UNCHANGED <<tpc, treq>>
      PROVE  BalancesExplained'
  <2>1. CASE DebitCommit(r) \/ CreditCommit(r) \/ RefundCommit(r)
    BY <1>3, <2>1, LegCommitExplained
  <2>2. CASE ~(DebitCommit(r) \/ CreditCommit(r) \/ RefundCommit(r))
    <3>1. UNCHANGED <<call, legs, credits, debits>>
      BY <1>3, <2>2, OnlyLegCommitsMove
    <3> QED BY <1>1, <1>2, <1>3, <3>1, NothingMoves
  <2> QED BY <2>1, <2>2
<1>4. ASSUME NEW t \in Transferers, TP!TransferStep(t) \/ TP!DbError(t),
             UNCHANGED paymentVars
      PROVE  BalancesExplained'
  <2>1. CASE TP!Commit(t) BY <1>4, <2>1, CommitExplained
  <2>2. CASE ~TP!Commit(t)
    <3>1. UNCHANGED <<credits, debits>>
      BY <1>4, <2>2, TP!OnlyCommitMoves, SameTransfers, LedgerAssumption, PayUpAssumption
    <3>2. \A u \in Transferers : /\ tpc'[u] = "done" <=> tpc[u] = "done"
                                 /\ tpc[u] = "done" => treq'[u] = treq[u]
      BY <1>4, <2>2, TP!OnlyCommitEnds, SameTransfers, LedgerAssumption, PayUpAssumption
         DEF PayUpInv
    <3>3. \A u \in Transferers, a \in Accounts : Transferred(u, a)' = Transferred(u, a)
      BY <3>2 DEF Transferred
    <3> QED BY <1>1, <1>4, <3>1, <3>3, NothingMoves DEF paymentVars, tables
  <2> QED BY <2>1, <2>2
<1>5. ASSUME Freeze \/ ServerCrash \/ UNCHANGED payVars,
             UNCHANGED <<tpc, treq>> \/ T!TransfersLost
      PROVE  BalancesExplained'
  <2>1. UNCHANGED <<call, legs, credits, debits>> BY <1>5, OthersMoveNothing
  <2>2. \A u \in Transferers, a \in Accounts : Transferred(u, a)' = Transferred(u, a)
    <3>1. CASE T!TransfersLost
      BY <3>1 DEF T!TransfersLost, T!Ended, Transferred
    <3> QED BY <1>2, <1>5, <3>1
  <2> QED BY <1>1, <2>1, <2>2, NothingMoves
<1> QED BY <1>3, <1>4, <1>5, SameSteps
        DEF PayUpNext, PayerResumes, PayerStep, PoolTimeout, TransferResumes, Fails,
            ServerDies, allVars

(* Every paisa of every balance comes from a transfer or a leg that        *)
(* committed, whatever else was refused, failed or died.                   *)
THEOREM BalancesAlwaysExplained == PayUpSpec => []BalancesExplained
<1>1. PayUpInit => BalancesExplained BY InitExplained
<1>2. PayUpInv /\ PayUpInv' /\ BalancesExplained /\ [PayUpNext]_allVars => BalancesExplained'
  BY NextExplained
<1> QED BY <1>1, <1>2, AlwaysPayUpInv, PTL DEF PayUpSpec

-----------------------------------------------------------------------------
(***************************************************************************)
(* Payments, the outbox and the notifications (Pipeline).                  *)
(***************************************************************************)
(* What the proofs take of sequences.                                      *)
LEMMA ElementOf ==
  ASSUME NEW S, NEW s \in Seq(S), NEW i \in 1 .. Len(s)
  PROVE  s[i] \in S
OBVIOUS

LEMMA ListOf ==
  ASSUME NEW S, NEW n \in Nat, NEW f \in [1 .. n -> S]
  PROVE  f \in Seq(S) /\ Len(f) = n
OBVIOUS

LEMMA AppendLast ==
  ASSUME NEW S, NEW s \in Seq(S), NEW e \in S
  PROVE  /\ Append(s, e) \in Seq(S)
         /\ Len(Append(s, e)) = Len(s) + 1
         /\ Append(s, e)[Len(s) + 1] = e
         /\ \A i \in 1 .. Len(s) : Append(s, e)[i] = s[i]
OBVIOUS

LEMMA AppendGrows ==
  ASSUME NEW S, NEW s \in Seq(S), NEW e \in S
  PROVE  Append(s, e) # s
<1>1. Len(Append(s, e)) = Len(s) + 1 /\ Len(s) \in Nat OBVIOUS
<1> QED BY <1>1

LEMMA CoursesAreEvents == \A c \in Courses : c \in Seq(EventTypes)
<1>1. /\ <<"INITIATED", "PROCESSING", "DEBITED", "CREDITED", "SUCCESS">> \in Seq(EventTypes)
      /\ <<"INITIATED", "PROCESSING", "DEBITED", "FAILED">> \in Seq(EventTypes)
      /\ <<"INITIATED", "PROCESSING", "FAILED">> \in Seq(EventTypes)
  BY DEF EventTypes
<1> QED BY <1>1 DEF Courses

(* A commit records one event at most.                                     *)
LEMMA OneEventAtATime ==
  ASSUME PaymentsInv, PaymentsNext
  PROVE  \/ UNCHANGED events
         \/ \E r \in Payers, e \in EventTypes : Record(r, e)
<1>1. ASSUME NEW r \in Payers, PaymentStep(r) \/ DatabaseError(r)
      PROVE  UNCHANGED events \/ \E e \in EventTypes : Record(r, e)
  <2>1. CASE KeyStep(r)
    BY <2>1 DEF KeyStep, FindKey, FindNoKey, CreateKey, DuplicateKey, CacheAnswer, tables
  <2>2. CASE StatusStep(r)
    BY <2>2 DEF StatusStep, Validate, Refuse, CreatePayment, StartProcessing, FailDebit,
                FailCredit, Succeed, Finish, tables, EventTypes
  <2>3. CASE DebitStep(r)
    BY <2>3 DEF DebitStep, AskSender, EnterDebit, DebitRead, DebitInsert, DebitCommit,
                DebitInactive, DebitInsufficient, Ask, Enter, ReadLeg, InsertLeg, LeaveLeg,
                tables, EventTypes
  <2>4. CASE CreditStep(r)
    BY <2>4 DEF CreditStep, AskReceiver, EnterCredit, CreditRead, CreditInsert,
                CreditCommit, CreditInactive, Ask, Enter, ReadLeg, InsertLeg, LeaveLeg,
                tables, EventTypes
  <2>5. CASE RefundStep(r)
    BY <2>5 DEF RefundStep, AskRefund, EnterRefund, RefundRead, RefundInsert,
                RefundCommit, Ask, Enter, ReadLeg, InsertLeg, tables
  <2>6. CASE DatabaseError(r) BY <2>6 DEF DatabaseError, tables
  <2> QED BY <1>1, <2>1, <2>2, <2>3, <2>4, <2>5, <2>6 DEF PaymentStep
<1>2. Freeze \/ ServerCrash => UNCHANGED events
  BY DEF Freeze, ServerCrash, PaymentsLost, paymentVars, tables
<1> QED BY <1>1, <1>2 DEF PaymentsNext

(* Every row is an event of its payment, and only outcomes are told.       *)
RowsTell ==
  /\ rows \in Seq([payment : Payers, type : EventTypes])
  /\ notified \in [1 .. Len(rows) -> Nat]
  /\ \A i \in 1 .. Len(rows) :
       /\ Tells(rows[i].payment, rows[i].type)
       /\ notified[i] > 0 => rows[i].type \in News!Terminal

PipelineInv == PaymentsInv /\ RowsTell

(* What a commit that records an event does to the two tables.             *)
LEMMA RowAdded ==
  ASSUME PaymentsInv, RowsTell, PaymentsNext, NEW r \in Payers, events'[r] # events[r],
         rows' = Append(rows, NewRow(r))
  PROVE  \E e \in EventTypes :
           /\ events' = [events EXCEPT ![r] = Append(@, e)]
           /\ rows' = Append(rows, [payment |-> r, type |-> e])
<1>1. events \in [Payers -> Seq(EventTypes)] BY DEF PaymentsInv, PaymentsTypeOK
<1>2. PICK s \in Payers, e \in EventTypes : events' = [events EXCEPT ![s] = Append(@, e)]
  BY OneEventAtATime DEF Record
<1>3. s = r BY <1>1, <1>2
<1>4. events'[r] = Append(events[r], e) /\ events[r] \in Seq(EventTypes)
  BY <1>1, <1>2, <1>3
<1>5. Last(events'[r]) = e BY <1>4 DEF Last
<1> QED BY <1>2, <1>3, <1>5 DEF NewRow

LEMMA RowsTold ==
  ASSUME PaymentsInv, RowsTell, PaymentsGoOn
  PROVE  RowsTell'
<1>1. CASE UNCHANGED <<events, rows, notified>>
  BY <1>1 DEF RowsTell, Tells, News!Terminal
<1>2. CASE ~ UNCHANGED <<events, rows, notified>>
  <2>1. PICK r \in Payers : /\ events'[r] # events[r]
                            /\ rows' = Append(rows, NewRow(r))
                            /\ notified' = Append(notified, 0)
    BY <1>2 DEF PaymentsGoOn
  <2>2. PICK e \in EventTypes :
          /\ events' = [events EXCEPT ![r] = Append(@, e)]
          /\ rows' = Append(rows, [payment |-> r, type |-> e])
    BY <2>1, RowAdded DEF PaymentsGoOn
  <2>3. /\ events \in [Payers -> Seq(EventTypes)]
        /\ rows \in Seq([payment : Payers, type : EventTypes])
        /\ notified \in [1 .. Len(rows) -> Nat] /\ Len(rows) \in Nat
    BY DEF PaymentsInv, PaymentsTypeOK, RowsTell
  <2>4. /\ Len(rows') = Len(rows) + 1
        /\ rows' \in Seq([payment : Payers, type : EventTypes])
        /\ rows'[Len(rows) + 1] = [payment |-> r, type |-> e]
        /\ \A i \in 1 .. Len(rows) : rows'[i] = rows[i]
    BY <2>2, <2>3
  <2>5. /\ notified' \in [1 .. Len(rows) + 1 -> Nat]
        /\ notified'[Len(rows) + 1] = 0
        /\ \A i \in 1 .. Len(rows) : notified'[i] = notified[i]
    <3>1. notified \in Seq(Nat) /\ Len(notified) = Len(rows) BY <2>3, ListOf
    <3>2. /\ notified' \in Seq(Nat) /\ Len(notified') = Len(rows) + 1
          /\ notified'[Len(rows) + 1] = 0
          /\ \A i \in 1 .. Len(rows) : notified'[i] = notified[i]
      BY <2>1, <3>1, AppendLast
    <3> QED BY <3>2
  <2>6. ASSUME NEW p \in Payers, NEW t \in EventTypes, Tells(p, t)
        PROVE  t \in Range(events'[p])
    <3>1. PICK k \in DOMAIN events[p] : events[p][k] = t BY <2>6 DEF Tells
    <3>2. events[p] \in Seq(EventTypes) BY <2>3
    <3>3. CASE p = r
      <4>1. events'[p] = Append(events[p], e) BY <2>2, <2>3, <3>3
      <4>2. k \in DOMAIN events'[p] /\ events'[p][k] = t BY <3>1, <3>2, <4>1
      <4> QED BY <4>2 DEF Range
    <3>4. CASE p # r
      <4>1. events'[p] = events[p] BY <2>2, <2>3, <3>4
      <4> QED BY <3>1, <4>1 DEF Range
    <3> QED BY <3>3, <3>4
  <2>7. e \in Range(events'[r])
    <3>1. events'[r] = Append(events[r], e) /\ events[r] \in Seq(EventTypes)
      BY <2>2, <2>3
    <3>2. /\ Len(events[r]) + 1 \in DOMAIN events'[r]
          /\ events'[r][Len(events[r]) + 1] = e
      BY <3>1
    <3> HIDE DEF Range
    <3>3. \A s, k : k \in DOMAIN s => s[k] \in Range(s) BY DEF Range
    <3> QED BY <3>2, <3>3
  <2>8. \A i \in 1 .. Len(rows) : rows[i] \in [payment : Payers, type : EventTypes]
    BY <2>3, ElementOf
  <2>9. ASSUME NEW i \in 1 .. Len(rows)
        PROVE  /\ rows'[i].type \in Range(events'[rows'[i].payment])
               /\ notified'[i] > 0 => rows'[i].type \in News!Terminal
    BY <2>4, <2>5, <2>6, <2>8 DEF RowsTell
  <2>10. /\ rows'[Len(rows) + 1].type \in Range(events'[rows'[Len(rows) + 1].payment])
         /\ ~ (notified'[Len(rows) + 1] > 0)
    BY <2>4, <2>5, <2>7
  <2>11. \A i \in 1 .. Len(rows') : i \in 1 .. Len(rows) \/ i = Len(rows) + 1
    BY <2>3, <2>4
  <2>12. \A i \in 1 .. Len(rows') :
           /\ rows'[i].type \in Range(events'[rows'[i].payment])
           /\ notified'[i] > 0 => rows'[i].type \in News!Terminal
    BY <2>9, <2>10, <2>11
  <2> QED BY <2>4, <2>5, <2>12 DEF RowsTell, Tells, Range, News!Terminal
<1> QED BY <1>1, <1>2

(* Relays and workers add nothing to the table, and tell outcomes only.    *)
LEMMA NewsTold ==
  ASSUME PaymentsInv, RowsTell, NewsTravels
  PROVE  RowsTell'
<1>1. events \in [Payers -> Seq(EventTypes)] /\ UNCHANGED events
  BY DEF PaymentsInv, PaymentsTypeOK, NewsTravels, payVars, paymentVars, tables
<1>2. rows \in Seq([payment : Payers, type : EventTypes])
      /\ notified \in [1 .. Len(rows) -> Nat]
  BY DEF RowsTell
<1>3. CASE News!OutboxStep
  <2>1. UNCHANGED rows
    <3>1. ASSUME NEW r \in Payers, News!RecordEvent(r) PROVE FALSE
      <4> DEFINE n == Len(events[r])
      <4>1. PICK c \in Courses : /\ n < Len(c)
                                 /\ events' = [events EXCEPT ![r] = Append(@, c[n + 1])]
        BY <3>1 DEF News!RecordEvent
      <4>2. events[r] \in Seq(EventTypes) /\ n \in Nat BY <1>1
      <4>3. c \in Seq(EventTypes) /\ Len(c) \in Nat BY CoursesAreEvents
      <4>4. n + 1 \in 1 .. Len(c) BY <4>1, <4>2, <4>3
      <4>5. c[n + 1] \in EventTypes BY <4>3, <4>4, ElementOf
      <4>6. events'[r] = Append(events[r], c[n + 1]) /\ events'[r] = events[r]
        BY <1>1, <4>1
      <4> QED BY <4>2, <4>5, <4>6, AppendGrows
    <3> QED
      BY <1>3, <3>1
      DEF News!OutboxStep, News!OutboxNext, News!RelayStep, News!Select, News!Send,
          News!MarkPublished, News!Resend, News!GiveUp, News!Publishing
  <2>2. notified' = notified
    <3>1. notified' = [i \in DOMAIN rows |-> IF i \in DOMAIN notified THEN notified[i] ELSE 0]
      BY <1>3, <2>1 DEF News!OutboxStep
    <3>2. DOMAIN rows = 1 .. Len(rows) /\ DOMAIN notified = 1 .. Len(rows) BY <1>2
    <3> QED BY <1>2, <3>1, <3>2
  <2> QED BY <1>1, <2>1, <2>2 DEF RowsTell, Tells
<1>4. ASSUME UNCHANGED <<rows, notified>> PROVE RowsTell'
  BY <1>1, <1>4 DEF RowsTell, Tells
<1>5. ASSUME NEW w \in Workers,
             News!WorkerStep(w) \/ News!HandleFails(w) \/ News!Lose(w)
      PROVE  RowsTell'
  <2>1. CASE News!Handle(w)
    <3>1. UNCHANGED rows BY <2>1 DEF News!Handle, News!Goto
    <3>2. CASE rows[News!Row(w)].type \notin News!Terminal
      BY <1>4, <2>1, <3>1, <3>2 DEF News!Handle
    <3>3. CASE rows[News!Row(w)].type \in News!Terminal
      <4> DEFINE m == News!Row(w)
      <4> HIDE DEF m
      <4>1. notified' = [notified EXCEPT ![m] = @ + 1] /\ rows[m].type \in News!Terminal
        BY <2>1, <3>3 DEF News!Handle, m
      <4>2. /\ notified' \in [1 .. Len(rows) -> Nat]
            /\ \A i \in 1 .. Len(rows) : i # m => notified'[i] = notified[i]
        <5>1. CASE m \in 1 .. Len(rows) BY <1>2, <4>1, <5>1
        <5>2. CASE m \notin 1 .. Len(rows)
          <6>1. notified' = notified BY <1>2, <4>1, <5>2
          <6> QED BY <1>2, <6>1
        <5> QED BY <5>1, <5>2
      <4>3. \A i \in 1 .. Len(rows) : notified'[i] > 0 => rows[i].type \in News!Terminal
        BY <4>1, <4>2 DEF RowsTell
      <4> HIDE DEF News!Terminal
      <4> QED BY <1>1, <1>2, <3>1, <4>2, <4>3 DEF RowsTell, Tells
    <3> QED BY <3>2, <3>3
  <2>2. CASE ~ News!Handle(w)
    BY <1>4, <1>5, <2>2
    DEF News!WorkerStep, News!Start, News!Fetch, News!CommitOffset, News!CommitRefused,
        News!HandleFails, News!Lose, News!Goto
  <2> QED BY <2>1, <2>2
<1>6. News!Assign \/ News!Rebalance => RowsTell'
  BY <1>4 DEF News!Assign, News!Rebalance, News!GiveTo
<1> QED BY <1>3, <1>5, <1>6 DEF NewsTravels, News!NotificationsNext

LEMMA InitPipeline == PipelineInit => PipelineInv
<1> SUFFICES ASSUME PipelineInit PROVE PipelineInv
  OBVIOUS
<1>1. rows = <<>> /\ notified = <<>>
  BY DEF PipelineInit, News!NotificationsInit, News!OutboxInit
<1>2. RowsTell BY <1>1 DEF RowsTell
<1> QED BY <1>2, InitPayments DEF PipelineInit, PipelineInv

LEMMA NextPipeline == PipelineInv /\ [PipelineNext]_pipelineVars => PipelineInv'
<1> SUFFICES ASSUME PipelineInv, [PipelineNext]_pipelineVars PROVE PipelineInv'
  OBVIOUS
<1>1. PaymentsInv /\ RowsTell BY DEF PipelineInv
<1>2. CASE PaymentsGoOn
  BY <1>1, <1>2, RowsTold, NextPayments DEF PaymentsGoOn, PipelineInv
<1>3. CASE NewsTravels
  BY <1>1, <1>3, NewsTold, NextPayments DEF NewsTravels, PipelineInv
<1>4. CASE UNCHANGED pipelineVars
  <2>1. UNCHANGED <<payVars, events, rows, notified>>
    BY <1>4 DEF pipelineVars, payVars, paymentVars, tables
  <2>2. PaymentsInv' BY <1>1, <2>1, NextPayments
  <2>3. RowsTell' BY <1>1, <2>1 DEF RowsTell, Tells, News!Terminal
  <2> QED BY <2>2, <2>3 DEF PipelineInv
<1> QED BY <1>2, <1>3, <1>4 DEF PipelineNext

LEMMA AlwaysPipelineInv == PipelineSpec => []PipelineInv
BY InitPipeline, NextPipeline, PTL DEF PipelineSpec

(* Whatever a user is told of a payment is so, and stays so.               *)
THEOREM ToldTheTruth == PipelineSpec => []WhatIsToldIsSo
<1>1. PipelineInv => WhatIsToldIsSo
  <2> SUFFICES ASSUME PipelineInv, NEW i \in DOMAIN rows, notified[i] > 0
               PROVE  LET leg == legs[rows[i].payment] IN
                      \/ /\ rows[i].type = "SUCCESS"
                         /\ leg.debit = 1 /\ leg.credit = 1 /\ leg.refund = 0
                      \/ /\ rows[i].type = "FAILED"
                         /\ leg.credit = 0 /\ leg.refund = leg.debit
    BY DEF WhatIsToldIsSo
  <2> DEFINE r == rows[i].payment
             t == rows[i].type
  <2> HIDE DEF r, t
  <2>1. rows \in Seq([payment : Payers, type : EventTypes]) /\ i \in 1 .. Len(rows)
    BY DEF PipelineInv, RowsTell
  <2>2. r \in Payers /\ Tells(r, t) /\ t \in News!Terminal
    <3>1. rows[i] \in [payment : Payers, type : EventTypes] BY <2>1, ElementOf
    <3>2. Tells(rows[i].payment, rows[i].type) /\ rows[i].type \in News!Terminal
      BY <2>1 DEF PipelineInv, RowsTell
    <3> QED BY <3>1, <3>2 DEF r, t
  <2>3. t \in {"SUCCESS", "FAILED"} /\ paid[r] = t
    BY <2>2, EventsTold DEF PipelineInv, EventsTellPayment, News!Terminal
  <2>4. legs[r] \in [debit : Nat, credit : Nat, refund : Nat]
    BY <2>2 DEF PipelineInv, PaymentsInv, PaymentsTypeOK
  <2>5. /\ legs[r].debit <= 1
        /\ legs[r].credit + legs[r].refund <= legs[r].debit
        /\ paid[r] = "SUCCESS" => legs[r].credit = 1
        /\ paid[r] = "FAILED" => legs[r].refund = legs[r].debit
    BY <2>2, StatusTold DEF PipelineInv, StatusTellsMoney
  <2>6. CASE t = "SUCCESS"
    <3>1. legs[r].debit = 1 /\ legs[r].credit = 1 /\ legs[r].refund = 0
      BY <2>3, <2>4, <2>5, <2>6
    <3> QED BY <2>6, <3>1 DEF r, t
  <2>7. CASE t = "FAILED"
    <3>1. legs[r].credit = 0 /\ legs[r].refund = legs[r].debit
      BY <2>3, <2>4, <2>5, <2>7
    <3> QED BY <2>7, <3>1 DEF r, t
  <2> QED BY <2>3, <2>6, <2>7
<1> QED BY <1>1, AlwaysPipelineInv, PTL

-----------------------------------------------------------------------------
(* A commit of a payment is RecordEvent, or nothing to the outbox.         *)
LEMMA CommitsRecord ==
  ASSUME PipelineInv, PaymentsGoOn
  PROVE  [News!NotificationsNext]_News!allVars
<1>1. CASE UNCHANGED <<events, rows, notified>>
  BY <1>1 DEF PaymentsGoOn, News!allVars, News!outboxVars, News!workerVars, News!groupVars
<1>2. CASE ~ UNCHANGED <<events, rows, notified>>
  <2>1. PICK r \in Payers : /\ events'[r] # events[r]
                            /\ rows' = Append(rows, NewRow(r))
                            /\ notified' = Append(notified, 0)
    BY <1>2 DEF PaymentsGoOn
  <2>2. PICK e \in EventTypes :
          /\ events' = [events EXCEPT ![r] = Append(@, e)]
          /\ rows' = Append(rows, [payment |-> r, type |-> e])
    BY <2>1, RowAdded DEF PaymentsGoOn, PipelineInv
  <2>3. /\ events \in [Payers -> Seq(EventTypes)] /\ events[r] \in Seq(EventTypes)
        /\ events'[r] = Append(events[r], e)
    BY <2>2 DEF PipelineInv, PaymentsInv, PaymentsTypeOK
  <2>4. EventsTellPayment'
    <3>1. PaymentsInv' BY NextPayments DEF PaymentsGoOn, PipelineInv
    <3> QED BY <3>1, EventsTold, PTL
  <2>5. PICK c \in Courses : /\ Len(events'[r]) <= Len(c)
                             /\ events'[r] = SubSeq(c, 1, Len(events'[r]))
    BY <2>4 DEF EventsTellPayment, Courses
  <2>6. c \in Seq(EventTypes) BY CoursesAreEvents
  <2> DEFINE n == Len(events[r])
  <2>7. n < Len(c) /\ events[r] = SubSeq(c, 1, n) /\ e = c[n + 1]
    <3> HIDE DEF n
    <3>1. n \in Nat /\ Len(events'[r]) = n + 1 /\ Len(c) \in Nat BY <2>3, <2>6 DEF n
    <3>2. n + 1 <= Len(c) /\ events'[r] = SubSeq(c, 1, n + 1) BY <2>5, <3>1
    <3>3. \A k \in 1 .. n + 1 : events'[r][k] = c[k] BY <2>6, <3>1, <3>2
    <3>4. events'[r][n + 1] = e /\ \A k \in 1 .. n : events'[r][k] = events[r][k]
      BY <2>3 DEF n
    <3>5. \A k \in 1 .. n : events[r][k] = c[k] BY <3>1, <3>3, <3>4
    <3>6. SubSeq(c, 1, n) \in Seq(EventTypes) /\ Len(SubSeq(c, 1, n)) = n
          /\ \A k \in 1 .. n : SubSeq(c, 1, n)[k] = c[k]
      BY <2>6, <3>1, <3>2
    <3>7. events[r] = SubSeq(c, 1, n) BY <2>3, <3>5, <3>6 DEF n
    <3> QED BY <3>1, <3>2, <3>3, <3>4, <3>7
  <2>8. News!RecordEvent(r)
    BY <2>2, <2>7 DEF News!RecordEvent, PaymentsGoOn
  <2>9. notified' = [i \in DOMAIN rows' |-> IF i \in DOMAIN notified THEN notified[i] ELSE 0]
    <3>1. /\ rows \in Seq([payment : Payers, type : EventTypes])
          /\ notified \in Seq(Nat) /\ Len(notified) = Len(rows)
      <4>1. /\ rows \in Seq([payment : Payers, type : EventTypes]) /\ Len(rows) \in Nat
            /\ notified \in [1 .. Len(rows) -> Nat]
        BY DEF PipelineInv, RowsTell
      <4> QED BY <4>1, ListOf
    <3>2. DOMAIN rows' = 1 .. Len(rows) + 1 BY <2>2, <3>1
    <3>3. /\ notified' \in [1 .. Len(rows) + 1 -> Nat]
          /\ notified'[Len(rows) + 1] = 0
          /\ \A i \in 1 .. Len(rows) : notified'[i] = notified[i]
      <4>1. /\ notified' \in Seq(Nat) /\ Len(notified') = Len(rows) + 1
            /\ notified'[Len(rows) + 1] = 0
            /\ \A i \in 1 .. Len(rows) : notified'[i] = notified[i]
        BY <2>1, <3>1, AppendLast
      <4> QED BY <4>1
    <3>4. DOMAIN notified = 1 .. Len(rows) /\ Len(rows) \in Nat BY <3>1
    <3> QED BY <3>2, <3>3, <3>4
  <2> QED
    BY <2>8, <2>9
    DEF PaymentsGoOn, News!NotificationsNext, News!OutboxStep, News!OutboxNext, News!groupVars
<1> QED BY <1>1, <1>2

(* Relays and workers are fed by payments as Outbox says: what is proved   *)
(* of them there holds behind real payments.                               *)
THEOREM PaymentsFeedTheOutbox == PipelineSpec => PaymentsFeedOutbox
<1>1. PipelineInit => News!NotificationsInit BY DEF PipelineInit
<1>2. PipelineInv /\ [PipelineNext]_pipelineVars => [News!NotificationsNext]_News!allVars
  <2> SUFFICES ASSUME PipelineInv, [PipelineNext]_pipelineVars
               PROVE  [News!NotificationsNext]_News!allVars
    OBVIOUS
  <2>1. CASE PaymentsGoOn BY <2>1, CommitsRecord
  <2>2. CASE NewsTravels BY <2>2 DEF NewsTravels
  <2>3. CASE UNCHANGED pipelineVars
    BY <2>3 DEF pipelineVars, payVars, paymentVars, tables, News!allVars, News!outboxVars,
                News!workerVars, News!groupVars
  <2> QED BY <2>1, <2>2, <2>3 DEF PipelineNext
<1> QED
  BY <1>1, <1>2, AlwaysPipelineInv, PTL DEF PipelineSpec, PaymentsFeedOutbox,
     News!NotificationsSpec
=============================================================================
