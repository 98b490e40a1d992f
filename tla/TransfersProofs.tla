--------------------------- MODULE TransfersProofs --------------------------
(***************************************************************************)
(* Inv is an inductive invariant of Transfers, whatever the accounts, the  *)
(* requests, the amounts and the scripts; with it no account is ever       *)
(* overdrawn, the transfers implement Bank, and no balance a client is     *)
(* told is more than the account has.  What a transfer is to other         *)
(* processes is stated for PaymentsProofs, which puts it next to payments. *)
(***************************************************************************)
EXTENDS Balances, LedgerProofs

(* The request a transfer under way serves.                                *)
LEMMA RequestType ==
  ASSUME TransfersTypeOK, NEW t \in Transferers, tpc[t] \notin {"idle"} \cup Ended
  PROVE  /\ treq[t].from \in Accounts /\ treq[t].to \in Accounts
         /\ treq[t].from # treq[t].to
         /\ treq[t].amount \in Amounts /\ treq[t].amount \in Nat \ {0}
         /\ LockOrder(treq[t])[1] \in Accounts
         /\ LockOrder(treq[t])[2] \in Accounts
         /\ LockOrder(treq[t])[1] # LockOrder(treq[t])[2]
         /\ {LockOrder(treq[t])[1], LockOrder(treq[t])[2]} = {treq[t].from, treq[t].to}
<1>1. tpc[t] \in Stages BY DEF TransfersTypeOK
<1>2. treq[t] # NoRequest BY <1>1 DEF TransfersTypeOK
<1>3. treq[t] \in Requests /\ Accepted(treq[t])
  BY <1>2 DEF TransfersTypeOK
<1>4. /\ treq[t].from \in Accounts /\ treq[t].to \in Accounts
      /\ treq[t].from # treq[t].to
      /\ treq[t].amount \in Amounts
  BY <1>3 DEF Requests, Accepted
<1> QED BY <1>4, LedgerAssumption DEF LockOrder

(* A step of one process leaves the others' stages as they stand.          *)
LEMMA OthersKept ==
  ASSUME Inv, NEW p \in Procs,
         \A u \in Transferers \ {p} : tpc'[u] = tpc[u] /\ treq'[u] = treq[u],
         \A s \in Seeders \ {p} : spc'[s] = spc[s],
         \A q \in Procs \ {p} : posting'[q] = posting[q] /\ pending'[q] = pending[q],
         \A u \in Procs \ {p}, b \in Accounts : Holds(u, b) => Holds(u, b)'
  PROVE  /\ \A u \in Transferers \ {p} :
               LocksTaken(u)' /\ SumRead(u)' /\ EntriesPending(u)'
         /\ \A s \in Seeders \ {p} : SeedPending(s)'
<1>1. ASSUME NEW u \in Transferers \ {p}
      PROVE  LocksTaken(u)' /\ SumRead(u)' /\ EntriesPending(u)'
  <2>1. /\ u \in Procs \ {p} /\ tpc'[u] = tpc[u] /\ treq'[u] = treq[u]
        /\ posting'[u] = posting[u] /\ pending'[u] = pending[u]
        /\ LocksTaken(u) /\ SumRead(u) /\ EntriesPending(u)
    BY TransfersAssumption DEF Inv
  <2>2. LocksTaken(u)'
    <3>1. tpc[u] = "secondLock" => LockOrder(treq[u])[1] \in Accounts
      BY RequestType DEF Inv, Ended
    <3>2. tpc[u] \in Critical => treq[u].from \in Accounts /\ treq[u].to \in Accounts
      BY RequestType DEF Inv, Ended, Critical
    <3>3. ASSUME NEW b \in Accounts, Holds(u, b) PROVE Holds(u, b)'
      BY <2>1, <3>3
    <3>4. tpc[u] = "secondLock" => Holds(u, LockOrder(treq[u])[1])'
      BY <2>1, <3>1, <3>3 DEF LocksTaken, Holds
    <3>5. tpc[u] \in Critical => Holds(u, treq[u].from)' /\ Holds(u, treq[u].to)'
      BY <2>1, <3>2, <3>3 DEF LocksTaken, Holds
    <3> QED BY <2>1, <3>4, <3>5 DEF LocksTaken, LockOrder
  <2>3. SumRead(u)' BY <2>1 DEF SumRead
  <2>4. EntriesPending(u)' BY <2>1 DEF EntriesPending
  <2> QED BY <2>2, <2>3, <2>4
<1>2. ASSUME NEW s \in Seeders \ {p} PROVE SeedPending(s)'
  BY LedgerAssumption DEF SeedPending, Inv
<1> QED BY <1>1, <1>2

(* What is left to show of a step of transfer t.                           *)
LEMMA OwnStep ==
  ASSUME Inv, NEW t \in Transferers, NEW at \in Stages,
         Goto(t, at), UNCHANGED <<treq, spc>>,
         at \notin {"idle"} \cup Ended => tpc[t] \notin {"idle"} \cup Ended,
         LedgerInv',
         \A q \in Procs \ {t} : posting'[q] = posting[q] /\ pending'[q] = pending[q],
         \A u \in Procs \ {t}, b \in Accounts : Holds(u, b) => Holds(u, b)',
         LocksTaken(t)', SumRead(t)', EntriesPending(t)'
  PROVE  Inv'
<1>1. /\ tpc'[t] = at
      /\ \A u \in Transferers \ {t} : tpc'[u] = tpc[u]
      /\ tpc' \in [Transferers -> Stages]
  BY DEF Goto, Inv, TransfersTypeOK
<1>2. TransfersTypeOK'
  BY <1>1 DEF Inv, TransfersTypeOK
<1>3. t \in Procs /\ t \notin Seeders BY TransfersAssumption
<1>4. /\ \A u \in Transferers \ {t} :
            LocksTaken(u)' /\ SumRead(u)' /\ EntriesPending(u)'
      /\ \A s \in Seeders \ {t} : SeedPending(s)'
  BY <1>1, <1>3, OthersKept
<1> QED BY <1>2, <1>3, <1>4 DEF Inv

(* Nobody's lock, sum or entry is touched.                                 *)
LEMMA StartStep ==
  ASSUME Inv, NEW t \in Transferers, Start(t)
  PROVE  Inv'
<1> USE DEF Inv
<1>1. t \in Procs /\ t \notin Seeders BY TransfersAssumption
<1>2. PICK r \in Requests : /\ Accepted(r)
                           /\ treq' = [treq EXCEPT ![t] = r]
                           /\ Load(t, {r.from, r.to})
  BY DEF Start
<1>3. /\ tpc[t] = "idle" /\ tpc' = [tpc EXCEPT ![t] = "loaded"]
      /\ UNCHANGED <<dbVars, queue, posting, pending, spc>>
  BY DEF Start, Goto
<1>4. identity' \in [Procs -> [Accounts -> Statuses \cup {"UNLOADED"}]]
  BY <1>1, <1>2 DEF Load, Seen, LedgerInv, LedgerTypeOK
<1>5. LedgerInv'
  BY <1>3, <1>4 DEF dbVars, LedgerInv, LedgerTypeOK, SumsReadHold,
     PendingEntriesHold, Holds, Balance, AmountOf, NoOverdraft, RunningBalance
<1>6. r # NoRequest /\ r.amount # 0
  BY <1>2, LedgerAssumption DEF Requests, NoRequest
<1>7. TransfersTypeOK'
  BY <1>2, <1>3, <1>6 DEF TransfersTypeOK, Stages
<1>8. LocksTaken(t)' /\ SumRead(t)' /\ EntriesPending(t)'
  BY <1>1, <1>3 DEF LocksTaken, SumRead, EntriesPending, TransfersTypeOK, Critical
<1>9. /\ \A u \in Transferers \ {t} :
            LocksTaken(u)' /\ SumRead(u)' /\ EntriesPending(u)'
      /\ \A s \in Seeders \ {t} : SeedPending(s)'
  <2>1. \A u \in Transferers \ {t} : tpc'[u] = tpc[u] /\ treq'[u] = treq[u]
    BY <1>2, <1>3 DEF TransfersTypeOK
  <2> QED BY <2>1, <1>1, <1>3, OthersKept DEF Holds
<1> QED BY <1>1, <1>5, <1>7, <1>8, <1>9

LEMMA RefuseStep ==
  ASSUME Inv, NEW t \in Transferers, Refuse(t)
  PROVE  Inv'
<1>1. tpc[t] = "idle" /\ Goto(t, "refused") /\ UNCHANGED <<ledgerVars, treq, spc>>
  BY DEF Refuse
<1>2. LedgerInv' BY <1>1, UnchangedStep DEF Inv
<1>3. LocksTaken(t)' /\ SumRead(t)' /\ EntriesPending(t)'
  BY <1>1 DEF Inv, Goto, TransfersTypeOK, ledgerVars, sessionVars,
     LocksTaken, SumRead, EntriesPending, Critical
<1> QED BY <1>1, <1>2, <1>3, OwnStep DEF ledgerVars, sessionVars, Holds, Stages, Ended

LEMMA AskFirstStep ==
  ASSUME Inv, NEW t \in Transferers, AskFirst(t)
  PROVE  Inv'
<1>1. /\ tpc[t] = "loaded" /\ Goto(t, "firstLock")
      /\ Join(t, LockOrder(treq[t])[1])
      /\ UNCHANGED <<dbVars, sessionVars, treq, spc>>
  BY DEF AskFirst
<1>2. t \in Procs \ Seeders /\ LockOrder(treq[t])[1] \in Accounts
  BY <1>1, TransfersAssumption, RequestType DEF Inv, Ended
<1>3. LedgerInv' BY <1>1, <1>2, JoinStep DEF Inv
<1>4. LocksTaken(t)' /\ SumRead(t)' /\ EntriesPending(t)'
  BY <1>1 DEF Inv, Goto, TransfersTypeOK, sessionVars,
     LocksTaken, SumRead, EntriesPending, Critical
<1>5. \A u \in Procs, b \in Accounts : Holds(u, b) => Holds(u, b)'
  BY <1>1, <1>2, JoinKeepsHolders DEF Inv, LedgerInv
<1> QED BY <1>1, <1>3, <1>4, <1>5, OwnStep DEF sessionVars, Stages, Ended

LEMMA AskSecondStep ==
  ASSUME Inv, NEW t \in Transferers, AskSecond(t)
  PROVE  Inv'
<1>1. /\ tpc[t] = "firstLock" /\ Goto(t, "secondLock")
      /\ Holds(t, LockOrder(treq[t])[1])
      /\ Join(t, LockOrder(treq[t])[2])
      /\ UNCHANGED <<dbVars, sessionVars, treq, spc>>
  BY DEF AskSecond
<1>2. /\ t \in Procs \ Seeders
      /\ LockOrder(treq[t])[1] \in Accounts /\ LockOrder(treq[t])[2] \in Accounts
  BY <1>1, TransfersAssumption, RequestType DEF Inv, Ended
<1>3. LedgerInv' BY <1>1, <1>2, JoinStep DEF Inv
<1>4. \A u \in Procs, b \in Accounts : Holds(u, b) => Holds(u, b)'
  BY <1>1, <1>2, JoinKeepsHolders DEF Inv, LedgerInv
<1>5. tpc'[t] = "secondLock" BY <1>1 DEF Inv, Goto, TransfersTypeOK
<1>6. LocksTaken(t)'
  <2>1. Holds(t, LockOrder(treq[t])[1])' BY <1>1, <1>2, <1>4 DEF Holds
  <2> QED BY <2>1, <1>5 DEF LocksTaken, Critical
<1>7. SumRead(t)' /\ EntriesPending(t)'
  BY <1>1, <1>5 DEF Inv, sessionVars, SumRead, EntriesPending
<1> QED BY <1>1, <1>3, <1>4, <1>6, <1>7, OwnStep DEF sessionVars, Stages, Ended

LEMMA EnterStep ==
  ASSUME Inv, NEW t \in Transferers, Enter(t)
  PROVE  Inv'
<1>1. /\ tpc[t] = "secondLock" /\ Goto(t, "debit")
      /\ Holds(t, LockOrder(treq[t])[2])
      /\ UNCHANGED <<ledgerVars, treq, spc>>
  BY DEF Enter
<1>2. LedgerInv' BY <1>1, UnchangedStep DEF Inv
<1>3. tpc'[t] = "debit" BY <1>1 DEF Inv, Goto, TransfersTypeOK
<1>4. LocksTaken(t)'
  <2>1. Holds(t, LockOrder(treq[t])[1]) BY <1>1 DEF Inv, LocksTaken
  <2>2. Holds(t, treq[t].from) /\ Holds(t, treq[t].to)
    BY <2>1, <1>1 DEF LockOrder
  <2> QED BY <2>2, <1>1, <1>3 DEF LocksTaken, Holds, ledgerVars
<1>5. SumRead(t)' /\ EntriesPending(t)'
  BY <1>1, <1>3 DEF Inv, ledgerVars, sessionVars, SumRead, EntriesPending
<1> QED BY <1>1, <1>2, <1>4, <1>5, OwnStep
        DEF ledgerVars, sessionVars, Holds, Stages, Critical, Ended

(* The two SELECTs that start a leg are made under the account's lock.     *)
LEMMA ReadStep ==
  ASSUME Inv, NEW t \in Transferers, DebitRead(t) \/ CreditRead(t)
  PROVE  Inv'
<1>1. PICK a \in {treq[t].from, treq[t].to}, at \in {"debitSum", "creditSum"} :
        /\ IF at = "debitSum" THEN tpc[t] = "debit" /\ a = treq[t].from
                                 ELSE tpc[t] = "credit" /\ a = treq[t].to
        /\ Goto(t, at) /\ PostEntryRead(t, a)
        /\ UNCHANGED <<dbVars, queue, treq, spc>>
  BY DEF DebitRead, CreditRead
<1>2. t \in Procs /\ t \notin Seeders /\ a \in Accounts
  BY <1>1, TransfersAssumption, RequestType DEF Inv, Ended
<1>3. Holds(t, a) BY <1>1 DEF Inv, LocksTaken, Critical
<1>4. /\ ReadCredits(t, a) /\ UNCHANGED pending
      /\ identity' \in [Procs -> [Accounts -> Statuses \cup {"UNLOADED"}]]
  BY <1>1, <1>2 DEF PostEntryRead, Load, Seen, Inv, LedgerInv, LedgerTypeOK
<1>5. LedgerInv' /\ posting'[t].account = a
  BY <1>1, <1>2, <1>3, <1>4, ReadCreditsStep DEF Inv
<1>6. \A q \in Procs \ {t} : posting'[q] = posting[q]
  BY <1>4 DEF ReadCredits, Inv, LedgerInv, LedgerTypeOK
<1>7. tpc'[t] = at BY <1>1 DEF Inv, Goto, TransfersTypeOK
<1>8. LocksTaken(t)' BY <1>1, <1>7 DEF Inv, LocksTaken, Holds, Critical
<1>9. SumRead(t)' /\ EntriesPending(t)'
  BY <1>1, <1>4, <1>5, <1>7 DEF Inv, SumRead, EntriesPending
<1> QED BY <1>1, <1>4, <1>5, <1>6, <1>8, <1>9, OwnStep DEF Holds, Stages, Critical, Ended

(* An INSERT leaves its entry pending on the account whose sum was read.   *)
LEMMA InsertStep ==
  ASSUME Inv, NEW t \in Transferers, DebitInsert(t) \/ CreditInsert(t)
  PROVE  Inv'
<1>1. PICK a \in {treq[t].from, treq[t].to}, type \in {"DEBIT", "CREDIT"} :
        /\ IF type = "DEBIT"
           THEN tpc[t] = "debitSum" /\ a = treq[t].from /\ Goto(t, "credit")
           ELSE tpc[t] = "creditSum" /\ a = treq[t].to /\ Goto(t, "commit")
        /\ InsertEntry(t, type, treq[t].amount)
        /\ UNCHANGED <<dbVars, queue, treq, spc>>
  BY DEF DebitInsert, CreditInsert
<1>2. /\ t \in Procs /\ t \notin Seeders /\ a \in Accounts
      /\ treq[t].from # treq[t].to /\ treq[t].amount \in Nat \ {0}
      /\ treq[t].from \in Accounts /\ treq[t].to \in Accounts
  BY <1>1, TransfersAssumption, RequestType DEF Inv, Ended
<1>3. posting[t].account = a /\ posting[t] # NotPosting
  BY <1>1, <1>2, LedgerAssumption DEF Inv, SumRead, NotPosting
<1> DEFINE e == NewEntry(t, type, treq[t].amount)
<1>4. /\ LedgerInv'
      /\ posting'[t] = NotPosting
      /\ pending' = [pending EXCEPT ![t][a] = e]
      /\ e.type = type /\ e.amount = treq[t].amount
  BY <1>1, <1>2, <1>3, InsertEntryStep DEF Inv, NewEntry
<1>5. \A q \in Procs \ {t} : posting'[q] = posting[q] /\ pending'[q] = pending[q]
  BY <1>1, <1>4 DEF InsertEntry, Inv, LedgerInv, LedgerTypeOK
<1>6. /\ pending'[t][a] = e
      /\ \A b \in Accounts \ {a} : pending'[t][b] = pending[t][b]
  BY <1>2, <1>4 DEF Inv, LedgerInv, LedgerTypeOK
<1> HIDE DEF e
<1>7. tpc'[t] = IF type = "DEBIT" THEN "credit" ELSE "commit"
  BY <1>1 DEF Inv, Goto, TransfersTypeOK
<1>8. LocksTaken(t)' BY <1>1, <1>7 DEF Inv, LocksTaken, Holds, Critical
<1>9. SumRead(t)' BY <1>4, <1>7 DEF SumRead
<1>10. EntriesPending(t)'
  <2>1. CASE type = "DEBIT"
    <3>1. \A b \in Accounts : pending[t][b] = NoEntry
      BY <1>1, <2>1 DEF Inv, EntriesPending, NoEntries
    <3> QED BY <3>1, <2>1, <1>1, <1>2, <1>4, <1>6, <1>7 DEF EntriesPending
  <2>2. CASE type = "CREDIT"
    <3>1. /\ pending[t][treq[t].from].type = "DEBIT"
          /\ pending[t][treq[t].from].amount = treq[t].amount
          /\ \A b \in Accounts \ {treq[t].from, treq[t].to} : pending[t][b] = NoEntry
      BY <1>1, <2>2 DEF Inv, EntriesPending
    <3> QED BY <3>1, <2>2, <1>1, <1>2, <1>4, <1>6, <1>7 DEF EntriesPending
  <2> QED BY <2>1, <2>2
<1> QED BY <1>1, <1>4, <1>5, <1>8, <1>9, <1>10, OwnStep DEF Holds, Stages, Critical, Ended

LEMMA CommitTransferStep ==
  ASSUME Inv, NEW t \in Transferers, Commit(t)
  PROVE  Inv'
<1>1. /\ tpc[t] = "commit" /\ Goto(t, "done") /\ CommitEntries(t) /\ Release(t)
      /\ UNCHANGED <<treq, spc>>
  BY DEF Commit
<1>2. t \in Procs /\ t \notin Seeders BY TransfersAssumption
<1>3. posting[t] = NotPosting BY <1>1 DEF Inv, SumRead
<1>4. LedgerInv' BY <1>1, <1>2, <1>3, CommitStep DEF Inv
<1>5. /\ pending'[t] = NoEntries
      /\ \A q \in Procs \ {t} : posting'[q] = posting[q] /\ pending'[q] = pending[q]
      /\ posting' = posting
  BY <1>1, <1>2, <1>3, CommitEntriesStep DEF Inv, CommitEntries
<1>6. \A u \in Procs \ {t}, b \in Accounts : Holds(u, b) => Holds(u, b)'
  BY <1>1, <1>2, ReleaseKeepsHolders DEF Inv, LedgerInv
<1>7. tpc'[t] = "done" BY <1>1 DEF Inv, Goto, TransfersTypeOK
<1>8. LocksTaken(t)' /\ SumRead(t)' /\ EntriesPending(t)'
  BY <1>3, <1>5, <1>7 DEF LocksTaken, SumRead, EntriesPending, Critical
<1> QED BY <1>1, <1>4, <1>5, <1>6, <1>8, OwnStep DEF Stages, Ended

LEMMA AbandonStep ==
  ASSUME Inv, NEW t \in Transferers, NEW at \in {"refused", "error"},
         Abandon(t, at)
  PROVE  Inv'
<1>1. /\ Goto(t, at) /\ Release(t) /\ CloseSession(t)
      /\ UNCHANGED <<dbVars, treq, spc>>
  BY DEF Abandon
<1>2. t \in Procs \ Seeders BY TransfersAssumption
<1>3. LedgerInv' BY <1>1, <1>2, CloseStep DEF Inv
<1>4. /\ posting'[t] = NotPosting /\ pending'[t] = NoEntries
      /\ \A q \in Procs \ {t} : posting'[q] = posting[q] /\ pending'[q] = pending[q]
  BY <1>1, <1>2 DEF CloseSession, Inv, LedgerInv, LedgerTypeOK
<1>5. \A u \in Procs \ {t}, b \in Accounts : Holds(u, b) => Holds(u, b)'
  BY <1>1, <1>2, ReleaseKeepsHolders DEF Inv, LedgerInv
<1>6. tpc'[t] = at BY <1>1 DEF Inv, Goto, TransfersTypeOK
<1>7. LocksTaken(t)' /\ SumRead(t)' /\ EntriesPending(t)'
  BY <1>4, <1>6 DEF LocksTaken, SumRead, EntriesPending, Critical
<1> QED BY <1>1, <1>3, <1>4, <1>5, <1>7, OwnStep DEF Stages, Ended

(* A seed script only ever adds a credit.                                  *)
LEMMA SeederKeeps ==
  ASSUME Inv, NEW s \in Seeders, SeederStep(s)
  PROVE  Inv'
<1>1. s \in Procs /\ s \notin Transferers BY LedgerAssumption, TransfersAssumption
<1>2. /\ UNCHANGED <<tpc, treq, queue>>
      /\ \A u \in Seeders \ {s} : spc'[u] = spc[u]
      /\ TransfersTypeOK'
  BY DEF SeederStep, SeedRead, SeedInsert, SeedCommit, SeedStep, Inv, TransfersTypeOK
<1>3. /\ LedgerInv' /\ SeedPending(s)'
      /\ \A q \in Procs \ {s} : posting'[q] = posting[q] /\ pending'[q] = pending[q]
  <2>1. CASE SeedRead(s)
    <3>1. PICK a \in Accounts : ReadCredits(s, a)
      BY <2>1 DEF SeedRead
    <3>2. /\ UNCHANGED <<dbVars, queue, identity, pending>>
          /\ spc[s] = "idle" /\ spc'[s] = "insert"
      BY <2>1 DEF SeedRead, SeedStep, Inv, TransfersTypeOK
    <3>3. LedgerInv' /\ posting'[s] # NotPosting
      BY <3>1, <3>2, <1>1, ReadCreditsStep DEF Inv, LedgerInv, LedgerTypeOK
    <3>4. pending[s] = NoEntries BY <3>2 DEF Inv, SeedPending
    <3> QED BY <3>1, <3>2, <3>3, <3>4, <1>1
            DEF SeedPending, ReadCredits, Inv, LedgerInv, LedgerTypeOK
  <2>2. CASE SeedInsert(s)
    <3>1. PICK n \in Amounts : InsertEntry(s, "CREDIT", n)
      BY <2>2 DEF SeedInsert
    <3>2. /\ UNCHANGED <<dbVars, queue>> /\ n \in Nat \ {0}
          /\ spc[s] = "insert" /\ spc'[s] = "commit"
      BY <2>2, LedgerAssumption DEF SeedInsert, SeedStep, Inv, TransfersTypeOK
    <3>3. posting[s] # NotPosting /\ pending[s] = NoEntries
      BY <3>2 DEF Inv, SeedPending
    <3> DEFINE a == posting[s].account
               e == NewEntry(s, "CREDIT", n)
    <3>4. /\ LedgerInv' /\ posting'[s] = NotPosting
          /\ pending' = [pending EXCEPT ![s][a] = e]
          /\ e.type = "CREDIT" /\ e.amount = n
      BY <3>1, <3>2, <3>3, <1>1, InsertEntryStep DEF Inv, NewEntry
    <3>5. a \in Accounts BY <3>3, <1>1 DEF Inv, LedgerInv, LedgerTypeOK
    <3>6. /\ pending'[s][a] = e
          /\ \A b \in Accounts \ {a} : pending'[s][b] = NoEntry
          /\ \A q \in Procs \ {s} : posting'[q] = posting[q] /\ pending'[q] = pending[q]
      BY <3>1, <3>3, <3>4, <3>5, <1>1
         DEF InsertEntry, Inv, LedgerInv, LedgerTypeOK, NoEntries
    <3> HIDE DEF e, a
    <3> QED BY <3>2, <3>4, <3>5, <3>6 DEF SeedPending
  <2>3. CASE SeedCommit(s)
    <3>1. CommitEntries(s) /\ spc[s] = "commit" /\ spc'[s] = "done"
      BY <2>3 DEF SeedCommit, SeedStep, Inv, TransfersTypeOK
    <3>2. posting[s] = NotPosting BY <3>1 DEF Inv, SeedPending
    <3>3. LedgerInv' BY <3>1, <3>2, <1>1, <1>2, CommitStep DEF Inv
    <3>4. /\ pending'[s] = NoEntries /\ posting' = posting
          /\ \A q \in Procs \ {s} : pending'[q] = pending[q]
      BY <3>1, <3>2, <1>1, CommitEntriesStep DEF Inv, CommitEntries
    <3> QED BY <3>1, <3>2, <3>3, <3>4 DEF SeedPending
  <2> QED BY <2>1, <2>2, <2>3 DEF SeederStep
<1>4. /\ \A u \in Transferers \ {s} :
            LocksTaken(u)' /\ SumRead(u)' /\ EntriesPending(u)'
      /\ \A u \in Seeders \ {s} : SeedPending(u)'
  BY <1>1, <1>2, <1>3, OthersKept DEF Holds
<1> QED BY <1>1, <1>2, <1>3, <1>4 DEF Inv

LEMMA OperatorStep ==
  ASSUME Inv, Operator
  PROVE  Inv'
<1>1. PICK a \in Accounts : SetStatus(a) /\ UNCHANGED transferVars
  BY LedgerAssumption DEF Operator
<1>2. LedgerInv' BY <1>1, SetStatusStep DEF Inv
<1> QED BY <1>1, <1>2 DEF Inv, SetStatus, sessionVars, transferVars, TransfersTypeOK,
           LocksTaken, SumRead, EntriesPending, SeedPending, Holds

LEMMA CrashStep ==
  ASSUME Inv, Crash
  PROVE  Inv'
<1>1. LedgerInv' BY LostStep DEF Inv, Crash
<1>2. TransfersTypeOK' BY DEF Inv, Crash, TransfersLost, TransfersTypeOK, Stages, Ended
<1>3. ASSUME NEW t \in Transferers
      PROVE  LocksTaken(t)' /\ SumRead(t)' /\ EntriesPending(t)'
  <2>1. t \in Procs \ Seeders BY TransfersAssumption
  <2>2. tpc'[t] \in {"idle"} \cup Ended
    BY DEF Crash, TransfersLost, Ended
  <2>3. posting'[t] = NotPosting /\ pending'[t] = NoEntries
    BY <2>1 DEF Crash, LedgerLost
  <2> QED BY <2>2, <2>3 DEF LocksTaken, SumRead, EntriesPending, Critical, Ended
<1>4. ASSUME NEW s \in Seeders PROVE SeedPending(s)'
  BY LedgerAssumption DEF Inv, Crash, LedgerLost, TransfersLost, SeedPending
<1> QED BY <1>1, <1>2, <1>3, <1>4 DEF Inv

-----------------------------------------------------------------------------
LEMMA InitInv == Init => Inv
<1> SUFFICES ASSUME Init PROVE Inv
  OBVIOUS
<1>1. LedgerInv BY InitHolds DEF Init
<1>2. TransfersTypeOK BY DEF Init, TransfersInit, TransfersTypeOK, Stages
<1>3. ASSUME NEW t \in Transferers
      PROVE  LocksTaken(t) /\ SumRead(t) /\ EntriesPending(t)
  BY TransfersAssumption
     DEF Init, TransfersInit, LedgerInit, LocksTaken, SumRead, EntriesPending, Critical
<1>4. ASSUME NEW s \in Seeders PROVE SeedPending(s)
  BY LedgerAssumption DEF Init, TransfersInit, LedgerInit, SeedPending
<1> QED BY <1>1, <1>2, <1>3, <1>4 DEF Inv

LEMMA NextInv == Inv /\ [Next]_vars => Inv'
<1> SUFFICES ASSUME Inv, [Next]_vars PROVE Inv'
  OBVIOUS
<1>1. ASSUME NEW t \in Transferers, TransferStep(t) \/ DbError(t)
      PROVE  Inv'
  <2>1. CASE Start(t) BY <2>1, StartStep
  <2>2. CASE Refuse(t) BY <2>2, RefuseStep
  <2>3. CASE AskFirst(t) BY <2>3, AskFirstStep
  <2>4. CASE AskSecond(t) BY <2>4, AskSecondStep
  <2>5. CASE Enter(t) BY <2>5, EnterStep
  <2>6. CASE DebitRead(t) \/ CreditRead(t) BY <2>6, ReadStep
  <2>7. CASE DebitInsert(t) \/ CreditInsert(t) BY <2>7, InsertStep
  <2>8. CASE Commit(t) BY <2>8, CommitTransferStep
  <2>9. CASE Reject(t) \/ DbError(t) BY <2>9, AbandonStep DEF Reject, DbError
  <2> QED BY <1>1, <2>1, <2>2, <2>3, <2>4, <2>5, <2>6, <2>7, <2>8, <2>9 DEF TransferStep
<1>2. ASSUME NEW s \in Seeders, SeederStep(s) PROVE Inv'
  BY <1>2, SeederKeeps
<1>3. CASE Operator BY <1>3, OperatorStep
<1>4. CASE Crash BY <1>4, CrashStep
<1>5. CASE UNCHANGED vars
  <2>1. LedgerInv' BY <1>5, UnchangedStep DEF Inv, vars
  <2> QED BY <2>1, <1>5
          DEF Inv, vars, ledgerVars, sessionVars, transferVars, TransfersTypeOK,
              LocksTaken, SumRead, EntriesPending, SeedPending, Holds
<1> QED BY <1>1, <1>2, <1>3, <1>4, <1>5 DEF Next, LiveStep

(* The invariant that relates locks, sums read, pending and committed      *)
(* entries holds of every behaviour of the transfers.                      *)
THEOREM Invariance == Spec => []Inv
BY InitInv, NextInv, PTL DEF Spec

(* Every variable keeps its type.                                          *)
THEOREM TypeCorrect == Spec => []TypeOK
<1>1. Inv => TypeOK BY DEF Inv, LedgerInv, TypeOK
<1> QED BY <1>1, Invariance, PTL

(* No account is ever overdrawn, for any number of accounts, transfers and *)
(* seed scripts, any amounts, and any interleaving with database errors    *)
(* and crashes.                                                            *)
THEOREM NeverOverdrawn == Spec => []NoOverdraft
<1>1. Inv => NoOverdraft BY DEF Inv, LedgerInv
<1> QED BY <1>1, Invariance, PTL

(* Without seed scripts the newest balance_after_paise of an account is    *)
(* its balance at every moment.                                            *)
THEOREM RunningBalanceExact == Spec => []RunningBalance
<1>1. Inv => RunningBalance BY DEF Inv, LedgerInv
<1> QED BY <1>1, Invariance, PTL

-----------------------------------------------------------------------------
(***************************************************************************)
(* Transfers implements Bank: a commit is the only step that shows.        *)
(***************************************************************************)
(* What a commit does to the balances.                                     *)
LEMMA CommitMoves ==
  ASSUME Inv, NEW t \in Transferers, Commit(t)
  PROVE  \E from, to \in Accounts, n \in Nat \ {0} :
           /\ treq[t].from = from /\ treq[t].to = to /\ treq[t].amount = n
           /\ from # to /\ n <= Balance(from)
           /\ \A b \in Accounts : Balance(b) \in Int
           /\ Balance(from)' = Balance(from) - n
           /\ Balance(to)' = Balance(to) + n
           /\ \A b \in Accounts \ {from, to} : Balance(b)' = Balance(b)
<1>0. PICK from \in Accounts, to \in Accounts, n \in Nat \ {0} :
        from # to /\ treq[t].from = from /\ treq[t].to = to /\ treq[t].amount = n
  BY RequestType DEF Commit, Inv, Ended
<1>1. t \in Procs /\ t \notin Seeders
  BY TransfersAssumption
<1>2. /\ pending[t][from].type = "DEBIT" /\ pending[t][from].amount = n
      /\ pending[t][to].type = "CREDIT" /\ pending[t][to].amount = n
      /\ \A a \in Accounts \ {from, to} : pending[t][a] = NoEntry
      /\ posting[t] = NotPosting
  BY <1>0 DEF Commit, Inv, EntriesPending, SumRead
<1>3. \A b \in Accounts : Balance(b)' = Balance(b) + AmountOf(pending[t][b], "CREDIT")
                                                  - AmountOf(pending[t][b], "DEBIT")
  BY <1>1, <1>2, CommitEntriesStep DEF Commit, Inv
<1>4. \A b \in Accounts : Balance(b) \in Int
  BY DEF Inv, LedgerInv, LedgerTypeOK, Balance
<1>5. /\ Balance(from)' = Balance(from) - n
      /\ Balance(to)' = Balance(to) + n
      /\ \A b \in Accounts \ {from, to} : Balance(b)' = Balance(b)
  BY <1>0, <1>2, <1>3, <1>4 DEF AmountOf, NoEntry
<1>6. n <= Balance(from)
  BY <1>1, <1>0, <1>2 DEF Inv, LedgerInv, PendingEntriesHold, NoEntry
<1> QED BY <1>0, <1>4, <1>5, <1>6

LEMMA OnlyCommitMoves ==
  ASSUME NEW t \in Transferers, TransferStep(t) \/ DbError(t), ~Commit(t)
  PROVE  UNCHANGED <<credits, debits>>
BY DEF TransferStep, DbError, Start, Refuse, AskFirst, AskSecond, Enter,
   DebitRead, DebitInsert, CreditRead, CreditInsert, Reject, Abandon,
   ledgerVars, dbVars

LEMMA OnlyCommitEnds ==
  ASSUME Inv, NEW t \in Transferers, TransferStep(t) \/ DbError(t), ~Commit(t),
         NEW u \in Transferers
  PROVE  /\ tpc'[u] = "done" <=> tpc[u] = "done"
         /\ tpc[u] = "done" => treq'[u] = treq[u]
<1>1. tpc \in [Transferers -> Stages] /\ DOMAIN treq = Transferers
  BY DEF Inv, TransfersTypeOK
<1>2. \/ tpc' = [tpc EXCEPT ![t] = "loaded"]
      \/ tpc' = [tpc EXCEPT ![t] = "refused"]
      \/ tpc' = [tpc EXCEPT ![t] = "firstLock"]
      \/ tpc' = [tpc EXCEPT ![t] = "secondLock"]
      \/ tpc' = [tpc EXCEPT ![t] = "error"]
      \/ \E at \in Critical : tpc' = [tpc EXCEPT ![t] = at]
  BY DEF TransferStep, DbError, Start, Refuse, AskFirst, AskSecond, Enter,
     DebitRead, DebitInsert, CreditRead, CreditInsert, Reject, Abandon, Goto, Critical
<1>3. tpc[t] # "done"
  BY DEF TransferStep, DbError, Start, Refuse, AskFirst, AskSecond, Enter,
     DebitRead, DebitInsert, CreditRead, CreditInsert, Reject, Critical
<1>4. treq' = treq \/ \E r \in Requests : treq' = [treq EXCEPT ![t] = r]
  BY DEF TransferStep, DbError, Start, Refuse, AskFirst, AskSecond, Enter,
     DebitRead, DebitInsert, CreditRead, CreditInsert, Reject, Abandon
<1> QED BY <1>1, <1>2, <1>3, <1>4 DEF Critical

LEMMA BankStep == Inv /\ [Next]_vars => [TheBank!Next]_TheBank!vars
<1> SUFFICES ASSUME Inv, [Next]_vars PROVE [TheBank!Next]_TheBank!vars
  OBVIOUS
<1> DEFINE bal == [a \in Accounts |-> Balance(a)]
<1>1. UNCHANGED <<credits, debits>> => UNCHANGED TheBank!vars
  BY DEF TheBank!vars, Balance
<1>2. ASSUME NEW t \in Transferers, Commit(t) PROVE TheBank!Next
  <2>0. PICK from \in Accounts, to \in Accounts, n \in Nat \ {0} :
          /\ from # to /\ n <= Balance(from)
          /\ \A b \in Accounts : Balance(b) \in Int
          /\ Balance(from)' = Balance(from) - n
          /\ Balance(to)' = Balance(to) + n
          /\ \A b \in Accounts \ {from, to} : Balance(b)' = Balance(b)
    BY <1>2, CommitMoves
  <2>1. bal' = [bal EXCEPT ![from] = @ - n, ![to] = @ + n]
    <3> DEFINE new == [bal EXCEPT ![from] = @ - n, ![to] = @ + n]
    <3>1. ASSUME NEW b \in Accounts PROVE Balance(b)' = new[b]
      BY <2>0
    <3> QED BY <3>1
  <2>2. n \in 1 .. bal[from] BY <2>0
  <2>3. TheBank!Transfer(from, to, n)
    BY <2>0, <2>1 DEF TheBank!Transfer
  <2> QED BY <2>0, <2>2, <2>3 DEF TheBank!Next
<1>3. ASSUME NEW s \in Seeders, SeedCommit(s) PROVE TheBank!Next
  <2>1. s \in Procs /\ CommitEntries(s) /\ spc[s] = "commit" /\ posting[s] = NotPosting
    BY <1>3, LedgerAssumption DEF SeedCommit, SeedStep, Inv, SeedPending
  <2>2. PICK a \in Accounts, n \in Amounts :
          /\ pending[s][a].type = "CREDIT" /\ pending[s][a].amount = n
          /\ \A b \in Accounts \ {a} : pending[s][b] = NoEntry
    BY <2>1 DEF Inv, SeedPending
  <2>3. \A b \in Accounts : Balance(b)' = Balance(b) + AmountOf(pending[s][b], "CREDIT")
                                                   - AmountOf(pending[s][b], "DEBIT")
    BY <2>1, CommitEntriesStep DEF Inv
  <2>4. n \in Nat /\ \A b \in Accounts : Balance(b) \in Int
    BY LedgerAssumption DEF Inv, LedgerInv, LedgerTypeOK, Balance
  <2>5. /\ Balance(a)' = Balance(a) + n
        /\ \A b \in Accounts \ {a} : Balance(b)' = Balance(b)
    BY <2>2, <2>3, <2>4 DEF AmountOf, NoEntry
  <2>6. bal' = [bal EXCEPT ![a] = @ + n]
    BY <2>5
  <2>7. TheBank!Deposit(a, n) BY <2>6 DEF TheBank!Deposit
  <2> QED BY <2>4, <2>7 DEF TheBank!Next
<1>4. ASSUME NEW t \in Transferers, TransferStep(t) \/ DbError(t), ~Commit(t)
      PROVE  UNCHANGED <<credits, debits>>
  BY <1>4, OnlyCommitMoves
<1>5. ASSUME NEW s \in Seeders, SeederStep(s), ~SeedCommit(s)
      PROVE  UNCHANGED <<credits, debits>>
  BY <1>5 DEF SeederStep, SeedRead, SeedInsert, dbVars
<1>6. ASSUME Operator \/ Crash \/ UNCHANGED vars
      PROVE  UNCHANGED <<credits, debits>>
  BY <1>6 DEF Operator, SetStatus, Crash, LedgerLost, vars, ledgerVars, dbVars
<1> QED BY <1>1, <1>2, <1>3, <1>4, <1>5, <1>6 DEF Next, LiveStep

(* Transfers and seeds, with all their steps, errors and crashes, are the  *)
(* atomic transfers and deposits of Bank.                                  *)
THEOREM Refinement == Spec => ImplementsBank
<1>1. Init => TheBank!Init
  BY LedgerAssumption DEF Init, LedgerInit, TheBank!Init, Balance
<1> QED BY <1>1, BankStep, Invariance, PTL DEF Spec, ImplementsBank, TheBank!Spec

-----------------------------------------------------------------------------
(***************************************************************************)
(* A balance told is never more than the account holds: between the two    *)
(* SELECTs credits only grow, and the debits are those of the moment.      *)
(***************************************************************************)
(* What a reader carries from its first SELECT to its second.              *)
TotalsHold ==
  /\ asked \in [Readers -> Accounts]
  /\ stage \in [Readers -> {"idle", "between", "answered", "failed"}]
  /\ total \in [Readers -> Int]
  /\ answer \in [Readers -> Int]
  /\ \A r \in Readers : stage[r] = "between" => total[r] <= credits[asked[r]]

(* Readers leave the writers alone.                                        *)
LEMMA WritersStep == BalancesNext \/ UNCHANGED allVars => [Next]_vars
BY DEF BalancesNext, allVars, Next, FirstSelect, SecondSelect, NoAnswer

(* A commit adds to the credits, and nothing else touches them.            *)
LEMMA CreditsGrow ==
  ASSUME Inv, [Next]_vars
  PROVE  \A a \in Accounts : credits'[a] >= credits[a]
<1>0. \A a \in Accounts : credits[a] \in Nat
  BY DEF Inv, LedgerInv, LedgerTypeOK
<1>1. ASSUME NEW p \in Procs, posting[p] = NotPosting, CommitEntries(p)
      PROVE  \A a \in Accounts : credits'[a] >= credits[a]
  BY <1>1, CommitEntriesStep DEF Inv
<1>2. ASSUME NEW t \in Transferers, Commit(t)
      PROVE  t \in Procs /\ posting[t] = NotPosting /\ CommitEntries(t)
  BY <1>2, TransfersAssumption DEF Commit, Inv, SumRead
<1>3. ASSUME NEW s \in Seeders, SeedCommit(s)
      PROVE  s \in Procs /\ posting[s] = NotPosting /\ CommitEntries(s)
  BY <1>3, LedgerAssumption DEF SeedCommit, SeedStep, Inv, SeedPending
<1>4. ASSUME NEW t \in Transferers, TransferStep(t) \/ DbError(t), ~Commit(t)
      PROVE  UNCHANGED credits
  BY <1>4, OnlyCommitMoves
<1>5. ASSUME NEW s \in Seeders, SeederStep(s), ~SeedCommit(s)
      PROVE  UNCHANGED credits
  BY <1>5 DEF SeederStep, SeedRead, SeedInsert, dbVars
<1>6. Operator \/ Crash \/ UNCHANGED vars => UNCHANGED credits
  BY DEF Operator, SetStatus, Crash, LedgerLost, vars, ledgerVars, dbVars
<1> QED BY <1>0, <1>1, <1>2, <1>3, <1>4, <1>5, <1>6 DEF Next, LiveStep

LEMMA InitTotals == BalancesInit => Inv /\ TotalsHold
BY InitInv DEF BalancesInit, TotalsHold

LEMMA NextTotals ==
  Inv /\ TotalsHold /\ [BalancesNext]_allVars => Inv' /\ TotalsHold'
<1> SUFFICES ASSUME Inv, TotalsHold, [BalancesNext]_allVars
             PROVE  Inv' /\ TotalsHold'
  OBVIOUS
<1>1. [Next]_vars BY WritersStep
<1>2. Inv' BY <1>1, NextInv
<1>3. /\ credits \in [Accounts -> Nat] /\ credits' \in [Accounts -> Nat]
      /\ debits \in [Accounts -> Nat]
  BY <1>2 DEF Inv, LedgerInv, LedgerTypeOK
<1>4. \A a \in Accounts : credits'[a] >= credits[a] BY <1>1, CreditsGrow
<1>5. CASE UNCHANGED readerVars \/ ReadersLost
  <2>1. /\ UNCHANGED <<asked, total, answer>>
        /\ stage' \in [Readers -> {"idle", "between", "answered", "failed"}]
        /\ \A r \in Readers : stage'[r] = "between" => stage[r] = "between"
    BY <1>5 DEF readerVars, ReadersLost, TotalsHold
  <2>2. ASSUME NEW r \in Readers, stage[r] = "between"
        PROVE  total[r] <= credits'[asked[r]]
    <3>1. asked[r] \in Accounts /\ total[r] \in Int /\ total[r] <= credits[asked[r]]
      BY <2>2 DEF TotalsHold
    <3>2. /\ credits[asked[r]] \in Int /\ credits'[asked[r]] \in Int
          /\ credits[asked[r]] <= credits'[asked[r]]
      BY <3>1, <1>3, <1>4
    <3> QED BY <3>1, <3>2
  <2> QED BY <2>1, <2>2, <1>2 DEF TotalsHold
<1>6. ASSUME NEW r \in Readers, FirstSelect(r) \/ SecondSelect(r) \/ NoAnswer(r)
      PROVE  TotalsHold'
  BY <1>3, <1>6 DEF TotalsHold, FirstSelect, SecondSelect, NoAnswer, Sums, vars,
     ledgerVars, dbVars
<1> QED BY <1>2, <1>5, <1>6 DEF BalancesNext, allVars

(* Whatever transfers, seeds, errors and crashes come between its two      *)
(* SELECTs, a reader is told no more than the account holds by then.       *)
THEOREM BalanceNeverOverstated == BalancesSpec => NeverOverstated
<1>1. Inv /\ TotalsHold /\ [BalancesNext]_allVars
        => [\A r \in Readers :
              stage[r] # "answered" /\ stage'[r] = "answered"
                => answer'[r] <= Balance(asked[r])]_allVars
  <2> SUFFICES ASSUME Inv, TotalsHold, BalancesNext, NEW r \in Readers,
                      stage[r] # "answered", stage'[r] = "answered"
               PROVE  answer'[r] <= Balance(asked[r])
    OBVIOUS
  <2>1. SecondSelect(r)
    BY DEF TotalsHold, BalancesNext, FirstSelect, SecondSelect, NoAnswer, ReadersLost,
       readerVars
  <2>2. /\ answer'[r] = total[r] - debits[asked[r]]
        /\ total[r] <= credits[asked[r]]
        /\ total[r] \in Int /\ debits[asked[r]] \in Int /\ credits[asked[r]] \in Int
    BY <2>1 DEF SecondSelect, TotalsHold, Sums, Inv, LedgerInv, LedgerTypeOK
  <2> QED BY <2>2 DEF Balance
<1> QED BY <1>1, InitTotals, NextTotals, PTL DEF BalancesSpec, NeverOverstated

-----------------------------------------------------------------------------
(***************************************************************************)
(* What others that write the ledger may rely on.                          *)
(***************************************************************************)
LEMMA TransferLeavesOthers ==
  ASSUME Inv, NEW t \in Transferers, TransferStep(t) \/ DbError(t)
  PROVE  LeavesOthers(t)
<1>1. t \in Procs /\ t \notin Seeders /\ LedgerTypeOK
  BY TransfersAssumption DEF Inv, LedgerInv
<1>2. CASE Start(t) BY <1>1, <1>2, SessionSteps DEF Start
<1>3. CASE Refuse(t) \/ Enter(t)
  BY <1>1, <1>3, OwnSession DEF Refuse, Enter, ledgerVars, sessionVars
<1>4. CASE AskFirst(t) \/ AskSecond(t)
  <2>1. /\ LockOrder(treq[t])[1] \in Accounts /\ LockOrder(treq[t])[2] \in Accounts
        /\ Join(t, LockOrder(treq[t])[1]) \/ Join(t, LockOrder(treq[t])[2])
        /\ UNCHANGED sessionVars
    BY <1>4, RequestType DEF AskFirst, AskSecond, Inv, Ended
  <2> QED BY <1>1, <2>1, OwnSession DEF sessionVars
<1>5. CASE DebitRead(t) \/ CreditRead(t)
  BY <1>1, <1>5, SessionSteps DEF DebitRead, CreditRead
<1>6. CASE DebitInsert(t) \/ CreditInsert(t)
  BY <1>1, <1>6, SessionSteps DEF DebitInsert, CreditInsert
<1>7. CASE Commit(t) BY <1>1, <1>7, SessionSteps DEF Commit
<1>8. CASE Reject(t) \/ DbError(t)
  BY <1>1, <1>8, SessionSteps DEF Reject, DbError, Abandon
<1> QED BY <1>2, <1>3, <1>4, <1>5, <1>6, <1>7, <1>8 DEF TransferStep
=============================================================================
