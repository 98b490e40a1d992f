---------------------------- MODULE LedgerProofs ----------------------------
(***************************************************************************)
(* What the steps of Ledger preserve, whichever module orders them.  Each  *)
(* lemma takes the step with what it leaves alone; what the caller has to  *)
(* know (that it holds a lock, that nothing is pending) is a hypothesis.   *)
(***************************************************************************)
EXTENDS Ledger, SequenceTheorems, TLAPS

(* A waiter that joins disturbs no holder.                                 *)
LEMMA JoinKeepsHolders ==
  ASSUME LedgerTypeOK, NEW p \in Procs \ Seeders, NEW a \in Accounts, Join(p, a)
  PROVE  \A u \in Procs, b \in Accounts : Holds(u, b) => Holds(u, b)'
<1> SUFFICES ASSUME NEW u \in Procs, NEW b \in Accounts, Holds(u, b)
             PROVE  Holds(u, b)'
  OBVIOUS
<1>1. queue[b] \in Seq(Procs \ Seeders) /\ queue' = [queue EXCEPT ![a] = Append(@, p)]
  BY DEF LedgerTypeOK, Join
<1>2. CASE b = a
  <2>1. queue'[b] = Append(queue[b], p) BY <1>1, <1>2 DEF LedgerTypeOK
  <2>2. queue[b] # <<>> => Append(queue[b], p) # <<>> /\ Head(Append(queue[b], p)) = Head(queue[b])
    BY <1>1, HeadTailAppend
  <2> QED BY <2>1, <2>2 DEF Holds
<1>3. CASE b # a BY <1>1, <1>3 DEF Holds, LedgerTypeOK
<1> QED BY <1>2, <1>3

(* A coroutine that leaves its locks takes nobody else's.                  *)
LEMMA ReleaseKeepsHolders ==
  ASSUME LedgerTypeOK, NEW p \in Procs, Release(p)
  PROVE  \A u \in Procs \ {p}, b \in Accounts : Holds(u, b) => Holds(u, b)'
BY DEF LedgerTypeOK, Release, Holds

(* An account's lock has one holder.                                       *)
LEMMA OneHolder ==
  ASSUME NEW p, NEW q, NEW a, Holds(p, a), Holds(q, a)
  PROVE  p = q
BY DEF Holds

LEMMA ReleaseType ==
  ASSUME LedgerTypeOK, NEW p \in Procs, Release(p)
  PROVE  queue' \in [Accounts -> Seq(Procs \ Seeders)]
BY DEF LedgerTypeOK, Release, Holds

(* Joining a lock's queue.                                                 *)
LEMMA JoinStep ==
  ASSUME LedgerInv, NEW p \in Procs \ Seeders, NEW a \in Accounts,
         Join(p, a), UNCHANGED <<dbVars, sessionVars>>
  PROVE  LedgerInv'
<1> USE DEF LedgerInv, dbVars, sessionVars
<1>1. LedgerTypeOK' BY DEF LedgerTypeOK, Join
<1>2. \A u \in Procs, b \in Accounts : Holds(u, b) => Holds(u, b)'
  BY JoinKeepsHolders
<1>3. SumsReadHold' BY <1>2 DEF SumsReadHold, LedgerTypeOK, NotPosting
<1>4. PendingEntriesHold' BY <1>2 DEF PendingEntriesHold, Balance, AmountOf
<1>5. NoOverdraft' /\ RunningBalance' BY DEF NoOverdraft, RunningBalance, Balance
<1> QED BY <1>1, <1>3, <1>4, <1>5

(* post_entry's first SELECT, by the holder of the lock or by a script.    *)
LEMMA ReadCreditsStep ==
  ASSUME LedgerInv, NEW p \in Procs, NEW a \in Accounts,
         p \notin Seeders => Holds(p, a),
         ReadCredits(p, a),
         identity' \in [Procs -> [Accounts -> Statuses \cup {"UNLOADED"}]],
         UNCHANGED <<dbVars, queue, pending>>
  PROVE  LedgerInv' /\ posting'[p].account = a /\ posting'[p] # NotPosting
<1> USE DEF LedgerInv, dbVars
<1>0. a # -1 BY LedgerAssumption
<1>1. LedgerTypeOK' BY DEF LedgerTypeOK, ReadCredits
<1>2. posting' = [posting EXCEPT ![p] = [account |-> a, credits |-> credits[a]]]
  BY DEF ReadCredits
<1>3. SumsReadHold'
  <2> SUFFICES ASSUME NEW q \in Procs, posting'[q] # NotPosting
      PROVE /\ q \notin Seeders => Holds(q, posting'[q].account)
            /\ posting'[q].credits <= credits[posting'[q].account]
            /\ Seeders = {} => posting'[q].credits = credits[posting'[q].account]
    BY DEF SumsReadHold, Holds
  <2>1. CASE q = p BY <2>1, <1>2 DEF LedgerTypeOK
  <2>2. CASE q # p BY <2>2, <1>2 DEF LedgerTypeOK, SumsReadHold
  <2> QED BY <2>1, <2>2
<1>4. PendingEntriesHold' BY DEF PendingEntriesHold, Balance, AmountOf, Holds
<1>5. NoOverdraft' /\ RunningBalance' BY DEF NoOverdraft, RunningBalance, Balance
<1>6. posting'[p] = [account |-> a, credits |-> credits[a]] BY <1>2 DEF LedgerTypeOK
<1> QED BY <1>0, <1>1, <1>3, <1>4, <1>5, <1>6 DEF NotPosting

(* post_entry's second SELECT and INSERT.  A script only inserts credits.  *)
LEMMA InsertEntryStep ==
  ASSUME LedgerInv, NEW p \in Procs, NEW type \in {"CREDIT", "DEBIT"},
         NEW n \in Nat \ {0},
         posting[p] # NotPosting,
         p \in Seeders => type = "CREDIT",
         InsertEntry(p, type, n), UNCHANGED <<dbVars, queue>>
  PROVE  /\ LedgerInv'
         /\ posting'[p] = NotPosting
         /\ pending' = [pending EXCEPT ![p][posting[p].account] = NewEntry(p, type, n)]
         /\ NewEntry(p, type, n) \in Entries \ {NoEntry}
<1> DEFINE a == posting[p].account
           e == NewEntry(p, type, n)
<1> USE DEF LedgerInv, dbVars
<1>1. posting[p] \in [account : Accounts, credits : Nat] /\ a \in Accounts
  BY DEF LedgerTypeOK
<1>2. /\ posting' = [posting EXCEPT ![p] = NotPosting]
      /\ pending' = [pending EXCEPT ![p][a] = e]
      /\ type = "DEBIT" => n <= BalanceSeen(p)
  BY DEF InsertEntry, InsufficientFunds, BalanceSeen, LedgerTypeOK, LedgerAssumption
<1>3. /\ BalanceSeen(p) \in Int
      /\ BalanceSeen(p) <= Balance(a)
      /\ Seeders = {} => BalanceSeen(p) = Balance(a)
  <2>1. /\ posting[p].credits <= credits[a]
        /\ Seeders = {} => posting[p].credits = credits[a]
    BY DEF SumsReadHold
  <2>2. credits[a] \in Nat /\ debits[a] \in Nat /\ posting[p].credits \in Nat
    BY <1>1 DEF LedgerTypeOK
  <2> QED BY <2>1, <2>2 DEF BalanceSeen, Balance
<1>4. /\ e.type = type /\ e.amount = n
      /\ e.after = IF type = "DEBIT" THEN BalanceSeen(p) - n ELSE BalanceSeen(p) + n
      /\ e \in Entries /\ e # NoEntry
  BY <1>3 DEF NewEntry, Entries, NoEntry
<1>5. LedgerTypeOK' BY <1>1, <1>2, <1>4 DEF LedgerTypeOK, InsertEntry
<1>6. SumsReadHold'
  BY <1>2 DEF SumsReadHold, LedgerTypeOK, Holds, NotPosting
<1>7. PendingEntriesHold'
  <2> SUFFICES ASSUME NEW q \in Procs, NEW b \in Accounts, pending'[q][b] # NoEntry
      PROVE /\ q \notin Seeders => Holds(q, b)
            /\ pending'[q][b].type = "DEBIT" =>
                 q \notin Seeders /\ pending'[q][b].amount <= Balance(b)
            /\ Seeders = {} => pending'[q][b].after = Balance(b)
                                 + AmountOf(pending'[q][b], "CREDIT")
                                 - AmountOf(pending'[q][b], "DEBIT")
    BY DEF PendingEntriesHold, Balance, AmountOf, Holds
  <2>1. CASE q = p /\ b = a
    <3>1. pending'[q][b] = e BY <2>1, <1>2, <1>1 DEF LedgerTypeOK
    <3>2. p \notin Seeders => Holds(p, a) BY DEF SumsReadHold
    <3>3. Balance(a) \in Int BY <1>1 DEF Balance, LedgerTypeOK
    <3> HIDE DEF e, a
    <3> QED BY <2>1, <3>1, <3>2, <3>3, <1>2, <1>3, <1>4 DEF AmountOf
  <2>2. CASE ~(q = p /\ b = a)
    <3>1. pending'[q][b] = pending[q][b] BY <2>2, <1>2, <1>1 DEF LedgerTypeOK
    <3> QED BY <3>1 DEF PendingEntriesHold
  <2> QED BY <2>1, <2>2
<1>8. NoOverdraft' /\ RunningBalance' BY DEF NoOverdraft, RunningBalance, Balance
<1>9. posting'[p] = NotPosting BY <1>2 DEF LedgerTypeOK
<1> QED BY <1>2, <1>4, <1>5, <1>6, <1>7, <1>8, <1>9

(* A commit, before the locks are left.  Only the holder of an account's   *)
(* lock may have entries on it pending, so nobody else's are overtaken.    *)
LEMMA CommitEntriesStep ==
  ASSUME LedgerInv, NEW p \in Procs, posting[p] = NotPosting,
         CommitEntries(p)
  PROVE  /\ credits' \in [Accounts -> Nat]
         /\ debits' \in [Accounts -> Nat]
         /\ lastAfter' \in [Accounts -> Int]
         /\ pending' \in [Procs -> [Accounts -> Entries]]
         /\ pending'[p] = NoEntries
         /\ \A q \in Procs \ {p} : pending'[q] = pending[q]
         /\ \A b \in Accounts :
              /\ credits'[b] >= credits[b]
              /\ Balance(b)' = Balance(b) + AmountOf(pending[p][b], "CREDIT")
                                         - AmountOf(pending[p][b], "DEBIT")
              /\ Balance(b)' >= 0
              /\ pending[p][b] = NoEntry =>
                   credits'[b] = credits[b] /\ debits'[b] = debits[b]
              /\ pending[p][b].type # "DEBIT" => Balance(b)' >= Balance(b)
              /\ Seeders = {} => lastAfter'[b] = Balance(b)'
<1> USE DEF LedgerInv
<1>1. /\ pending' = [pending EXCEPT ![p] = NoEntries]
      /\ NoEntries \in [Accounts -> Entries]
  BY DEF CommitEntries, NoEntries, Entries
<1>2. ASSUME NEW b \in Accounts
      PROVE  /\ credits'[b] = credits[b] + AmountOf(pending[p][b], "CREDIT")
             /\ debits'[b] = debits[b] + AmountOf(pending[p][b], "DEBIT")
             /\ lastAfter'[b] = IF pending[p][b] = NoEntry THEN lastAfter[b]
                                                           ELSE pending[p][b].after
             /\ AmountOf(pending[p][b], "CREDIT") \in Nat
             /\ AmountOf(pending[p][b], "DEBIT") \in Nat
             /\ pending[p][b].after \in Int
             /\ pending[p][b] = NoEntry => AmountOf(pending[p][b], "CREDIT") = 0
                                          /\ AmountOf(pending[p][b], "DEBIT") = 0
             /\ pending[p][b].type # "DEBIT" => AmountOf(pending[p][b], "DEBIT") = 0
             /\ AmountOf(pending[p][b], "DEBIT") <= Balance(b)
             /\ credits[b] \in Nat /\ debits[b] \in Nat
  <2>1. pending[p][b] \in Entries BY DEF LedgerTypeOK
  <2>2. pending[p][b].type = "DEBIT" => pending[p][b].amount <= Balance(b)
    BY DEF PendingEntriesHold, NoEntry
  <2>3. Balance(b) >= 0 BY DEF NoOverdraft
  <2>4. credits[b] \in Nat /\ debits[b] \in Nat BY DEF LedgerTypeOK
  <2>5. /\ credits'[b] = credits[b] + AmountOf(pending[p][b], "CREDIT")
        /\ debits'[b] = debits[b] + AmountOf(pending[p][b], "DEBIT")
        /\ lastAfter'[b] = IF pending[p][b] = NoEntry THEN lastAfter[b]
                                                      ELSE pending[p][b].after
    BY DEF CommitEntries
  <2> QED BY <2>1, <2>2, <2>3, <2>4, <2>5 DEF Entries, NoEntry, AmountOf
<1>3. /\ credits' = [b \in Accounts |-> credits'[b]]
      /\ debits' = [b \in Accounts |-> debits'[b]]
      /\ lastAfter' = [b \in Accounts |-> lastAfter'[b]]
  BY DEF CommitEntries
<1>4. credits' \in [Accounts -> Nat] /\ debits' \in [Accounts -> Nat]
  <2>1. \A b \in Accounts : credits'[b] \in Nat /\ debits'[b] \in Nat BY <1>2
  <2> QED BY <2>1, <1>3
<1>5. lastAfter' \in [Accounts -> Int]
  <2>1. \A b \in Accounts : lastAfter'[b] \in Int BY <1>2 DEF LedgerTypeOK
  <2> QED BY <2>1, <1>3
<1>6. pending' \in [Procs -> [Accounts -> Entries]] BY <1>1 DEF LedgerTypeOK
<1>7. pending'[p] = NoEntries /\ \A q \in Procs \ {p} : pending'[q] = pending[q]
  BY <1>1 DEF LedgerTypeOK
<1>8. ASSUME NEW b \in Accounts
      PROVE  /\ credits'[b] >= credits[b]
             /\ Balance(b)' = Balance(b) + AmountOf(pending[p][b], "CREDIT")
                                         - AmountOf(pending[p][b], "DEBIT")
             /\ Balance(b)' >= 0
             /\ pending[p][b] = NoEntry =>
                  credits'[b] = credits[b] /\ debits'[b] = debits[b]
             /\ pending[p][b].type # "DEBIT" => Balance(b)' >= Balance(b)
             /\ Seeders = {} => lastAfter'[b] = Balance(b)'
  <2>1. /\ credits'[b] >= credits[b]
        /\ Balance(b)' = Balance(b) + AmountOf(pending[p][b], "CREDIT")
                                    - AmountOf(pending[p][b], "DEBIT")
        /\ Balance(b)' >= 0
        /\ pending[p][b] = NoEntry =>
             credits'[b] = credits[b] /\ debits'[b] = debits[b]
        /\ pending[p][b].type # "DEBIT" => Balance(b)' >= Balance(b)
    BY <1>2 DEF Balance
  <2>2. Seeders = {} => lastAfter'[b] = Balance(b)'
    <3>1. CASE pending[p][b] = NoEntry BY <3>1, <1>2, <2>1 DEF RunningBalance, Balance
    <3>2. CASE pending[p][b] # NoEntry BY <3>2, <1>2, <2>1 DEF PendingEntriesHold
    <3> QED BY <3>1, <3>2
  <2> QED BY <2>1, <2>2
<1> QED BY <1>4, <1>5, <1>6, <1>7, <1>8

(* A commit, and the locks left with it.                                   *)
LEMMA CommitStep ==
  ASSUME LedgerInv, NEW p \in Procs, posting[p] = NotPosting,
         CommitEntries(p),
         \/ p \notin Seeders /\ Release(p)
         \/ p \in Seeders /\ UNCHANGED queue
  PROVE  LedgerInv'
<1> USE DEF LedgerInv
<1>1. UNCHANGED <<status, identity, posting>> BY DEF CommitEntries
<1>2. \A u \in Procs \ {p}, b \in Accounts : Holds(u, b) => Holds(u, b)'
  BY ReleaseKeepsHolders DEF Holds
<1>3. queue' \in [Accounts -> Seq(Procs \ Seeders)] BY ReleaseType DEF LedgerTypeOK
<1>4. LedgerTypeOK' BY <1>1, <1>3, CommitEntriesStep DEF LedgerTypeOK
<1>5. SumsReadHold'
  <2> SUFFICES ASSUME NEW q \in Procs, NEW b \in Accounts,
                      posting[q] # NotPosting, posting[q].account = b
      PROVE /\ q \notin Seeders => Holds(q, b)'
            /\ posting[q].credits <= credits'[b]
            /\ Seeders = {} => posting[q].credits = credits'[b]
    BY <1>1 DEF SumsReadHold, Holds, LedgerTypeOK
  <2>1. q # p OBVIOUS
  <2>2. posting[q].credits \in Nat BY DEF LedgerTypeOK
  <2>3. credits'[b] >= credits[b] /\ credits[b] \in Nat /\ credits'[b] \in Nat
    BY <2>2, CommitEntriesStep DEF LedgerTypeOK
  <2>4. /\ q \notin Seeders => Holds(q, b)
        /\ posting[q].credits <= credits[b]
        /\ Seeders = {} => posting[q].credits = credits[b]
    BY DEF SumsReadHold
  <2>5. q \notin Seeders => Holds(q, b)' BY <2>1, <2>2, <2>4, <1>2
  <2>6. posting[q].credits <= credits'[b] BY <2>2, <2>3, <2>4
  <2>7. ASSUME Seeders = {} PROVE credits'[b] = credits[b]
    <3>1. pending[p][b] # NoEntry => Holds(p, b)
      BY <2>2, <2>7 DEF PendingEntriesHold
    <3>2. pending[p][b] = NoEntry BY <3>1, <2>4, <2>7, <2>1, OneHolder
    <3> QED BY <3>2, <2>2, CommitEntriesStep
  <2> QED BY <2>4, <2>5, <2>6, <2>7
<1>6. PendingEntriesHold'
  <2> SUFFICES ASSUME NEW q \in Procs, NEW b \in Accounts, pending'[q][b] # NoEntry
      PROVE /\ q \notin Seeders => Holds(q, b)'
            /\ pending'[q][b].type = "DEBIT" =>
                 q \notin Seeders /\ pending'[q][b].amount <= Balance(b)'
            /\ Seeders = {} => pending'[q][b].after = Balance(b)'
                                 + AmountOf(pending'[q][b], "CREDIT")
                                 - AmountOf(pending'[q][b], "DEBIT")
    BY DEF PendingEntriesHold, AmountOf
  <2>1. q # p BY CommitEntriesStep DEF NoEntries
  <2>2. pending'[q][b] = pending[q][b] /\ pending[q][b] # NoEntry
    BY <2>1, CommitEntriesStep
  <2>3. q \notin Seeders => Holds(q, b) BY <2>2 DEF PendingEntriesHold
  <2>4. q \notin Seeders => pending[p][b].type # "DEBIT"
    BY <2>3, <2>1, OneHolder DEF PendingEntriesHold, NoEntry
  <2>5. Seeders = {} => pending[p][b] = NoEntry
    BY <2>3, <2>1, OneHolder DEF PendingEntriesHold
  <2>6. /\ q \notin Seeders => Balance(b)' >= Balance(b)
        /\ Seeders = {} => Balance(b)' = Balance(b)
    BY <2>4, <2>5, CommitEntriesStep DEF Balance
  <2>7. /\ pending[q][b].type = "DEBIT" =>
             q \notin Seeders /\ pending[q][b].amount <= Balance(b)
        /\ Seeders = {} => pending[q][b].after = Balance(b)
                              + AmountOf(pending[q][b], "CREDIT")
                              - AmountOf(pending[q][b], "DEBIT")
    BY <2>2 DEF PendingEntriesHold
  <2>8. Balance(b) \in Int /\ Balance(b)' \in Int /\ pending[q][b].amount \in Nat
    <3>1. credits'[b] \in Nat /\ debits'[b] \in Nat BY CommitEntriesStep
    <3>2. pending[q][b] \in Entries BY DEF LedgerTypeOK
    <3> QED BY <3>1, <3>2 DEF Balance, LedgerTypeOK, Entries, NoEntry
  <2>9. q \notin Seeders => Holds(q, b)' BY <2>1, <2>3, <1>2
  <2> QED BY <2>2, <2>6, <2>7, <2>8, <2>9
<1>7. NoOverdraft' BY CommitEntriesStep DEF NoOverdraft
<1>8. RunningBalance' BY CommitEntriesStep DEF RunningBalance
<1> QED BY <1>4, <1>5, <1>6, <1>7, <1>8

(* The locks are left and the session closed, with nothing committed.      *)
LEMMA CloseStep ==
  ASSUME LedgerInv, NEW p \in Procs \ Seeders,
         Release(p), CloseSession(p), UNCHANGED dbVars
  PROVE  LedgerInv'
<1> USE DEF LedgerInv, dbVars
<1>1. /\ posting' = [posting EXCEPT ![p] = NotPosting]
      /\ pending' = [pending EXCEPT ![p] = NoEntries]
      /\ NoEntries \in [Accounts -> Entries]
      /\ Unloaded \in [Accounts -> Statuses \cup {"UNLOADED"}]
  BY DEF CloseSession, NoEntries, Entries, Unloaded
<1>2. \A u \in Procs \ {p}, b \in Accounts : Holds(u, b) => Holds(u, b)'
  BY ReleaseKeepsHolders
<1>3. LedgerTypeOK' BY <1>1, ReleaseType DEF LedgerTypeOK, CloseSession
<1>4. SumsReadHold'
  <2> SUFFICES ASSUME NEW q \in Procs, NEW b \in Accounts,
                      posting'[q] # NotPosting, posting'[q].account = b
      PROVE /\ q \notin Seeders => Holds(q, b)'
            /\ posting'[q].credits <= credits[b]
            /\ Seeders = {} => posting'[q].credits = credits[b]
    BY <1>3 DEF SumsReadHold, Holds, LedgerTypeOK
  <2>1. q # p /\ posting'[q] = posting[q] BY <1>1 DEF LedgerTypeOK
  <2> QED BY <2>1, <1>2 DEF SumsReadHold
<1>5. PendingEntriesHold'
  <2> SUFFICES ASSUME NEW q \in Procs, NEW b \in Accounts, pending'[q][b] # NoEntry
      PROVE /\ q \notin Seeders => Holds(q, b)'
            /\ pending'[q][b].type = "DEBIT" =>
                 q \notin Seeders /\ pending'[q][b].amount <= Balance(b)
            /\ Seeders = {} => pending'[q][b].after = Balance(b)
                                 + AmountOf(pending'[q][b], "CREDIT")
                                 - AmountOf(pending'[q][b], "DEBIT")
    BY DEF PendingEntriesHold, Balance, AmountOf
  <2>1. q # p /\ pending'[q][b] = pending[q][b] BY <1>1 DEF LedgerTypeOK, NoEntries
  <2> QED BY <2>1, <1>2 DEF PendingEntriesHold
<1>6. NoOverdraft' /\ RunningBalance' BY DEF NoOverdraft, RunningBalance, Balance
<1> QED BY <1>3, <1>4, <1>5, <1>6

(* Only the statuses a session holds change.                               *)
LEMMA IdentityStep ==
  ASSUME LedgerInv,
         identity' \in [Procs -> [Accounts -> Statuses \cup {"UNLOADED"}]],
         UNCHANGED <<dbVars, queue, posting, pending>>
  PROVE  LedgerInv'
BY DEF dbVars, LedgerInv, LedgerTypeOK, SumsReadHold, PendingEntriesHold, Holds,
       Balance, AmountOf, NoOverdraft, RunningBalance

(* The locks are left by who has nothing pending; its session goes on.     *)
LEMMA LeaveStep ==
  ASSUME LedgerInv, NEW p \in Procs \ Seeders, Release(p),
         posting' = [posting EXCEPT ![p] = NotPosting],
         pending[p] = NoEntries,
         UNCHANGED <<dbVars, identity, pending>>
  PROVE  LedgerInv'
<1> USE DEF LedgerInv, dbVars
<1>1. \A u \in Procs \ {p}, b \in Accounts : Holds(u, b) => Holds(u, b)'
  BY ReleaseKeepsHolders
<1>2. LedgerTypeOK' BY ReleaseType DEF LedgerTypeOK
<1>3. SumsReadHold' BY <1>1 DEF SumsReadHold, LedgerTypeOK, NotPosting
<1>4. PendingEntriesHold'
  BY <1>1 DEF PendingEntriesHold, Balance, AmountOf, NoEntries
<1>5. NoOverdraft' /\ RunningBalance' BY DEF NoOverdraft, RunningBalance, Balance
<1> QED BY <1>2, <1>3, <1>4, <1>5

(* An operator's change of a status.                                       *)
LEMMA SetStatusStep ==
  ASSUME LedgerInv, NEW a \in Accounts, SetStatus(a)
  PROVE  LedgerInv'
<1> USE DEF LedgerInv, SetStatus, sessionVars
<1>1. LedgerTypeOK' BY DEF LedgerTypeOK
<1>2. SumsReadHold' BY DEF SumsReadHold, Holds
<1>3. PendingEntriesHold' BY DEF PendingEntriesHold, Holds, Balance, AmountOf
<1>4. NoOverdraft' /\ RunningBalance' BY DEF NoOverdraft, RunningBalance, Balance
<1> QED BY <1>1, <1>2, <1>3, <1>4

(* The server's death.                                                     *)
LEMMA LostStep ==
  ASSUME LedgerInv, LedgerLost
  PROVE  LedgerInv'
<1> USE DEF LedgerInv, LedgerLost, dbVars
<1>1. LedgerTypeOK' BY DEF LedgerTypeOK, NoEntries, Entries, Unloaded
<1>2. SumsReadHold' BY DEF SumsReadHold, LedgerTypeOK
<1>3. PendingEntriesHold'
  BY DEF PendingEntriesHold, LedgerTypeOK, Balance, AmountOf, NoEntries
<1>4. NoOverdraft' /\ RunningBalance' BY DEF NoOverdraft, RunningBalance, Balance
<1> QED BY <1>1, <1>2, <1>3, <1>4

LEMMA UnchangedStep ==
  ASSUME LedgerInv, UNCHANGED ledgerVars
  PROVE  LedgerInv'
BY DEF LedgerInv, ledgerVars, dbVars, sessionVars, LedgerTypeOK, SumsReadHold,
       PendingEntriesHold, Holds, Balance, AmountOf, NoOverdraft, RunningBalance

LEMMA InitHolds == LedgerInit => LedgerInv
<1> SUFFICES ASSUME LedgerInit PROVE LedgerInv
  OBVIOUS
<1> USE LedgerAssumption DEF LedgerInit
<1>1. LedgerTypeOK
  BY DEF LedgerTypeOK, NoEntries, Entries, Unloaded, Statuses
<1>2. SumsReadHold BY DEF SumsReadHold
<1>3. PendingEntriesHold BY DEF PendingEntriesHold, NoEntries
<1>4. NoOverdraft /\ RunningBalance BY DEF NoOverdraft, RunningBalance, Balance
<1> QED BY <1>1, <1>2, <1>3, <1>4 DEF LedgerInv

-----------------------------------------------------------------------------
(* What a step of one process is to every other: their sessions stand, and *)
(* the locks they hold stay theirs.                                        *)
LeavesOthers(p) ==
  /\ \A q \in Procs \ {p} : /\ posting'[q] = posting[q] /\ pending'[q] = pending[q]
                            /\ identity'[q] = identity[q]
  /\ \A q \in Procs \ {p}, b \in Accounts : Holds(q, b) => Holds(q, b)'

LEMMA OwnSession ==
  ASSUME LedgerTypeOK, NEW p \in Procs,
         \A q \in Procs \ {p} : /\ posting'[q] = posting[q] /\ pending'[q] = pending[q]
                                /\ identity'[q] = identity[q],
         \/ UNCHANGED queue
         \/ Release(p)
         \/ p \notin Seeders /\ \E a \in Accounts : Join(p, a)
  PROVE  LeavesOthers(p)
<1>1. \A q \in Procs \ {p}, b \in Accounts : Holds(q, b) => Holds(q, b)'
  <2>1. CASE UNCHANGED queue BY <2>1 DEF Holds
  <2>2. CASE Release(p) BY <2>2, ReleaseKeepsHolders
  <2>3. CASE p \notin Seeders /\ \E a \in Accounts : Join(p, a)
    BY <2>3, JoinKeepsHolders
  <2> QED BY <2>1, <2>2, <2>3
<1> QED BY <1>1 DEF LeavesOthers

(* The steps of a session touch no other.                                  *)
LEMMA SessionSteps ==
  ASSUME LedgerTypeOK, NEW p \in Procs
  PROVE  /\ \A S : Load(p, S) /\ UNCHANGED <<queue, posting, pending>> => LeavesOthers(p)
         /\ \A a : PostEntryRead(p, a) /\ UNCHANGED queue => LeavesOthers(p)
         /\ \A type, n : InsertEntry(p, type, n) /\ UNCHANGED queue => LeavesOthers(p)
         /\ CommitEntries(p) /\ Release(p) => LeavesOthers(p)
         /\ CloseSession(p) /\ (Release(p) \/ UNCHANGED queue) => LeavesOthers(p)
<1> DEFINE Own == \A q \in Procs \ {p} : /\ posting'[q] = posting[q]
                                        /\ pending'[q] = pending[q]
                                        /\ identity'[q] = identity[q]
<1>1. Own /\ (UNCHANGED queue \/ Release(p)) => LeavesOthers(p)
  BY OwnSession
<1>2. \A S : Load(p, S) /\ UNCHANGED <<queue, posting, pending>> => Own
  BY DEF Load, LedgerTypeOK
<1>3. \A a : PostEntryRead(p, a) => Own
  BY DEF PostEntryRead, Load, ReadCredits, LedgerTypeOK
<1>4. \A type, n : InsertEntry(p, type, n) => Own
  BY DEF InsertEntry, LedgerTypeOK
<1>5. CommitEntries(p) => Own
  BY DEF CommitEntries, LedgerTypeOK
<1>6. CloseSession(p) => Own
  BY DEF CloseSession, LedgerTypeOK
<1> HIDE DEF Own
<1> QED BY <1>1, <1>2, <1>3, <1>4, <1>5, <1>6
=============================================================================
