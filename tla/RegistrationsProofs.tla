-------------------------- MODULE RegistrationsProofs --------------------------
(***************************************************************************)
(* Proofs about Registrations.  SQLite's write lock lets one session have  *)
(* flushed rows at a time, so what it found free when it flushed is still  *)
(* free when it commits; and a request has rows in the tables only when it *)
(* has committed, whether it lived to answer or not.                       *)
(***************************************************************************)
EXTENDS Registrations, TLAPS

RowsOf(s) == {x \in rows : x.by = s}

Registry(S) == {x \in S : x.table \in Tables}

(* The write lock, and what it is good for.                                *)
WriteLock ==
  \A s, x \in Sessions : pending[s] # {} /\ pending[x] # {} => s = x

FlushedFits ==
  /\ Distinct(Stored)
  /\ \A s \in Sessions :
       /\ Distinct(Registry(Seen(s)))
       /\ \A x \in pending[s] : x.by = s

Registering(r) == ask[r] \in ToInsert

(* After its commit a request is on its way to the answer, or answered.    *)
AfterCommit ==
  {"created", "CREATED", "greeted", "TOKEN", "rejected", "UNAUTHORIZED"}

Greeting(r) == {AuditRow("LOGIN_SUCCESS", r)}
Rejection(r) == {AuditRow("LOGIN_FAILED", r)}

(* What has been committed of a request, whose answer may have been lost.  *)
Committed(r) ==
  \/ /\ pc[r] \in {"created", "CREATED", "LOST"}
     /\ Registering(r) /\ RowsOf(r) = Written(r)
  \/ pc[r] \in {"greeted", "TOKEN", "LOST"} /\ RowsOf(r) = Greeting(r)
  \/ pc[r] \in {"rejected", "UNAUTHORIZED", "LOST"} /\ RowsOf(r) = Rejection(r)
  \/ pc[r] \notin AfterCommit /\ RowsOf(r) = {}

RequestInv(r) ==
  /\ pc[r] \in {"checkFirst", "checkSecond"} => ask[r] \in Calls /\ ask[r].table \in Tables
  /\ pc[r] \in {"reading", "greeting", "rejecting"} => ask[r] \in Calls
  /\ pc[r] \in {"greeting", "greeted", "TOKEN"} => Registered(ask[r])
  /\ pc[r] = "insert" => Registering(r)
  /\ pc[r] = "DUPLICATE" => Refused(ask[r], Stored)
  /\ IF pc[r] = "commit"
     THEN \/ Registering(r) /\ pending[r] = Written(r)
          \/ Registered(ask[r]) /\ pending[r] = Greeting(r)
          \/ pending[r] = Rejection(r)
     ELSE pending[r] = {}
  /\ Committed(r)

ScriptInv(s) ==
  /\ pc[s] \in {"idle", "insert", "SEEDED", "FAILED"}
  /\ pc[s] \in Ended => pending[s] = {}
  /\ pc[s] # "FAILED" => \A i \in DOMAIN Entries :
                           i < next[s] => Clash(Entries[i], "first", Seen(s))
  /\ pc[s] = "SEEDED" => next[s] > Len(Entries)
  /\ RowsOf(s) # {} => pc[s] = "SEEDED"

RegistrationsInv ==
  /\ RegistrationsTypeOK
  /\ WriteLock
  /\ FlushedFits
  /\ \A r \in Requests : RequestInv(r)
  /\ \A s \in Scripts : ScriptInv(s)

-----------------------------------------------------------------------------
LEMMA RowFields ==
  /\ \A c, s : /\ Row(c, s).table = c.table /\ Row(c, s).by = s
               /\ Row(c, s).first = c.first /\ Row(c, s).second = c.second
  /\ \A a, s : /\ AuditRow(a, s).table = "audit_logs" /\ AuditRow(a, s).by = s
               /\ AuditRow(a, s).action = a
  /\ "audit_logs" \notin Tables /\ "login" \notin Tables /\ "none" \notin Tables
  BY DEF Row, AuditRow, Tables

LEMMA AuditRowsToBe == \A a \in Actions, r \in Requests : AuditRow(a, r) \in RowsToBe
<1> SUFFICES ASSUME NEW a \in Actions, NEW r \in Requests PROVE AuditRow(a, r) \in RowsToBe
  OBVIOUS
<1>1. AuditRow(a, r) \in {AuditRow(b, r) : b \in Actions} OBVIOUS
<1> QED BY <1>1 DEF RowsToBe

(* What a request is about to insert is a row the tables may hold.         *)
LEMMA RegisteringType ==
  ASSUME NEW r \in Requests, Registering(r)
  PROVE  /\ ask[r].table \in Tables
         /\ Written(r) \subseteq RowsToBe
         /\ Registry(Written(r)) = {Row(ask[r], r)}
         /\ \A x \in Written(r) : x.by = r
<1>1. PICK c \in Calls : c.table \in Tables /\ ask[r] \in Drawn(c)
  BY DEF Registering, ToInsert
<1>2. c = [table |-> c.table, first |-> c.first, second |-> c.second, secret |-> c.secret]
  BY RegistrationsAssumption
<1>3. ask[r].table = c.table
  <2>1. CASE c.table = "accounts"
    <3>1. PICK n \in Numbers : ask[r] = [c EXCEPT !.second = n] BY <1>1, <2>1 DEF Drawn
    <3> QED BY <1>2, <3>1
  <2>2. CASE c.table # "accounts" BY <1>1, <2>2 DEF Drawn
  <2> QED BY <2>1, <2>2
<1>4. Row(ask[r], r) \in RowsToBe
  <2>1. Row(ask[r], r) \in {Row(d, r) : d \in ToInsert} BY DEF Registering
  <2> QED BY <2>1 DEF RowsToBe
<1>5. AuditRow("USER_REGISTERED", r) \in RowsToBe BY AuditRowsToBe DEF Actions
<1>6. Written(r) \subseteq RowsToBe BY <1>4, <1>5 DEF Written
<1>7. Registry(Written(r)) = {Row(ask[r], r)}
  BY <1>1, <1>3, RowFields DEF Registry, Written
<1>8. \A x \in Written(r) : x.by = r BY RowFields DEF Written
<1> QED BY <1>1, <1>3, <1>6, <1>7, <1>8

LEMMA RegistrationsInitInv == RegistrationsInit => RegistrationsInv
<1> SUFFICES ASSUME RegistrationsInit PROVE RegistrationsInv
  OBVIOUS
<1>1. RegistrationsTypeOK
  BY RegistrationsAssumption
  DEF RegistrationsInit, RegistrationsTypeOK, RowsToBe, Places
<1>2. WriteLock BY DEF WriteLock, RegistrationsInit
<1>3. FlushedFits
  BY RegistrationsAssumption
  DEF RegistrationsInit, FlushedFits, Distinct, Stored, Registry, Seen
<1>4. \A s \in Sessions : RowsOf(s) = {}
  BY RegistrationsAssumption DEF RegistrationsInit, RowsOf
<1>5. \A r \in Requests : RequestInv(r)
  BY <1>4 DEF RequestInv, RegistrationsInit, Sessions, Committed, AfterCommit
<1>6. \A s \in Scripts : ScriptInv(s)
  BY <1>4, RegistrationsAssumption DEF ScriptInv, RegistrationsInit, Sessions, Ended
<1> QED BY <1>1, <1>2, <1>3, <1>5, <1>6 DEF RegistrationsInv

-----------------------------------------------------------------------------
(***************************************************************************)
(* What one session's step leaves alone.                                   *)
(***************************************************************************)
LEMMA RowsAreKept ==
  ASSUME rows \subseteq rows'
  PROVE  /\ \A c : Registered(c) => Registered(c)'
         /\ \A x : Refused(x, Stored) => Refused(x, Stored)'
  BY DEF Registered, Refused, Clash, Stored

LEMMA OthersKeep ==
  ASSUME RegistrationsInv, NEW s \in Sessions,
         rows \subseteq rows', \A x \in rows' \ rows : x.by = s,
         \A x \in Sessions \ {s} : pc'[x] = pc[x] /\ pending'[x] = pending[x],
         \A x \in Requests \ {s} : ask'[x] = ask[x],
         \A x \in Scripts \ {s} : next'[x] = next[x]
  PROVE  /\ \A r \in Requests \ {s} : RequestInv(r)'
         /\ \A x \in Scripts \ {s} : ScriptInv(x)'
<1>1. \A x \in Sessions \ {s} : RowsOf(x)' = RowsOf(x)
  BY DEF RowsOf
<1>2. ASSUME NEW r \in Requests \ {s} PROVE RequestInv(r)'
  <2>1. RequestInv(r) /\ r \in Sessions \ {s} BY DEF RegistrationsInv, Sessions
  <2>2. /\ pc'[r] = pc[r] /\ pending'[r] = pending[r] /\ ask'[r] = ask[r]
        /\ Written(r)' = Written(r) /\ (Registering(r)' <=> Registering(r))
        /\ Registered(ask[r]) => Registered(ask[r])'
        /\ Refused(ask[r], Stored) => Refused(ask[r], Stored)'
    BY <2>1, RowsAreKept DEF Written, Registering, Registered, Refused, Clash, Stored
  <2>3. Committed(r)' BY <1>1, <2>1, <2>2 DEF RequestInv, Committed, Greeting, Rejection
  <2> QED BY <2>1, <2>2, <2>3 DEF RequestInv, Greeting, Rejection
<1>3. ASSUME NEW x \in Scripts \ {s} PROVE ScriptInv(x)'
  <2>1. ScriptInv(x) /\ x \in Sessions \ {s} BY DEF RegistrationsInv, Sessions
  <2>2. /\ pc'[x] = pc[x] /\ pending'[x] = pending[x] /\ next'[x] = next[x]
        /\ \A i \in DOMAIN Entries :
             Clash(Entries[i], "first", Seen(x)) => Clash(Entries[i], "first", Seen(x))'
    BY <2>1 DEF Clash, Seen
  <2> QED BY <1>1, <2>1, <2>2 DEF ScriptInv
<1> QED BY <1>2, <1>3

LEMMA QuietStep ==
  ASSUME RegistrationsInv, rows' = rows,
         \A x \in Sessions : pending'[x] \subseteq pending[x]
  PROVE  WriteLock' /\ FlushedFits'
<1>1. WriteLock' BY DEF RegistrationsInv, WriteLock
<1>2. \A x \in Sessions : Seen(x)' \subseteq Seen(x) BY DEF Seen
<1>3. FlushedFits'
  BY <1>2 DEF RegistrationsInv, FlushedFits, Distinct, Stored, Registry
<1> QED BY <1>1, <1>3

LEMMA FlushStep ==
  ASSUME RegistrationsInv, NEW s \in Sessions, NEW S, rows' = rows, MayWrite(s), Flush(s, S),
         Distinct(Registry(Seen(s) \cup S)), \A x \in S : x.by = s
  PROVE  WriteLock' /\ FlushedFits'
<1>1. /\ pending'[s] = pending[s] \cup S
      /\ \A x \in Sessions \ {s} : pending'[x] = {} /\ pending[x] = {}
  BY DEF RegistrationsInv, RegistrationsTypeOK, MayWrite, Flush
<1>2. WriteLock' BY <1>1 DEF WriteLock
<1>3. Seen(s)' = Seen(s) \cup S /\ \A x \in Sessions \ {s} : Seen(x)' = Seen(x)
  BY <1>1 DEF Seen
<1>4. Distinct(Registry(Seen(s)))' BY <1>3 DEF Registry, Distinct
<1>5. \A x \in Sessions \ {s} : Distinct(Registry(Seen(x)))'
  BY <1>3 DEF RegistrationsInv, FlushedFits, Registry, Distinct
<1>6. Distinct(Stored)' BY DEF RegistrationsInv, FlushedFits, Stored, Distinct
<1>7. \A x \in Sessions : \A y \in pending'[x] : y.by = x
  BY <1>1 DEF RegistrationsInv, FlushedFits
<1> QED BY <1>2, <1>4, <1>5, <1>6, <1>7 DEF FlushedFits

LEMMA CommitStep ==
  ASSUME RegistrationsInv, NEW s \in Sessions, rows' = Seen(s),
         pending' = [pending EXCEPT ![s] = {}]
  PROVE  WriteLock' /\ FlushedFits'
<1>1. /\ pending'[s] = {} /\ \A x \in Sessions \ {s} : pending'[x] = pending[x]
  BY DEF RegistrationsInv, RegistrationsTypeOK
<1>2. WriteLock' BY <1>1 DEF RegistrationsInv, WriteLock
<1>3. \A x \in Sessions : Seen(x)' = Seen(s) \/ Seen(x)' = Seen(x)
  <2>1. Seen(s)' = Seen(s) BY <1>1 DEF Seen
  <2>2. \A x \in Sessions \ {s} : pending[x] = {} \/ pending[s] = {}
    BY DEF RegistrationsInv, WriteLock
  <2> QED BY <1>1, <2>1, <2>2 DEF Seen
<1>4. \A x \in Sessions : Distinct(Registry(Seen(x)))'
  BY <1>3 DEF RegistrationsInv, FlushedFits, Registry, Distinct
<1>5. Distinct(Stored)'
  <2>1. Stored' = Registry(Seen(s)) BY DEF Stored, Registry
  <2>2. Distinct(Registry(Seen(s))) BY DEF RegistrationsInv, FlushedFits
  <2> QED BY <2>1, <2>2 DEF Distinct
<1>6. \A x \in Sessions : \A y \in pending'[x] : y.by = x
  BY <1>1 DEF RegistrationsInv, FlushedFits
<1> QED BY <1>2, <1>4, <1>5, <1>6 DEF FlushedFits

-----------------------------------------------------------------------------
(***************************************************************************)
(* The steps of a request.                                                 *)
(***************************************************************************)
(* A step of a request that has written nothing yet, and does not.         *)
LEMMA QuietRequestStep ==
  ASSUME RegistrationsInv, NEW r \in Requests, NEW to \in (Places \cup Ended) \ AfterCommit,
         pc[r] \notin AfterCommit \cup {"LOST"}, to # "commit",
         pc' = [pc EXCEPT ![r] = to],
         ask' = [ask EXCEPT ![r] = ask'[r]], ask'[r] \in {NoCall} \cup Calls \cup ToInsert,
         UNCHANGED <<rows, next>>,
         \/ pending' = pending /\ pc[r] # "commit"
         \/ pending' = [pending EXCEPT ![r] = {}],
         to \in {"checkFirst", "checkSecond"} => ask'[r] \in Calls /\ ask'[r].table \in Tables,
         to \in {"reading", "greeting", "rejecting"} => ask'[r] \in Calls,
         to = "greeting" => Registered(ask'[r]),
         to = "insert" => ask'[r] \in ToInsert,
         to = "DUPLICATE" => Refused(ask'[r], Stored)
  PROVE  RegistrationsInv'
<1>1. r \in Sessions /\ r \notin Scripts BY RegistrationsAssumption DEF Sessions
<1>2. /\ RegistrationsTypeOK /\ RequestInv(r) BY DEF RegistrationsInv
<1>3. /\ pc'[r] = to /\ \A s \in Sessions \ {r} : pc'[s] = pc[s] /\ pending'[s] = pending[s]
      /\ \A q \in Requests \ {r} : ask'[q] = ask[q]
      /\ pending'[r] = {} /\ \A s \in Sessions : pending'[s] \subseteq pending[s]
  BY <1>1, <1>2 DEF RegistrationsTypeOK, RequestInv
<1>4. RegistrationsTypeOK'
  <2>1. pending' \in [Sessions -> SUBSET RowsToBe] BY <1>2 DEF RegistrationsTypeOK
  <2>2. ask' \in [Requests -> {NoCall} \cup Calls \cup ToInsert] BY <1>2 DEF RegistrationsTypeOK
  <2>3. pc' \in [Sessions -> Places \cup Ended] BY <1>2 DEF RegistrationsTypeOK
  <2> QED BY <1>2, <2>1, <2>2, <2>3 DEF RegistrationsTypeOK
<1>5. WriteLock' /\ FlushedFits' BY <1>1, <1>3, QuietStep
<1>6. /\ \A q \in Requests \ {r} : RequestInv(q)'
      /\ \A s \in Scripts : ScriptInv(s)'
  BY <1>1, <1>3, OthersKeep
<1>7. RequestInv(r)'
  <2>1. RowsOf(r)' = {}
    BY <1>2 DEF RowsOf, RequestInv, Committed, AfterCommit
  <2>2. Committed(r)' BY <1>3, <2>1 DEF Committed
  <2>3. /\ to = "greeting" => Registered(ask[r])'
        /\ to = "DUPLICATE" => Refused(ask[r], Stored)'
    BY DEF Registered, Refused, Clash, Stored
  <2> QED BY <1>3, <2>2, <2>3 DEF RequestInv, AfterCommit, Registering
<1> QED BY <1>4, <1>5, <1>6, <1>7 DEF RegistrationsInv

LEMMA RequestMove ==
  ASSUME RegistrationsTypeOK, NEW r \in Requests, NEW from, NEW to, Go(r, from, to)
  PROVE  /\ pc[r] = from /\ pc' = [pc EXCEPT ![r] = to]
         /\ ask[r] \in {NoCall} \cup Calls \cup ToInsert
         /\ UNCHANGED ask => ask' = [ask EXCEPT ![r] = ask'[r]]
  BY DEF RegistrationsTypeOK, Go

LEMMA ReadingSteps ==
  ASSUME RegistrationsInv, NEW r \in Requests,
         \/ Begin(r) \/ TurnAway(r) \/ CheckFirst(r) \/ CheckPhone(r) \/ DrawNumber(r)
         \/ InsertRefused(r) \/ ReadUser(r)
  PROVE  RegistrationsInv'
<1> USE DEF Places, Ended, AfterCommit
<1>1. RegistrationsTypeOK /\ RequestInv(r) BY DEF RegistrationsInv
<1>2. CASE Begin(r)
  <2>1. PICK c \in Calls :
          /\ Go(r, "idle", IF c.table = "login" THEN "reading" ELSE "checkFirst")
          /\ ask' = [ask EXCEPT ![r] = c]
          /\ UNCHANGED <<rows, pending, next>>
    BY <1>2 DEF Begin
  <2>2. ask'[r] = c BY <1>1, <2>1 DEF RegistrationsTypeOK
  <2>3. ask' = [ask EXCEPT ![r] = ask'[r]] BY <2>1, <2>2
  <2>4. c.table \in Tables \cup {"login"} BY RegistrationsAssumption
  <2>5. PICK to \in {"reading", "checkFirst"} :
          Go(r, "idle", to) /\ (to = "checkFirst" => c.table \in Tables)
    BY <2>1, <2>4
  <2>6. /\ pc[r] = "idle" /\ pc' = [pc EXCEPT ![r] = to]
        /\ UNCHANGED <<rows, pending, next>>
    BY <1>1, <2>1, <2>5, RequestMove
  <2>7. ask'[r] \in Calls /\ (to = "checkFirst" => ask'[r].table \in Tables)
    BY <2>2, <2>5
  <2> HIDE <2>1, <2>2, <2>5
  <2> QED BY <2>3, <2>6, <2>7, QuietRequestStep
<1>3. CASE TurnAway(r)
  BY <1>1, <1>3, RequestMove, QuietRequestStep DEF TurnAway
<1>4. CASE CheckFirst(r)
  <2>1. /\ Go(r, "checkFirst",
              IF ~BankKnown(ask[r]) THEN "NOT_FOUND"
              ELSE IF Clash(ask[r], "first", rows) THEN "DUPLICATE"
              ELSE IF ask[r].table \in {"users", "accounts"} THEN "checkSecond" ELSE "insert")
        /\ UNCHANGED <<rows, pending, ask, next>>
    BY <1>4 DEF CheckFirst
  <2>2. ask[r] \in Calls /\ ask[r].table \in Tables BY <1>1, <2>1 DEF RequestInv, Go
  <2>3. Clash(ask[r], "first", rows) => Refused(ask[r], Stored)
    BY <2>2 DEF Clash, Refused, Stored
  <2>4. ask[r].table \notin {"users", "accounts"} => ask[r] \in ToInsert
    BY <2>2 DEF ToInsert, Drawn
  <2>5. PICK to \in {"NOT_FOUND", "DUPLICATE", "checkSecond", "insert"} :
          /\ Go(r, "checkFirst", to)
          /\ to = "DUPLICATE" => Refused(ask[r], Stored)
          /\ to = "insert" => ask[r] \in ToInsert
    BY <2>1, <2>3, <2>4
  <2> QED BY <1>1, <2>1, <2>2, <2>5, RequestMove, QuietRequestStep
<1>5. CASE CheckPhone(r)
  <2>1. PICK to \in {"DUPLICATE", "insert"} :
          /\ Go(r, "checkSecond", to)
          /\ ask[r].table = "users"
          /\ to = "DUPLICATE" => Clash(ask[r], "second", rows)
          /\ UNCHANGED <<rows, pending, ask, next>>
    BY <1>5 DEF CheckPhone
  <2>2. ask[r] \in Calls /\ ask[r].table \in Tables BY <1>1, <2>1 DEF RequestInv, Go
  <2>3. to = "DUPLICATE" => Refused(ask[r], Stored)
    BY <2>1, <2>2 DEF Clash, Refused, Stored
  <2>4. ask[r] \in ToInsert BY <2>1, <2>2 DEF ToInsert, Drawn
  <2> QED BY <1>1, <2>1, <2>2, <2>3, <2>4, RequestMove, QuietRequestStep
<1>6. CASE DrawNumber(r)
  <2>1. PICK c \in Drawn(ask[r]) : ask' = [ask EXCEPT ![r] = c]
    BY <1>6 DEF DrawNumber
  <2>2. Go(r, "checkSecond", "insert") /\ UNCHANGED <<rows, pending, next>>
    BY <1>6 DEF DrawNumber
  <2>3. ask[r] \in Calls /\ ask[r].table \in Tables BY <1>1, <2>2 DEF RequestInv, Go
  <2>4. c \in ToInsert BY <2>1, <2>3 DEF ToInsert
  <2>5. ask'[r] = c BY <1>1, <2>1 DEF RegistrationsTypeOK
  <2>6. ask' = [ask EXCEPT ![r] = ask'[r]] BY <2>1, <2>5
  <2> QED BY <1>1, <2>2, <2>4, <2>5, <2>6, RequestMove, QuietRequestStep
<1>7. CASE InsertRefused(r)
  BY <1>1, <1>7, RequestMove, QuietRequestStep DEF InsertRefused
<1>8. CASE ReadUser(r)
  <2>1. PICK to \in {"greeting", "rejecting"} :
          /\ Go(r, "reading", to)
          /\ to = "greeting" => Registered(ask[r])
          /\ UNCHANGED <<rows, pending, ask, next>>
    BY <1>8 DEF ReadUser
  <2>2. ask[r] \in Calls BY <1>1, <2>1 DEF RequestInv, Go
  <2> QED BY <1>1, <2>1, <2>2, RequestMove, QuietRequestStep
<1> QED BY <1>2, <1>3, <1>4, <1>5, <1>6, <1>7, <1>8

LEMMA DbErrorStep ==
  ASSUME RegistrationsInv, NEW r \in Requests, DbError(r)
  PROVE  RegistrationsInv'
<1>1. /\ pc[r] \notin AfterCommit \cup {"LOST"} /\ pc' = [pc EXCEPT ![r] = "INTERNAL_ERROR"]
      /\ pending' = [pending EXCEPT ![r] = {}] /\ UNCHANGED <<rows, ask, next>>
  BY DEF DbError, Ended, AfterCommit, Answer
<1>2. /\ ask[r] \in {NoCall} \cup Calls \cup ToInsert
      /\ ask' = [ask EXCEPT ![r] = ask'[r]]
  BY <1>1 DEF RegistrationsInv, RegistrationsTypeOK
<1> QED BY <1>1, <1>2, QuietRequestStep DEF Ended, AfterCommit

(* A request's INSERTs, found to clash with nothing.                       *)
LEMMA InsertStep ==
  ASSUME RegistrationsInv, NEW r \in Requests, Insert(r) \/ LogAttempt(r)
  PROVE  RegistrationsInv'
<1>1. RegistrationsTypeOK /\ RequestInv(r) /\ FlushedFits /\ r \in Sessions /\ r \notin Scripts
  BY RegistrationsAssumption DEF RegistrationsInv, Sessions
<1>2. PICK S : /\ MayWrite(r) /\ Flush(r, S) /\ UNCHANGED <<rows, ask, next>>
               /\ pc[r] \in {"insert", "greeting", "rejecting"}
               /\ pc' = [pc EXCEPT ![r] = "commit"]
               /\ \/ /\ pc[r] = "insert" /\ S = Written(r) /\ ~Refused(ask[r], rows)
                  \/ pc[r] = "greeting" /\ S = Greeting(r)
                  \/ pc[r] = "rejecting" /\ S = Rejection(r)
  <2>1. CASE Insert(r) BY <2>1 DEF Insert, Go
  <2>2. CASE LogAttempt(r) BY <2>2 DEF LogAttempt, Go, Greeting, Rejection
  <2> QED BY <2>1, <2>2
<1>3. pending[r] = {} /\ Seen(r) = rows BY <1>1, <1>2 DEF RequestInv, Seen
<1>4. /\ S \subseteq RowsToBe /\ Distinct(Registry(rows \cup S)) /\ \A x \in S : x.by = r
      /\ \/ Registering(r) /\ S = Written(r)
         \/ Registered(ask[r]) /\ S = Greeting(r)
         \/ S = Rejection(r)
  <2>1. CASE pc[r] = "insert"
    <3>1. Registering(r) BY <1>1, <2>1 DEF RequestInv
    <3>2. /\ S = Written(r) /\ S \subseteq RowsToBe /\ Registry(S) = {Row(ask[r], r)}
          /\ \A x \in S : x.by = r
      BY <1>2, <2>1, <3>1, RegisteringType
    <3>3. ~Refused(ask[r], rows) BY <1>2, <2>1
    <3>4. \A y \in rows : y.table = Row(ask[r], r).table =>
            /\ y.first # Row(ask[r], r).first /\ y.second # Row(ask[r], r).second
      BY <3>3, RowFields DEF Refused, Clash
    <3>5. Distinct(Registry(rows)) BY <1>1, <1>3 DEF FlushedFits
    <3>6. Registry(rows \cup S) = Registry(rows) \cup {Row(ask[r], r)}
      BY <3>2 DEF Registry
    <3>7. Distinct(Registry(rows \cup S)) BY <3>4, <3>5, <3>6 DEF Distinct, Registry
    <3> QED BY <1>3, <3>1, <3>2, <3>7
  <2>2. CASE pc[r] \in {"greeting", "rejecting"}
    <3>1. /\ pc[r] = "greeting" => S = Greeting(r) /\ Registered(ask[r])
          /\ pc[r] = "rejecting" => S = Rejection(r)
      BY <1>1, <1>2, <2>2 DEF RequestInv
    <3>2. S \subseteq RowsToBe
      BY <2>2, <3>1, AuditRowsToBe DEF Actions, Greeting, Rejection
    <3>3. Registry(S) = {} /\ \A x \in S : x.by = r
      BY <2>2, <3>1, RowFields DEF Registry, Greeting, Rejection
    <3>4. Registry(rows \cup S) = Registry(rows) BY <3>3 DEF Registry
    <3>5. Distinct(Registry(rows \cup S)) BY <1>1, <1>3, <3>4 DEF FlushedFits
    <3> QED BY <2>2, <3>1, <3>2, <3>3, <3>5
  <2> QED BY <1>2, <2>1, <2>2
<1>5. RegistrationsTypeOK'
  <2>1. pending' \in [Sessions -> SUBSET RowsToBe]
    BY <1>1, <1>2, <1>4 DEF RegistrationsTypeOK, Flush
  <2>2. pc' \in [Sessions -> Places \cup Ended]
    BY <1>1, <1>2 DEF RegistrationsTypeOK, Places
  <2> QED BY <1>1, <1>2, <2>1, <2>2 DEF RegistrationsTypeOK
<1>6. WriteLock' /\ FlushedFits' BY <1>1, <1>2, <1>3, <1>4, FlushStep
<1>7. /\ pc'[r] = "commit" /\ pending'[r] = S
      /\ \A s \in Sessions \ {r} : pc'[s] = pc[s] /\ pending'[s] = pending[s]
  BY <1>1, <1>2, <1>3 DEF RegistrationsTypeOK, Flush
<1>8. /\ \A q \in Requests \ {r} : RequestInv(q)'
      /\ \A s \in Scripts : ScriptInv(s)'
  BY <1>1, <1>2, <1>7, OthersKeep
<1>9. RequestInv(r)'
  <2>1. RowsOf(r)' = {}
    BY <1>1, <1>2 DEF RowsOf, RequestInv, Committed, AfterCommit
  <2>2. Committed(r)' BY <1>7, <2>1 DEF Committed, AfterCommit
  <2>3. /\ Registering(r)' <=> Registering(r)
        /\ Written(r)' = Written(r)
        /\ Registered(ask[r])' <=> Registered(ask[r])
    BY <1>2 DEF Registering, Written, Registered
  <2> QED BY <1>4, <1>7, <2>2, <2>3 DEF RequestInv, Greeting, Rejection
<1> QED BY <1>5, <1>6, <1>8, <1>9 DEF RegistrationsInv

LEMMA CommitRequestStep ==
  ASSUME RegistrationsInv, NEW r \in Requests, Commit(r)
  PROVE  RegistrationsInv'
<1>1. RegistrationsTypeOK /\ RequestInv(r) /\ FlushedFits /\ r \in Sessions /\ r \notin Scripts
  BY RegistrationsAssumption DEF RegistrationsInv, Sessions
<1>2. /\ pc[r] = "commit" /\ pc' = [pc EXCEPT ![r] = Outcome(r)]
      /\ rows' = Seen(r) /\ pending' = [pending EXCEPT ![r] = {}]
      /\ UNCHANGED <<ask, next>>
  BY DEF Commit, Go, Seen
<1>3. /\ Outcome(r) \in {"created", "greeted", "rejected"}
      /\ Outcome(r) = "created" => Registering(r) /\ pending[r] = Written(r)
      /\ Outcome(r) = "greeted" => Registered(ask[r]) /\ pending[r] = Greeting(r)
      /\ Outcome(r) = "rejected" => pending[r] = Rejection(r)
  <2>1. AuditRow("LOGIN_SUCCESS", r) # AuditRow("LOGIN_FAILED", r)
    BY DEF AuditRow
  <2>2. CASE Registering(r) /\ pending[r] = Written(r)
    <3>1. ask[r].table \in Tables BY <2>2, RegisteringType
    <3>2. \A a : Row(ask[r], r) # AuditRow(a, r)
      BY <3>1, RowFields
    <3>3. /\ AuditRow("LOGIN_SUCCESS", r) # AuditRow("USER_REGISTERED", r)
          /\ AuditRow("LOGIN_FAILED", r) # AuditRow("USER_REGISTERED", r)
      BY DEF AuditRow
    <3>4. /\ AuditRow("LOGIN_SUCCESS", r) \notin pending[r]
          /\ AuditRow("LOGIN_FAILED", r) \notin pending[r]
      BY <2>2, <3>2, <3>3 DEF Written
    <3>5. Outcome(r) = "created" BY <3>4 DEF Outcome
    <3> QED BY <2>2, <3>5
  <2>3. CASE Registered(ask[r]) /\ pending[r] = Greeting(r)
    <3>1. Outcome(r) = "greeted" BY <2>1, <2>3 DEF Outcome, Greeting
    <3> QED BY <2>3, <3>1
  <2>4. CASE pending[r] = Rejection(r)
    <3>1. Outcome(r) = "rejected" BY <2>1, <2>4 DEF Outcome, Rejection
    <3> QED BY <2>4, <3>1
  <2> QED BY <1>1, <1>2, <2>2, <2>3, <2>4 DEF RequestInv
<1>4. RegistrationsTypeOK'
  <2>1. rows' \subseteq RowsToBe /\ pending' \in [Sessions -> SUBSET RowsToBe]
    BY <1>1, <1>2 DEF RegistrationsTypeOK, Seen
  <2>2. pc' \in [Sessions -> Places \cup Ended]
    BY <1>1, <1>2, <1>3 DEF RegistrationsTypeOK, Places
  <2> QED BY <1>1, <1>2, <2>1, <2>2 DEF RegistrationsTypeOK
<1>5. WriteLock' /\ FlushedFits' BY <1>1, <1>2, CommitStep
<1>6. /\ pc'[r] = Outcome(r) /\ pending'[r] = {}
      /\ \A s \in Sessions \ {r} : pc'[s] = pc[s] /\ pending'[s] = pending[s]
  BY <1>1, <1>2 DEF RegistrationsTypeOK
<1>7. rows \subseteq rows' /\ \A x \in pending[r] : x.by = r
  BY <1>1, <1>2 DEF Seen, FlushedFits
<1>8. /\ \A q \in Requests \ {r} : RequestInv(q)'
      /\ \A s \in Scripts : ScriptInv(s)'
  BY <1>1, <1>2, <1>6, <1>7, OthersKeep DEF Seen
<1>9. RequestInv(r)'
  <2>1. RowsOf(r) = {} BY <1>1, <1>2 DEF RequestInv, Committed, AfterCommit
  <2>2. RowsOf(r)' = pending[r] BY <1>2, <1>7, <2>1 DEF RowsOf, Seen
  <2>3. /\ Registering(r)' <=> Registering(r)
        /\ Written(r)' = Written(r)
        /\ Registered(ask[r]) => Registered(ask[r])'
    BY <1>2, <1>7 DEF Registering, Written, Registered
  <2>4. Committed(r)'
    BY <1>3, <1>6, <2>2, <2>3 DEF Committed, Greeting, Rejection
  <2> QED BY <1>3, <1>6, <2>3, <2>4 DEF RequestInv
<1> QED BY <1>4, <1>5, <1>8, <1>9 DEF RegistrationsInv

(* The answer changes nothing but where the request stands.                *)
LEMMA RespondStep ==
  ASSUME RegistrationsInv, NEW r \in Requests, Respond(r)
  PROVE  RegistrationsInv'
<1>1. RegistrationsTypeOK /\ RequestInv(r) /\ r \in Sessions /\ r \notin Scripts
  BY RegistrationsAssumption DEF RegistrationsInv, Sessions
<1>2. PICK from \in {"created", "greeted", "rejected"} :
        /\ pc[r] = from /\ pc' = [pc EXCEPT ![r] = Answer[from]]
        /\ UNCHANGED <<rows, pending, ask, next>>
  BY DEF Respond, Answer
<1>3. /\ pc'[r] = Answer[from] /\ \A s \in Sessions \ {r} : pc'[s] = pc[s]
      /\ Answer[from] = CASE from = "created" -> "CREATED"
                          [] from = "greeted" -> "TOKEN"
                          [] from = "rejected" -> "UNAUTHORIZED"
  BY <1>1, <1>2 DEF RegistrationsTypeOK, Answer
<1>4. RegistrationsTypeOK'
  <2>1. Answer[from] \in Places \cup Ended BY <1>3 DEF Ended
  <2> QED BY <1>1, <1>2, <2>1 DEF RegistrationsTypeOK
<1>5. WriteLock' /\ FlushedFits' BY <1>2, QuietStep
<1>6. /\ \A q \in Requests \ {r} : RequestInv(q)'
      /\ \A s \in Scripts : ScriptInv(s)'
  BY <1>1, <1>2, <1>3, OthersKeep
<1>7. RequestInv(r)'
  <2>1. /\ RowsOf(r)' = RowsOf(r) /\ pending'[r] = {}
        /\ Registering(r)' <=> Registering(r)
        /\ Written(r)' = Written(r)
        /\ Registered(ask[r])' <=> Registered(ask[r])
    BY <1>1, <1>2 DEF RowsOf, Registering, Written, Registered, RequestInv
  <2>2. Committed(r)'
    BY <1>1, <1>2, <1>3, <2>1
    DEF RequestInv, Committed, AfterCommit, Greeting, Rejection
  <2> QED BY <1>1, <1>2, <1>3, <2>1, <2>2 DEF RequestInv
<1> QED BY <1>4, <1>5, <1>6, <1>7 DEF RegistrationsInv

-----------------------------------------------------------------------------
(***************************************************************************)
(* The steps of the script, and the crash.                                 *)
(***************************************************************************)
LEMMA ScriptStepInv ==
  ASSUME RegistrationsInv, NEW s \in Scripts, ScriptStep(s)
  PROVE  RegistrationsInv'
<1>1. /\ RegistrationsTypeOK /\ ScriptInv(s) /\ FlushedFits
      /\ s \in Sessions /\ s \notin Requests /\ next[s] \in 1 .. Len(Entries) + 1
  BY RegistrationsAssumption DEF RegistrationsInv, RegistrationsTypeOK, Sessions
<1>2. /\ Len(Entries) \in Nat /\ DOMAIN Entries = 1 .. Len(Entries)
  BY RegistrationsAssumption
<1>3. ASSUME NEW i \in DOMAIN Entries, SeedSkip(s, i) \/ SeedCheck(s, i)
      PROVE  RegistrationsInv'
  <2>1. PICK to \in {"idle", "insert"}, n \in {i, i + 1} :
          /\ next[s] = i /\ pc[s] = "idle" /\ pc' = [pc EXCEPT ![s] = to]
          /\ next' = [next EXCEPT ![s] = n]
          /\ n = i + 1 => Clash(Entries[i], "first", Seen(s))
          /\ UNCHANGED <<rows, pending, ask>>
    <3>1. CASE SeedSkip(s, i)
      <4>1. /\ next[s] = i /\ pc[s] = "idle" /\ pc' = [pc EXCEPT ![s] = "idle"]
            /\ next' = [next EXCEPT ![s] = i + 1]
            /\ Clash(Entries[i], "first", Seen(s))
            /\ UNCHANGED <<rows, pending, ask>>
        BY <3>1 DEF SeedSkip, At, Go
      <4> QED BY <4>1
    <3>2. CASE SeedCheck(s, i)
      <4>1. next' = [next EXCEPT ![s] = i]
        BY <3>2 DEF SeedCheck, At, RegistrationsInv, RegistrationsTypeOK
      <4>2. i + 1 # i BY <1>2
      <4>3. /\ next[s] = i /\ pc[s] = "idle" /\ pc' = [pc EXCEPT ![s] = "insert"]
            /\ UNCHANGED <<rows, pending, ask>>
        BY <3>2 DEF SeedCheck, At, Go
      <4> QED BY <4>1, <4>2, <4>3
    <3> QED BY <1>3, <3>1, <3>2
  <2>2. /\ pc'[s] = to /\ next'[s] = n /\ n \in 1 .. Len(Entries) + 1
        /\ \A x \in Sessions \ {s} : pc'[x] = pc[x]
        /\ \A x \in Scripts \ {s} : next'[x] = next[x]
    BY <1>1, <1>2, <2>1 DEF RegistrationsTypeOK
  <2>3. RegistrationsTypeOK'
    BY <1>1, <2>1, <2>2 DEF RegistrationsTypeOK, Places
  <2>4. WriteLock' /\ FlushedFits' BY <2>1, QuietStep
  <2>5. /\ \A q \in Requests : RequestInv(q)'
        /\ \A x \in Scripts \ {s} : ScriptInv(x)'
    BY <1>1, <2>1, <2>2, OthersKeep
  <2>6. ScriptInv(s)'
    <3>1. \A j \in DOMAIN Entries : j < n => Clash(Entries[j], "first", Seen(s))
      BY <1>1, <1>2, <2>1 DEF ScriptInv
    <3> QED BY <1>1, <2>1, <2>2, <3>1 DEF ScriptInv, Ended, Seen, RowsOf, Clash
  <2> QED BY <2>3, <2>4, <2>5, <2>6 DEF RegistrationsInv
<1>4. ASSUME NEW i \in DOMAIN Entries, SeedInsert(s, i) PROVE RegistrationsInv'
  <2> DEFINE e == Row(Entries[i], s)
  <2>1. /\ next[s] = i /\ ~Refused(Entries[i], Seen(s)) /\ MayWrite(s) /\ Flush(s, {e})
        /\ pc[s] = "insert" /\ pc' = [pc EXCEPT ![s] = "idle"]
        /\ next' = [next EXCEPT ![s] = i + 1]
        /\ UNCHANGED <<rows, ask>>
    BY <1>4 DEF SeedInsert, At, Go
  <2>2. /\ pc'[s] = "idle" /\ next'[s] = i + 1 /\ i + 1 \in 1 .. Len(Entries) + 1
        /\ pending'[s] = pending[s] \cup {e}
        /\ \A x \in Sessions \ {s} : pc'[x] = pc[x] /\ pending'[x] = pending[x]
        /\ \A x \in Scripts \ {s} : next'[x] = next[x]
    BY <1>1, <1>2, <2>1 DEF RegistrationsTypeOK, Flush
  <2>3. e \in RowsToBe
    <3>1. e \in {Row(Entries[j], s) : j \in DOMAIN Entries} OBVIOUS
    <3> QED BY <3>1 DEF RowsToBe
  <2>4. RegistrationsTypeOK'
    BY <1>1, <2>1, <2>2, <2>3 DEF RegistrationsTypeOK, Places, Flush
  <2>5. Distinct(Registry(Seen(s) \cup {e}))
    <3>1. \A y \in Seen(s) : y.table = e.table => y.first # e.first /\ y.second # e.second
      BY <2>1, RowFields DEF Refused, Clash
    <3>2. Distinct(Registry(Seen(s))) BY <1>1 DEF FlushedFits
    <3> QED BY <3>1, <3>2 DEF Distinct, Registry
  <2>6. e.by = s BY RowFields
  <2>7. WriteLock' /\ FlushedFits' BY <1>1, <2>1, <2>5, <2>6, FlushStep
  <2>8. /\ \A q \in Requests : RequestInv(q)'
        /\ \A x \in Scripts \ {s} : ScriptInv(x)'
    BY <1>1, <2>1, <2>2, OthersKeep
  <2>9. ScriptInv(s)'
    <3>1. Seen(s)' = Seen(s) \cup {e} BY <2>1, <2>2 DEF Seen
    <3>2. Clash(Entries[i], "first", Seen(s)') BY <3>1, RowFields DEF Clash
    <3>3. \A j \in DOMAIN Entries : j < i => Clash(Entries[j], "first", Seen(s))
      BY <1>1, <2>1 DEF ScriptInv
    <3>4. \A j \in DOMAIN Entries : j < i + 1 => Clash(Entries[j], "first", Seen(s)')
      BY <1>2, <3>1, <3>2, <3>3 DEF Clash
    <3> QED BY <1>1, <2>1, <2>2, <3>4 DEF ScriptInv, Ended, RowsOf
  <2> QED BY <2>4, <2>7, <2>8, <2>9 DEF RegistrationsInv
<1>5. CASE SeedCommit(s)
  <2>1. /\ next[s] > Len(Entries) /\ pc[s] = "idle" /\ pc' = [pc EXCEPT ![s] = "SEEDED"]
        /\ rows' = Seen(s) /\ pending' = [pending EXCEPT ![s] = {}]
        /\ UNCHANGED <<ask, next>>
    BY <1>5 DEF SeedCommit, Go
  <2>2. /\ pc'[s] = "SEEDED" /\ pending'[s] = {}
        /\ \A x \in Sessions \ {s} : pc'[x] = pc[x] /\ pending'[x] = pending[x]
    BY <1>1, <2>1 DEF RegistrationsTypeOK
  <2>3. RegistrationsTypeOK'
    BY <1>1, <2>1 DEF RegistrationsTypeOK, Ended, Seen
  <2>4. WriteLock' /\ FlushedFits' BY <1>1, <2>1, CommitStep
  <2>5. rows \subseteq rows' /\ \A x \in rows' \ rows : x.by = s
    BY <1>1, <2>1 DEF Seen, FlushedFits
  <2>6. /\ \A q \in Requests : RequestInv(q)'
        /\ \A x \in Scripts \ {s} : ScriptInv(x)'
    BY <1>1, <2>1, <2>2, <2>5, OthersKeep
  <2>7. ScriptInv(s)'
    BY <1>1, <2>1, <2>2 DEF ScriptInv, Seen, Clash, RowsOf
  <2> QED BY <2>3, <2>4, <2>6, <2>7 DEF RegistrationsInv
<1>6. CASE SeedFails(s)
  <2>1. /\ pc[s] \notin Ended /\ pc' = [pc EXCEPT ![s] = "FAILED"]
        /\ pending' = [pending EXCEPT ![s] = {}] /\ UNCHANGED <<rows, ask, next>>
    BY <1>6 DEF SeedFails
  <2>2. /\ pc'[s] = "FAILED" /\ pending'[s] = {}
        /\ \A x \in Sessions \ {s} : pc'[x] = pc[x] /\ pending'[x] = pending[x]
        /\ \A x \in Sessions : pending'[x] \subseteq pending[x]
    BY <1>1, <2>1 DEF RegistrationsTypeOK
  <2>3. RegistrationsTypeOK' BY <1>1, <2>1 DEF RegistrationsTypeOK, Ended
  <2>4. WriteLock' /\ FlushedFits' BY <2>1, <2>2, QuietStep
  <2>5. /\ \A q \in Requests : RequestInv(q)'
        /\ \A x \in Scripts \ {s} : ScriptInv(x)'
    BY <1>1, <2>1, <2>2, OthersKeep
  <2>6. ScriptInv(s)' BY <1>1, <2>1, <2>2 DEF ScriptInv, RowsOf, Ended
  <2> QED BY <2>3, <2>4, <2>5, <2>6 DEF RegistrationsInv
<1> QED BY <1>3, <1>4, <1>5, <1>6 DEF ScriptStep

LEMMA CrashStep ==
  ASSUME RegistrationsInv, Crash PROVE RegistrationsInv'
<1>1. RegistrationsTypeOK /\ Scripts \cap Requests = {}
  BY RegistrationsAssumption DEF RegistrationsInv
<1>2. /\ \A x \in Sessions : pending'[x] \subseteq pending[x]
      /\ UNCHANGED <<rows, ask, next>>
      /\ \A s \in Scripts : pc'[s] = pc[s] /\ pending'[s] = pending[s]
      /\ \A r \in Requests : /\ pending'[r] = {}
                             /\ IF pc[r] \in {"idle"} \cup Ended
                                THEN pc'[r] = pc[r] ELSE pc'[r] = "LOST"
  BY <1>1 DEF Crash, Sessions
<1>3. RegistrationsTypeOK'
  <2>1. pending' \in [Sessions -> SUBSET RowsToBe] BY <1>1 DEF Crash, RegistrationsTypeOK
  <2>2. pc' \in [Sessions -> Places \cup Ended]
    BY <1>1 DEF Crash, RegistrationsTypeOK, Ended
  <2> QED BY <1>1, <1>2, <2>1, <2>2 DEF RegistrationsTypeOK
<1>4. WriteLock' /\ FlushedFits' BY <1>2, QuietStep
<1>5. ASSUME NEW r \in Requests PROVE RequestInv(r)'
  <2>1. RequestInv(r) BY DEF RegistrationsInv
  <2>2. /\ Written(r)' = Written(r) /\ (Registering(r)' <=> Registering(r))
        /\ Registered(ask[r])' <=> Registered(ask[r])
        /\ Refused(ask[r], Stored)' <=> Refused(ask[r], Stored)
    BY <1>2 DEF Written, Registering, Registered, Refused, Clash, Stored
  <2>3. RowsOf(r)' = RowsOf(r) BY <1>2 DEF RowsOf
  <2>4. Committed(r)'
    BY <1>2, <2>1, <2>2, <2>3
    DEF RequestInv, Committed, AfterCommit, Greeting, Rejection, Ended
  <2> QED BY <1>2, <2>1, <2>2, <2>4 DEF RequestInv, Ended
<1>6. ASSUME NEW s \in Scripts PROVE ScriptInv(s)'
  <2>1. /\ ScriptInv(s) /\ pc'[s] = pc[s] /\ pending'[s] = pending[s] /\ next' = next
        /\ RowsOf(s)' = RowsOf(s) /\ Seen(s)' = Seen(s)
    BY <1>2 DEF RegistrationsInv, RowsOf, Seen
  <2>2. \A i \in DOMAIN Entries :
          Clash(Entries[i], "first", Seen(s)) => Clash(Entries[i], "first", Seen(s))'
    BY <2>1 DEF Clash
  <2> QED BY <2>1, <2>2 DEF ScriptInv
<1> QED BY <1>3, <1>4, <1>5, <1>6 DEF RegistrationsInv

-----------------------------------------------------------------------------
(***************************************************************************)
(* The theorems.                                                           *)
(***************************************************************************)
LEMMA RegistrationsStep ==
  RegistrationsInv /\ [RegistrationsNext]_vars => RegistrationsInv'
<1> SUFFICES ASSUME RegistrationsInv, [RegistrationsNext]_vars PROVE RegistrationsInv'
  OBVIOUS
<1>1. CASE UNCHANGED vars
  <2>1. WriteLock' /\ FlushedFits' BY <1>1, QuietStep DEF vars
  <2>2. RegistrationsTypeOK' BY <1>1 DEF vars, RegistrationsInv, RegistrationsTypeOK
  <2>3. \A r \in Requests : RequestInv(r)'
    BY <1>1
    DEF vars, RegistrationsInv, RequestInv, Registering, Written, Registered, Refused,
        Clash, Stored, RowsOf, Committed, Greeting, Rejection
  <2>4. \A s \in Scripts : ScriptInv(s)'
    BY <1>1 DEF vars, RegistrationsInv, ScriptInv, Seen, RowsOf
  <2> QED BY <2>1, <2>2, <2>3, <2>4 DEF RegistrationsInv
<1>2. ASSUME NEW r \in Requests, Begin(r) \/ TurnAway(r) \/ RequestStep(r) \/ DbError(r)
      PROVE  RegistrationsInv'
  BY <1>2, ReadingSteps, InsertStep, CommitRequestStep, RespondStep, DbErrorStep
  DEF RequestStep, BusyTimeout
<1> QED
  BY <1>1, <1>2, ScriptStepInv, CrashStep DEF RegistrationsNext, Done

LEMMA AlwaysRegistrationsInv == RegistrationsSpec => []RegistrationsInv
  BY RegistrationsInitInv, RegistrationsStep, PTL DEF RegistrationsSpec

(* The registries are well typed, for any calls, scripts and rows.         *)
THEOREM RegistrationsTypeCorrect == RegistrationsSpec => []RegistrationsTypeOK
<1>1. RegistrationsInv => RegistrationsTypeOK BY DEF RegistrationsInv
<1> QED BY <1>1, AlwaysRegistrationsInv, PTL

(* No two rows share a value of a unique column.                           *)
THEOREM ColumnsStayUnique == RegistrationsSpec => []UniqueColumns
<1>1. RegistrationsInv => UniqueColumns
  BY DEF RegistrationsInv, FlushedFits, UniqueColumns
<1> QED BY <1>1, AlwaysRegistrationsInv, PTL

(* The rows a request has in the tables, by what has been committed of it. *)
LEMMA RowsTell ==
  ASSUME RegistrationsInv, NEW r \in Requests
  PROVE  \/ /\ pc[r] \in {"created", "CREATED", "LOST"}
            /\ \A x \in Stored : x.by = r <=> x = Row(ask[r], r)
            /\ Row(ask[r], r) \in Stored
            /\ \A a : AuditRow(a, r) \in rows
                        <=> a = "USER_REGISTERED" /\ ask[r].table = "users"
         \/ /\ pc[r] \in {"greeted", "TOKEN", "LOST"}
            /\ \A x \in Stored : x.by # r
            /\ \A a : AuditRow(a, r) \in rows <=> a = "LOGIN_SUCCESS"
         \/ /\ pc[r] \in {"rejected", "UNAUTHORIZED", "LOST"}
            /\ \A x \in Stored : x.by # r
            /\ \A a : AuditRow(a, r) \in rows <=> a = "LOGIN_FAILED"
         \/ /\ pc[r] \notin AfterCommit
            /\ \A x \in Stored : x.by # r
            /\ \A a : AuditRow(a, r) \notin rows
<1>1. Committed(r) BY DEF RegistrationsInv, RequestInv
<1>2. \A x : x \in rows /\ x.by = r <=> x \in RowsOf(r) BY DEF RowsOf
<1>3. \A a : AuditRow(a, r) \in rows <=> AuditRow(a, r) \in RowsOf(r)
  BY <1>2, RowFields
<1>4. \A x : x \in Stored /\ x.by = r <=> x \in Registry(RowsOf(r))
  BY <1>2 DEF Stored, Registry
<1>5. \A a, b : AuditRow(a, r) = AuditRow(b, r) <=> a = b BY RowFields
<1>6. CASE /\ pc[r] \in {"created", "CREATED", "LOST"}
           /\ Registering(r) /\ RowsOf(r) = Written(r)
  <2>1. Registry(RowsOf(r)) = {Row(ask[r], r)} /\ ask[r].table \in Tables
    BY <1>6, RegisteringType
  <2>2. \A a : AuditRow(a, r) # Row(ask[r], r) BY <2>1, RowFields
  <2>3. \A a : AuditRow(a, r) \in RowsOf(r)
                <=> a = "USER_REGISTERED" /\ ask[r].table = "users"
    BY <1>5, <1>6, <2>2 DEF Written
  <2>4. \A x \in Stored : x.by = r <=> x = Row(ask[r], r) BY <1>4, <2>1
  <2>5. Row(ask[r], r) \in Stored BY <1>4, <2>1
  <2> QED BY <1>3, <1>6, <2>3, <2>4, <2>5
<1>7. ASSUME NEW a, RowsOf(r) = {AuditRow(a, r)}
      PROVE  /\ \A x \in Stored : x.by # r
             /\ \A b : AuditRow(b, r) \in rows <=> b = a
  <2>1. Registry(RowsOf(r)) = {} BY <1>7, RowFields DEF Registry
  <2> QED BY <1>3, <1>4, <1>5, <1>7, <2>1
<1>8. CASE pc[r] \in {"greeted", "TOKEN", "LOST"} /\ RowsOf(r) = Greeting(r)
  BY <1>7, <1>8 DEF Greeting
<1>9. CASE pc[r] \in {"rejected", "UNAUTHORIZED", "LOST"} /\ RowsOf(r) = Rejection(r)
  BY <1>7, <1>9 DEF Rejection
<1>10. CASE pc[r] \notin AfterCommit /\ RowsOf(r) = {}
  BY <1>3, <1>4, <1>10 DEF Registry
<1> QED BY <1>1, <1>6, <1>8, <1>9, <1>10 DEF Committed

(* 201, 409 and a token say what is so, and goes on to be; a row without   *)
(* its answer is one whose answer is under way or was lost.                *)
THEOREM AnswersAreSo == RegistrationsSpec => []AnswersTell
<1>1. RegistrationsInv => AnswersTell
  <2> SUFFICES ASSUME RegistrationsInv, NEW r \in Requests
               PROVE  LET left == \E x \in Stored : x.by = r IN
                      /\ pc[r] = "CREATED" => left
                      /\ left => pc[r] \in {"created", "CREATED", "LOST"}
                      /\ pc[r] = "DUPLICATE" => Refused(ask[r], Stored)
                      /\ pc[r] = "TOKEN" => Registered(ask[r])
    BY DEF AnswersTell
  <2>1. (\E x \in Stored : x.by = r) => pc[r] \in {"created", "CREATED", "LOST"}
    BY RowsTell
  <2>2. pc[r] = "CREATED" => \E x \in Stored : x.by = r
    BY RowsTell DEF AfterCommit
  <2> QED BY <2>1, <2>2 DEF RegistrationsInv, RequestInv
<1> QED BY <1>1, AlwaysRegistrationsInv, PTL

(* The audit trail tells of each user who registered and of each login     *)
(* that was answered.                                                      *)
THEOREM AuditTrailTells == RegistrationsSpec => []AuditTellsAccess
<1>1. RegistrationsInv => AuditTellsAccess
  <2> SUFFICES ASSUME RegistrationsInv, NEW r \in Requests
               PROVE  /\ AuditRow("USER_REGISTERED", r) \in rows
                           <=> \E u \in Stored : u.table = "users" /\ u.by = r
                      /\ pc[r] = "TOKEN" => AuditRow("LOGIN_SUCCESS", r) \in rows
                      /\ AuditRow("LOGIN_SUCCESS", r) \in rows
                           => pc[r] \in {"greeted", "TOKEN", "LOST"}
                      /\ pc[r] = "UNAUTHORIZED" => AuditRow("LOGIN_FAILED", r) \in rows
                      /\ AuditRow("LOGIN_FAILED", r) \in rows
                           => pc[r] \in {"rejected", "UNAUTHORIZED", "LOST"}
    BY DEF AuditTellsAccess
  <2>1. AuditRow("USER_REGISTERED", r) \in rows
          <=> \E u \in Stored : u.table = "users" /\ u.by = r
    BY RowsTell, RowFields
  <2>2. /\ pc[r] = "TOKEN" => AuditRow("LOGIN_SUCCESS", r) \in rows
        /\ AuditRow("LOGIN_SUCCESS", r) \in rows => pc[r] \in {"greeted", "TOKEN", "LOST"}
    BY RowsTell DEF AfterCommit
  <2>3. /\ pc[r] = "UNAUTHORIZED" => AuditRow("LOGIN_FAILED", r) \in rows
        /\ AuditRow("LOGIN_FAILED", r) \in rows
             => pc[r] \in {"rejected", "UNAUTHORIZED", "LOST"}
    BY RowsTell DEF AfterCommit
  <2> QED BY <2>1, <2>2, <2>3
<1> QED BY <1>1, AlwaysRegistrationsInv, PTL

(* A script leaves all its banks and PSPs or nothing.                      *)
THEOREM ScriptsSeedWhole == RegistrationsSpec => []SeededWhole
<1>1. RegistrationsInv => SeededWhole
  <2> SUFFICES ASSUME RegistrationsInv, NEW s \in Scripts,
                      pc[s] = "SEEDED" \/ (\E x \in rows : x.by = s),
                      NEW i \in DOMAIN Entries
               PROVE  Clash(Entries[i], "first", rows)
    BY DEF SeededWhole
  <2>1. ScriptInv(s) /\ next[s] \in 1 .. Len(Entries) + 1
    BY DEF RegistrationsInv, RegistrationsTypeOK
  <2>2. pc[s] = "SEEDED" BY <2>1 DEF ScriptInv, RowsOf
  <2>3. pending[s] = {} /\ next[s] > Len(Entries) BY <2>1, <2>2 DEF ScriptInv, Ended
  <2>4. i < next[s] BY <2>1, <2>3, RegistrationsAssumption
  <2> QED BY <2>1, <2>2, <2>3, <2>4 DEF ScriptInv, Seen
<1> QED BY <1>1, AlwaysRegistrationsInv, PTL
=============================================================================
