---------------------------- MODULE Registrations ----------------------------
(***************************************************************************)
(* The registries: users, accounts, banks and PSPs are each created by a   *)
(* check followed by an INSERT into a table with two unique columns, and   *)
(* scripts/seed_reference_data.py does the same for a list of banks and    *)
(* PSPs in one transaction.  A registration and a login leave a row in     *)
(* audit_logs, in the transaction of what they tell of.                    *)
(*                                                                         *)
(* A SELECT outside a transaction sees what is committed.  The first       *)
(* INSERT of a session takes SQLite's write lock, for which others wait    *)
(* until they give up; until the commit nobody else sees what it wrote.    *)
(* So all that a request writes before its commit is one step.             *)
(***************************************************************************)
EXTENDS Sequences, Integers

CONSTANTS
  Requests,   \* coroutines of the server
  Scripts,    \* runs of seed_reference_data
  Calls,      \* what requests ask for
  Entries,    \* BANKS, then PSPS: a sequence of rows to be
  Numbers,    \* the account numbers that may be drawn
  Existing,   \* the rows that are there already
  NoNumber

Sessions == Requests \cup Scripts

Tables == {"users", "accounts", "banks", "psps"}

(* The two unique columns of a row: email and phone; user and bank, and    *)
(* account number; code and name.                                          *)
Clash(x, column, S) ==
  \E y \in S : y.table = x.table /\ y[column] = x[column]

Distinct(S) ==
  \A x, y \in S :
    x.table = y.table /\ (x.first = y.first \/ x.second = y.second) => x = y

ASSUME RegistrationsAssumption ==
  /\ Requests \cap Scripts = {}
  /\ \A c \in Calls : /\ c.table \in Tables \cup {"login"}
                      /\ c = [table |-> c.table, first |-> c.first,
                              second |-> c.second, secret |-> c.secret]
  /\ Len(Entries) \in Nat /\ DOMAIN Entries = 1 .. Len(Entries)
  /\ \A i \in DOMAIN Entries : Entries[i].table \in {"banks", "psps"}
  /\ \A x \in Existing : x.table \in Tables /\ x.by \notin Sessions
  /\ Distinct(Existing)
  /\ NoNumber \notin Numbers

VARIABLES
  rows,      \* what is committed, of all tables
  pending,   \* session -> what it has flushed
  ask,       \* request -> what it asks for, once it has come
  next,      \* script -> the entry it has come to
  pc         \* session -> where it stands, at last how it ended

vars == <<rows, pending, ask, next, pc>>

NoCall == [table |-> "none"]

Row(c, s) == [table |-> c.table, first |-> c.first, second |-> c.second,
              secret |-> c.secret, by |-> s]

AuditRow(action, s) == [table |-> "audit_logs", action |-> action, by |-> s]

Actions == {"USER_REGISTERED", "LOGIN_FAILED", "LOGIN_SUCCESS"}

Drawn(c) ==
  IF c.table = "accounts" THEN {[c EXCEPT !.second = n] : n \in Numbers} ELSE {c}

ToInsert == UNION {Drawn(c) : c \in {x \in Calls : x.table \in Tables}}

RowsToBe ==
  Existing
    \cup (UNION {{Row(d, r) : d \in ToInsert} : r \in Requests})
    \cup (UNION {{Row(Entries[i], s) : i \in DOMAIN Entries} : s \in Scripts})
    \cup (UNION {{AuditRow(a, r) : a \in Actions} : r \in Requests})

Places == {"idle", "checkFirst", "checkSecond", "reading", "greeting", "rejecting",
           "insert", "commit", "created", "greeted", "rejected"}
Ended == {"CREATED", "TOKEN", "UNAUTHORIZED", "REFUSED", "NOT_FOUND", "DUPLICATE",
          "INTERNAL_ERROR", "LOST", "SEEDED", "FAILED"}

RegistrationsTypeOK ==
  /\ rows \subseteq RowsToBe
  /\ pending \in [Sessions -> SUBSET RowsToBe]
  /\ ask \in [Requests -> {NoCall} \cup Calls \cup ToInsert]
  /\ next \in [Scripts -> 1 .. Len(Entries) + 1]
  /\ pc \in [Sessions -> Places \cup Ended]

RegistrationsInit ==
  /\ rows = Existing
  /\ pending = [s \in Sessions |-> {}]
  /\ ask = [r \in Requests |-> NoCall]
  /\ next = [s \in Scripts |-> 1]
  /\ pc = [s \in Sessions |-> "idle"]

Go(s, from, to) == pc[s] = from /\ pc' = [pc EXCEPT ![s] = to]

(* Nobody else has the write lock.                                         *)
MayWrite(s) == \A x \in Sessions \ {s} : pending[x] = {}

Flush(s, S) == pending' = [pending EXCEPT ![s] = @ \cup S]

-----------------------------------------------------------------------------
(***************************************************************************)
(* A request.                                                              *)
(***************************************************************************)
Begin(r) ==
  \E c \in Calls :
    /\ Go(r, "idle", IF c.table = "login" THEN "reading" ELSE "checkFirst")
    /\ ask' = [ask EXCEPT ![r] = c]
    /\ UNCHANGED <<rows, pending, next>>

(* A body that is not valid, or a token that is not.                       *)
TurnAway(r) == Go(r, "idle", "REFUSED") /\ UNCHANGED <<rows, pending, ask, next>>

(* open_account alone asks for another row first; no bank is ever deleted. *)
BankKnown(c) ==
  c.table = "accounts" => \E b \in rows : b.table = "banks" /\ b.first = c.first[2]

(* mutant: the account's number is not drawn                               *)
CheckFirstDrawingNone(r) ==
  /\ Go(r, "checkFirst",
        IF ~BankKnown(ask[r]) THEN "NOT_FOUND"
        ELSE IF Clash(ask[r], "first", rows) THEN "DUPLICATE"
        ELSE IF ask[r].table = "users" THEN "checkSecond" ELSE "insert")
  /\ UNCHANGED <<rows, pending, ask, next>>

CheckFirst(r) ==
  /\ Go(r, "checkFirst",
        IF ~BankKnown(ask[r]) THEN "NOT_FOUND"
        ELSE IF Clash(ask[r], "first", rows) THEN "DUPLICATE"
        ELSE IF ask[r].table \in {"users", "accounts"} THEN "checkSecond" ELSE "insert")
  /\ UNCHANGED <<rows, pending, ask, next>>

(* The phone of a user.  The name of a bank or a PSP is not checked.       *)
CheckPhone(r) ==
  /\ ask[r].table = "users"
  /\ Go(r, "checkSecond",
        IF Clash(ask[r], "second", rows) THEN "DUPLICATE" ELSE "insert")
  /\ UNCHANGED <<rows, pending, ask, next>>

(* Numbers are drawn until one is free.                                    *)
DrawNumber(r) ==
  /\ ask[r].table = "accounts"
  /\ Go(r, "checkSecond", "insert")
  /\ \E c \in Drawn(ask[r]) :
       ~Clash(c, "second", rows) /\ ask' = [ask EXCEPT ![r] = c]
  /\ UNCHANGED <<rows, pending, next>>

Written(r) ==
  {Row(ask[r], r)}
    \cup (IF ask[r].table = "users" THEN {AuditRow("USER_REGISTERED", r)} ELSE {})

Refused(x, S) == Clash(x, "first", S) \/ Clash(x, "second", S)

(* mutant: no unique index, the checks are trusted                         *)
InsertUnindexed(r) ==
  /\ Go(r, "insert", "commit")
  /\ MayWrite(r)
  /\ Flush(r, Written(r))
  /\ UNCHANGED <<rows, ask, next>>

(* mutant: the audit row is committed in a session of its own              *)
InsertAuditedApart(r) ==
  /\ Go(r, "insert", "commit")
  /\ MayWrite(r)
  /\ ~Refused(ask[r], rows)
  /\ rows' = rows \cup (Written(r) \ {Row(ask[r], r)})
  /\ Flush(r, {Row(ask[r], r)})
  /\ UNCHANGED <<ask, next>>

Insert(r) ==
  /\ Go(r, "insert", "commit")
  /\ MayWrite(r)
  /\ ~Refused(ask[r], rows)
  /\ Flush(r, Written(r))
  /\ UNCHANGED <<rows, ask, next>>

(* A unique index is violated: an IntegrityError that nobody catches.      *)
InsertRefused(r) ==
  /\ Go(r, "insert", "INTERNAL_ERROR")
  /\ MayWrite(r)
  /\ Refused(ask[r], rows)
  /\ UNCHANGED <<rows, pending, ask, next>>

(* login: get_by_email and verify_password.                                *)
Registered(c) ==
  \E u \in rows : u.table = "users" /\ u.first = c.first /\ u.secret = c.secret

ReadUser(r) ==
  /\ Go(r, "reading", IF Registered(ask[r]) THEN "greeting" ELSE "rejecting")
  /\ UNCHANGED <<rows, pending, ask, next>>

LogAttempt(r) ==
  /\ \/ Go(r, "greeting", "commit") /\ Flush(r, {AuditRow("LOGIN_SUCCESS", r)})
     \/ Go(r, "rejecting", "commit") /\ Flush(r, {AuditRow("LOGIN_FAILED", r)})
  /\ MayWrite(r)
  /\ UNCHANGED <<rows, ask, next>>

Outcome(r) ==
  CASE AuditRow("LOGIN_SUCCESS", r) \in pending[r] -> "greeted"
    [] AuditRow("LOGIN_FAILED", r) \in pending[r] -> "rejected"
    [] OTHER -> "created"

(* mutant: nothing is committed, the session closes                        *)
CommitForgotten(r) ==
  /\ Go(r, "commit", Outcome(r))
  /\ pending' = [pending EXCEPT ![r] = {}]
  /\ UNCHANGED <<rows, ask, next>>

Commit(r) ==
  /\ Go(r, "commit", Outcome(r))
  /\ rows' = rows \cup pending[r]
  /\ pending' = [pending EXCEPT ![r] = {}]
  /\ UNCHANGED <<ask, next>>

(* What is left after the commit is the answer; no statement runs any more.*)
Answer == [created |-> "CREATED", greeted |-> "TOKEN", rejected |-> "UNAUTHORIZED"]

Respond(r) ==
  /\ pc[r] \in DOMAIN Answer
  /\ pc' = [pc EXCEPT ![r] = Answer[@]]
  /\ UNCHANGED <<rows, pending, ask, next>>

-----------------------------------------------------------------------------
(***************************************************************************)
(* The script: skips an entry whose code is there, and commits at the end. *)
(***************************************************************************)
Seen(s) == rows \cup pending[s]

(* s has come to its i-th entry.                                           *)
At(s, i) == next[s] = i /\ i <= Len(Entries) /\ UNCHANGED ask

SeedSkip(s, i) ==
  /\ At(s, i) /\ Clash(Entries[i], "first", Seen(s))
  /\ Go(s, "idle", "idle")
  /\ next' = [next EXCEPT ![s] = i + 1]
  /\ UNCHANGED <<rows, pending>>

SeedCheck(s, i) ==
  /\ At(s, i) /\ ~Clash(Entries[i], "first", Seen(s))
  /\ Go(s, "idle", "insert")
  /\ UNCHANGED <<rows, pending, next>>

(* mutant: one commit per entry                                            *)
SeedInsertCommitting(s, i) ==
  /\ At(s, i) /\ ~Refused(Entries[i], Seen(s))
  /\ Go(s, "insert", "idle")
  /\ MayWrite(s)
  /\ rows' = rows \cup {Row(Entries[i], s)}
  /\ next' = [next EXCEPT ![s] = i + 1]
  /\ UNCHANGED pending

SeedInsert(s, i) ==
  /\ At(s, i) /\ ~Refused(Entries[i], Seen(s))
  /\ Go(s, "insert", "idle")
  /\ MayWrite(s)
  /\ Flush(s, {Row(Entries[i], s)})
  /\ next' = [next EXCEPT ![s] = i + 1]
  /\ UNCHANGED rows

SeedCommit(s) ==
  /\ next[s] > Len(Entries)
  /\ Go(s, "idle", "SEEDED")
  /\ rows' = Seen(s)
  /\ pending' = [pending EXCEPT ![s] = {}]
  /\ UNCHANGED <<ask, next>>

(* An IntegrityError, for a code or a name, or any other error.            *)
SeedFails(s) ==
  /\ pc[s] \notin Ended
  /\ pc' = [pc EXCEPT ![s] = "FAILED"]
  /\ pending' = [pending EXCEPT ![s] = {}]
  /\ UNCHANGED <<rows, ask, next>>

-----------------------------------------------------------------------------
(* A statement or the commit fails: the session is closed, a 500.          *)
DbError(r) ==
  /\ pc[r] \notin {"idle"} \cup DOMAIN Answer \cup Ended
  /\ pc' = [pc EXCEPT ![r] = "INTERNAL_ERROR"]
  /\ pending' = [pending EXCEPT ![r] = {}]
  /\ UNCHANGED <<rows, ask, next>>

WantsToWrite(r) == pc[r] \in {"insert", "greeting", "rejecting"}

(* mutant: who cannot write starts over                                    *)
BusyTimeoutRetrying(r) ==
  /\ WantsToWrite(r) /\ ~MayWrite(r)
  /\ pc' = [pc EXCEPT ![r] = IF @ = "insert" THEN "checkFirst" ELSE "reading"]
  /\ UNCHANGED <<rows, pending, ask, next>>

(* sqlite3 waits 5 seconds for the write lock.                             *)
BusyTimeout(r) == WantsToWrite(r) /\ ~MayWrite(r) /\ DbError(r)

Crash ==
  /\ pc' = [s \in Sessions |-> IF s \in Scripts \/ pc[s] \in {"idle"} \cup Ended
                               THEN pc[s] ELSE "LOST"]
  /\ pending' = [s \in Sessions |-> IF s \in Scripts THEN pending[s] ELSE {}]
  /\ UNCHANGED <<rows, ask, next>>

RequestStep(r) ==
  \/ CheckFirst(r) \/ CheckPhone(r) \/ DrawNumber(r) \/ Insert(r) \/ InsertRefused(r)
  \/ ReadUser(r) \/ LogAttempt(r) \/ Commit(r) \/ Respond(r)
  \/ BusyTimeout(r)

ScriptStep(s) ==
  \/ \E i \in DOMAIN Entries : SeedSkip(s, i) \/ SeedCheck(s, i) \/ SeedInsert(s, i)
  \/ SeedCommit(s) \/ SeedFails(s)

Done == (\A s \in Sessions : pc[s] \in Ended) /\ UNCHANGED vars

RegistrationsNext ==
  \/ \E r \in Requests : Begin(r) \/ TurnAway(r) \/ RequestStep(r) \/ DbError(r)
  \/ \E s \in Scripts : ScriptStep(s)
  \/ Crash
  \/ Done

RegistrationsSpec == RegistrationsInit /\ [][RegistrationsNext]_vars

(* The event loop runs a request on; nothing is assumed of a script.       *)
RegistrationsFairSpec ==
  RegistrationsSpec /\ \A r \in Requests : WF_vars(RequestStep(r))

-----------------------------------------------------------------------------
(***************************************************************************)
(* Properties.                                                             *)
(***************************************************************************)
Stored == {x \in rows : x.table \in Tables}

(* However checks and INSERTs interleave, no two rows of a registry share  *)
(* an email, a phone, a user's account at a bank, a number, a code or a    *)
(* name: the checks alone would not do.                                    *)
UniqueColumns == Distinct(Stored)

(* What a client is told is so and stays so: 201 means its row is there    *)
(* for good, 409 that somebody else's has the value, a token that a user   *)
(* has the email and the password.  A request has left a row only if it    *)
(* was told 201 or told nothing, its answer under way or lost in a crash:  *)
(* after an error answer nothing is there.                                 *)
AnswersTell ==
  \A r \in Requests :
    LET left == \E x \in Stored : x.by = r IN
    /\ pc[r] = "CREATED" => left
    /\ left => pc[r] \in {"created", "CREATED", "LOST"}
    /\ pc[r] = "DUPLICATE" => Refused(ask[r], Stored)
    /\ pc[r] = "TOKEN" => Registered(ask[r])

(* The audit trail has a USER_REGISTERED for each user who registered and  *)
(* for nobody else, and a row of its kind for each login that was          *)
(* answered, whatever failed or died on the way; a login whose answer is   *)
(* lost in a crash may have left its row too, any other has none.          *)
AuditTellsAccess ==
  \A r \in Requests :
    /\ AuditRow("USER_REGISTERED", r) \in rows
         <=> \E u \in Stored : u.table = "users" /\ u.by = r
    /\ pc[r] = "TOKEN" => AuditRow("LOGIN_SUCCESS", r) \in rows
    /\ AuditRow("LOGIN_SUCCESS", r) \in rows => pc[r] \in {"greeted", "TOKEN", "LOST"}
    /\ pc[r] = "UNAUTHORIZED" => AuditRow("LOGIN_FAILED", r) \in rows
    /\ AuditRow("LOGIN_FAILED", r) \in rows => pc[r] \in {"rejected", "UNAUTHORIZED", "LOST"}

(* A run of the seed script leaves everything or nothing: once it ended    *)
(* well, or anything it added can be seen, every bank and PSP of its lists *)
(* is there, whoever registers banks meanwhile.                            *)
SeededWhole ==
  \A s \in Scripts :
    pc[s] = "SEEDED" \/ (\E x \in rows : x.by = s)
      => \A i \in DOMAIN Entries : Clash(Entries[i], "first", rows)

(* Every request that has begun ends, even while a script stops holding    *)
(* the write lock.                                                         *)
RegistrationsEnd == \A r \in Requests : pc[r] # "idle" ~> pc[r] \in Ended
=============================================================================
