----------------------------- MODULE Idempotency -----------------------------
(***************************************************************************)
(* What POST /payments promises about idempotency keys, without how money  *)
(* moves: the first request with a key is served, pays at most once and    *)
(* leaves its answer with the key, or breaks off and leaves the key        *)
(* IN_PROGRESS for good; a later one is answered from the key.             *)
(* Payments is shown to implement this module; SendMoney uses it.          *)
(***************************************************************************)
CONSTANTS
  Requests,
  Keys,
  NoBody,
  Errors     \* codes of the AppExceptions of _process_payment

VARIABLES
  call,      \* request -> [key, body]
  keyRow,    \* key -> its row
  serving,   \* the requests that process a payment
  done,      \* the requests whose payment was credited
  answer     \* request -> its answer

idemVars == <<call, keyRow, serving, done, answer>>

NoAnswer == [code |-> "none", payment |-> "none"]
Answer(code) == [code |-> code, payment |-> "none"]
Success(r) == [code |-> "success", payment |-> r]
NoKey == [state |-> "absent", body |-> NoBody, snapshot |-> NoAnswer]

Key(r) == call[r].key
Body(r) == call[r].body

IdempotencyInit ==
  /\ keyRow = [k \in Keys |-> NoKey]
  /\ serving = {}
  /\ done = {}
  /\ answer = [r \in Requests |-> NoAnswer]

Give(r, a) == answer' = [answer EXCEPT ![r] = a]

Open(r) == answer[r] = NoAnswer /\ r \notin serving

Claim(r) ==
  /\ Open(r)
  /\ keyRow[Key(r)] = NoKey
  /\ keyRow' = [keyRow EXCEPT ![Key(r)] =
       [state |-> "IN_PROGRESS", body |-> Body(r), snapshot |-> NoAnswer]]
  /\ serving' = serving \cup {r}
  /\ UNCHANGED <<call, done, answer>>

Pay(r) ==
  /\ r \in serving \ done
  /\ done' = done \cup {r}
  /\ UNCHANGED <<call, keyRow, serving, answer>>

(* mutant: the status without the snapshot                                 *)
SaveStatusOnly(r) ==
  /\ r \in serving
  /\ keyRow' = [keyRow EXCEPT ![Key(r)].state = "COMPLETED"]
  /\ serving' = serving \ {r}
  /\ UNCHANGED <<call, done, answer>>

Save(r) ==
  /\ r \in serving
  /\ \E a \in IF r \in done THEN {Success(r)} ELSE {Answer(e) : e \in Errors} :
       /\ Give(r, a)
       /\ keyRow' = [keyRow EXCEPT ![Key(r)].state = "COMPLETED",
                                   ![Key(r)].snapshot = a]
  /\ serving' = serving \ {r}
  /\ UNCHANGED <<call, done>>

(* A key that is there: another body's, answered, or IN_PROGRESS; or it    *)
(* came after the request had looked for it.                               *)
FromKey(row, body) ==
  IF row.body # body THEN Answer("conflict")
  ELSE IF row.state = "COMPLETED" THEN row.snapshot ELSE Answer("typeError")

Replay(r) ==
  /\ Open(r)
  /\ keyRow[Key(r)] # NoKey
  /\ \E a \in {FromKey(keyRow[Key(r)], Body(r)), Answer("integrityError")} : Give(r, a)
  /\ UNCHANGED <<call, keyRow, serving, done>>

(* An error that is no AppException.                                       *)
BreakOff(r) ==
  /\ answer[r] = NoAnswer
  /\ Give(r, Answer("databaseError"))
  /\ serving' = serving \ {r}
  /\ UNCHANGED <<call, keyRow, done>>

ServerDies == serving' = {} /\ UNCHANGED <<call, keyRow, done, answer>>

Serve(r) == Claim(r) \/ Pay(r) \/ Save(r) \/ Replay(r) \/ BreakOff(r)

IdempotencyNext == ServerDies \/ \E r \in Requests : Serve(r)

IdempotencySpec == IdempotencyInit /\ [][IdempotencyNext]_idemVars
=============================================================================
