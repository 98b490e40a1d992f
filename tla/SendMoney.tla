------------------------------ MODULE SendMoney ------------------------------
(***************************************************************************)
(* The payment form of the web client (SendMoneyPage.tsx), open in several *)
(* tabs, as a client of Idempotency: what it does with its key when it is  *)
(* edited, submitted, answered, left without an answer or reloaded.        *)
(*                                                                         *)
(* A form allows one request at a time (the button is disabled), but its   *)
(* fields can be edited meanwhile, and a request whose answer was lost may *)
(* still be served.  A draft is what the user means by one payment: it     *)
(* ends when he edits the form, when a success clears it, or on a reload.  *)
(***************************************************************************)
EXTENDS Idempotency, Integers, FiniteSets

CONSTANTS
  Forms,      \* the open tabs
  Contents,   \* what may be filled in: sender, receiver and amount
  Nobody

ASSUME SendMoneyAssumption ==
  /\ Contents \subseteq Nat \ {0}
  /\ Keys \subseteq Nat
  /\ NoBody = 0
  /\ Nobody \notin Requests
  /\ Errors \cap {"none", "success", "conflict"} = {}
  /\ IsFiniteSet(Forms) /\ 1 .. Cardinality(Forms) \subseteq Keys   \* one each to begin with

VARIABLES
  content,   \* form -> its fields, NoBody while something is missing
  key,       \* form -> idempotencyKey
  flight,    \* form -> the request it waits for
  draft,     \* form -> the number of its present draft
  draftOf,   \* request -> the form and the draft it was made for
  issued     \* how many keys crypto.randomUUID() has given out

formVars == <<content, key, flight, draft, draftOf, issued>>
vars == <<idemVars, formVars>>

NoCall == [key |-> 0, body |-> NoBody]
NoDraft == <<Nobody, 0>>

Codes == Errors \cup {"none", "conflict", "typeError", "integrityError",
                      "databaseError", "turnedAway"}
Answers == {Answer(c) : c \in Codes} \cup {Success(r) : r \in Requests}

SendMoneyTypeOK ==
  /\ call \in [Requests -> {NoCall} \cup [key : Keys, body : Contents]]
  /\ keyRow \in [Keys -> {NoKey} \cup [state : {"IN_PROGRESS", "COMPLETED"},
                                       body : Contents, snapshot : Answers]]
  /\ \A k \in Keys : keyRow[k].state = "COMPLETED" <=> keyRow[k].snapshot # NoAnswer
  /\ serving \cup done \subseteq {r \in Requests : call[r] # NoCall}
  /\ answer \in [Requests -> Answers]
  /\ content \in [Forms -> Contents \cup {NoBody}]
  /\ key \in [Forms -> Keys]
  /\ flight \in [Forms -> Requests \cup {Nobody}]
  /\ draft \in [Forms -> Nat]
  /\ draftOf \in [Requests -> (Forms \X Nat) \cup {NoDraft}]
  /\ issued \in Nat

SendMoneyInit ==
  /\ IdempotencyInit
  /\ call = [r \in Requests |-> NoCall]
  /\ content = [f \in Forms |-> NoBody]
  /\ issued = Cardinality(Forms)
  /\ key \in [Forms -> 1 .. issued]
  /\ \A f, g \in Forms : key[f] = key[g] => f = g
  /\ flight = [f \in Forms |-> Nobody]
  /\ draft = [f \in Forms |-> 0]
  /\ draftOf = [r \in Requests |-> NoDraft]

-----------------------------------------------------------------------------
(* mutant: a key computed from what is to be paid                          *)
NewKeyOfContent(c) == IF c = NoBody THEN issued + 1 ELSE c

NewKey(c) == issued + 1

(* The form gets another content and, in the same render, another key.     *)
(* (The addresses that arrive after the page has loaded fill in the sender *)
(* and keep the key; until then nothing can be submitted under it.)        *)
Refill(f, c) ==
  /\ NewKey(c) \in Keys
  /\ content' = [content EXCEPT ![f] = c]
  /\ key' = [key EXCEPT ![f] = NewKey(c)]
  /\ issued' = issued + 1
  /\ draft' = [draft EXCEPT ![f] = @ + 1]

(* mutant: the key is made once, when the page is opened                   *)
EditKeepingKey(f) ==
  /\ \E c \in Contents \ {content[f]} : content' = [content EXCEPT ![f] = c]
  /\ draft' = [draft EXCEPT ![f] = @ + 1]
  /\ UNCHANGED <<idemVars, key, issued, flight, draftOf>>

(* updateAndRekey; nothing disables the fields while a request is on its   *)
(* way.                                                                    *)
Edit(f) ==
  /\ \E c \in Contents \ {content[f]} : Refill(f, c)
  /\ UNCHANGED <<idemVars, flight, draftOf>>

Submit(f, r) ==
  /\ flight[f] = Nobody /\ content[f] # NoBody
  /\ call[r] = NoCall
  /\ call' = [call EXCEPT ![r] = [key |-> key[f], body |-> content[f]]]
  /\ flight' = [flight EXCEPT ![f] = r]
  /\ draftOf' = [draftOf EXCEPT ![r] = <<f, draft[f]>>]
  /\ UNCHANGED <<keyRow, serving, done, answer, content, key, draft, issued>>

Answered(f) == flight[f] # Nobody /\ answer[flight[f]] # NoAnswer

Land(f) == flight' = [flight EXCEPT ![f] = Nobody] /\ UNCHANGED <<idemVars, draftOf>>

(* Whatever the user has filled in meanwhile is cleared.                   *)
ReceiveSuccess(f) ==
  /\ Answered(f) /\ answer[flight[f]].code = "success"
  /\ Land(f)
  /\ Refill(f, NoBody)

(* mutant: a new key after an error                                        *)
ReceiveErrorRekeying(f) ==
  /\ Answered(f) /\ answer[flight[f]].code # "success"
  /\ Land(f)
  /\ NewKey(NoBody) \in Keys
  /\ key' = [key EXCEPT ![f] = NewKey(NoBody)]
  /\ issued' = issued + 1
  /\ UNCHANGED <<content, draft>>

(* The error is shown; content and key stay.                               *)
ReceiveError(f) ==
  /\ Answered(f) /\ answer[flight[f]].code # "success"
  /\ Land(f)
  /\ UNCHANGED <<content, key, draft, issued>>

(* The connection breaks, before or after the server has the request.      *)
LoseAnswer(f) ==
  /\ flight[f] # Nobody
  /\ Land(f)
  /\ UNCHANGED <<content, key, draft, issued>>

(* The page is loaded anew, or a 401 leads to the login page.              *)
Reload(f) ==
  /\ content[f] # NoBody \/ flight[f] # Nobody
  /\ Land(f)
  /\ Refill(f, NoBody)

(* 401, 422 or 429, before the handler runs.                               *)
TurnAway(r) ==
  /\ Open(r)
  /\ Give(r, Answer("turnedAway"))
  /\ UNCHANGED <<call, keyRow, serving, done>>

FormStep(f) ==
  \/ Edit(f) \/ (\E r \in Requests : Submit(f, r))
  \/ ReceiveSuccess(f) \/ ReceiveError(f) \/ LoseAnswer(f) \/ Reload(f)

SendMoneyNext ==
  \/ \E f \in Forms : FormStep(f)
  \/ \E r \in Requests : /\ call[r] # NoCall
                         /\ Serve(r) \/ TurnAway(r)
                         /\ UNCHANGED formVars
  \/ ServerDies /\ UNCHANGED formVars

SendMoneySpec == SendMoneyInit /\ [][SendMoneyNext]_vars

-----------------------------------------------------------------------------
(***************************************************************************)
(* Properties.                                                             *)
(***************************************************************************)
(* However often a draft is submitted, with answers lost, errors shown,    *)
(* requests still under way and the server dying, it is paid at most once: *)
(* "that's what makes it safe to retry" (SendMoneyPage.tsx:13-15).         *)
DraftPaidOnce ==
  \A r, s \in done : draftOf[r] = draftOf[s] => r = s

(* No payment is swallowed: a success is for a payment that was made for   *)
(* this very draft, with its content, and not for an earlier one like it.  *)
SuccessIsOwn ==
  \A r \in Requests : answer[r].code = "success" =>
    /\ answer[r].payment \in done
    /\ draftOf[answer[r].payment] = draftOf[r]
    /\ Body(answer[r].payment) = Body(r)

(* "Any actual change to the payment gets a fresh" key (SendMoneyPage.tsx: *)
(* 14-15), also while a request is under way: the form never meets an      *)
(* IDEMPOTENCY_CONFLICT for another content.                               *)
NeverInConflict == \A r \in Requests : answer[r].code # "conflict"
=============================================================================
