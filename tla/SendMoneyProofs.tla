--------------------------- MODULE SendMoneyProofs ---------------------------
(***************************************************************************)
(* Proofs about SendMoney: a draft and a key are the same thing to every   *)
(* request that was made, and a key has one payment at most.               *)
(***************************************************************************)
EXTENDS SendMoney, FiniteSetTheorems, TLAPS

Called == {r \in Requests : call[r] # NoCall}

(* What a form's key stands for: its present draft, to the requests made   *)
(* already, and nobody else's.  A key is never given out twice.            *)
FormInv ==
  /\ \A f \in Forms : key[f] <= issued
  /\ \A f, g \in Forms : key[f] = key[g] => f = g
  /\ \A r \in Called :
       /\ Key(r) <= issued
       /\ \E f \in Forms : \E n \in 0 .. draft[f] : draftOf[r] = <<f, n>>
  /\ \A r \in Called, f \in Forms :
       /\ Key(r) = key[f] <=> draftOf[r] = <<f, draft[f]>>
       /\ Key(r) = key[f] => Body(r) = content[f]
  /\ \A r, s \in Called :
       /\ Key(r) = Key(s) <=> draftOf[r] = draftOf[s]
       /\ Key(r) = Key(s) => Body(r) = Body(s)

(* What the endpoint keeps: a row has the body of every request with its   *)
(* key, a key in progress has one request that processes it, at most one   *)
(* payment, and every success, given or cached, is that payment's.         *)
OwnSuccess(a, k) ==
  /\ a.code # "conflict"
  /\ a.code = "success" => a.payment \in done /\ Key(a.payment) = k

EndpointInv ==
  /\ \A k \in Keys : keyRow[k] # NoKey =>
       /\ \E r \in Called : Key(r) = k
       /\ OwnSuccess(keyRow[k].snapshot, k)
  /\ \A r \in Called : keyRow[Key(r)] # NoKey => keyRow[Key(r)].body = Body(r)
  /\ \A r \in serving : answer[r] = NoAnswer /\ keyRow[Key(r)].state = "IN_PROGRESS"
  /\ \A r \in done : keyRow[Key(r)] # NoKey
  /\ \A r, s \in serving \cup done : Key(r) = Key(s) => r = s
  /\ \A r \in Requests : answer[r] # NoAnswer => r \in Called /\ OwnSuccess(answer[r], Key(r))

SendMoneyInv == SendMoneyTypeOK /\ FormInv /\ EndpointInv

-----------------------------------------------------------------------------
LEMMA CalledType ==
  ASSUME SendMoneyTypeOK
  PROVE  /\ \A r \in Called : Key(r) \in Keys /\ Body(r) \in Contents /\ Key(r) \in Nat
         /\ serving \subseteq Called /\ done \subseteq Called
         /\ \A f \in Forms : key[f] \in Nat
  BY SendMoneyAssumption DEF SendMoneyTypeOK, Called, Key, Body

LEMMA CodesDiffer ==
  /\ NoAnswer = Answer("none") /\ NoAnswer \in Answers
  /\ NoAnswer.code = "none"
  /\ \A c : Answer(c).code = c
  /\ \A c \in Codes : Answer(c) \in Answers
  /\ \A r : Success(r).code = "success" /\ Success(r).payment = r
  /\ \A r \in Requests : Success(r) \in Answers
  /\ NoKey.state = "absent" /\ NoKey.snapshot = NoAnswer
  BY DEF NoAnswer, Answer, Success, NoKey, Answers, Codes

LEMMA SendMoneyInitInv == SendMoneyInit => SendMoneyInv
<1> SUFFICES ASSUME SendMoneyInit PROVE SendMoneyInv
  OBVIOUS
<1>1. issued \in Nat BY FS_CardinalityType, SendMoneyAssumption DEF SendMoneyInit
<1>2. SendMoneyTypeOK
  BY <1>1, SendMoneyAssumption, CodesDiffer
  DEF SendMoneyInit, IdempotencyInit, SendMoneyTypeOK
<1>3. Called = {} BY DEF Called, SendMoneyInit
<1>4. FormInv BY <1>1, <1>3 DEF SendMoneyInit, FormInv
<1>5. EndpointInv
  BY <1>3, CodesDiffer DEF SendMoneyInit, IdempotencyInit, EndpointInv
<1> QED BY <1>2, <1>4, <1>5 DEF SendMoneyInv

-----------------------------------------------------------------------------
(***************************************************************************)
(* The form's steps.                                                       *)
(***************************************************************************)
LEMMA FormsLeaveEndpoint ==
  ASSUME EndpointInv, UNCHANGED idemVars
  PROVE  EndpointInv'
  BY DEF EndpointInv, idemVars, Called, Key, Body, OwnSuccess

LEMMA RefillStep ==
  ASSUME SendMoneyInv, NEW f \in Forms, NEW c \in Contents \cup {NoBody}, Refill(f, c),
         UNCHANGED <<idemVars, draftOf>>, flight' \in [Forms -> Requests \cup {Nobody}]
  PROVE  SendMoneyInv'
<1>1. /\ issued \in Nat /\ issued' = issued + 1 /\ issued' \in Keys
      /\ content' = [content EXCEPT ![f] = c]
      /\ key' = [key EXCEPT ![f] = issued']
      /\ draft' = [draft EXCEPT ![f] = @ + 1]
  BY DEF SendMoneyInv, SendMoneyTypeOK, Refill, NewKey
<1>2. SendMoneyTypeOK'
  BY <1>1 DEF SendMoneyInv, SendMoneyTypeOK, idemVars
<1>3. EndpointInv' BY FormsLeaveEndpoint DEF SendMoneyInv
<1>4. /\ Called' = Called /\ draftOf' = draftOf
      /\ \A r : Key(r)' = Key(r) /\ Body(r)' = Body(r)
  BY DEF Called, Key, Body, idemVars
<1>5. /\ \A r \in Called : Key(r) \in Nat
      /\ \A g \in Forms : key[g] \in Nat /\ draft[g] \in Nat
      /\ key \in [Forms -> Keys] /\ draft \in [Forms -> Nat]
      /\ content \in [Forms -> Contents \cup {NoBody}]
  BY CalledType DEF SendMoneyInv, SendMoneyTypeOK
<1>6. /\ \A g \in Forms \ {f} : key'[g] = key[g] /\ draft'[g] = draft[g]
                                /\ content'[g] = content[g]
      /\ key'[f] = issued + 1 /\ draft'[f] = draft[f] + 1
  BY <1>1, <1>5
<1>7. FormInv BY DEF SendMoneyInv
<1>8. \A g \in Forms : key'[g] <= issued'
  BY <1>1, <1>5, <1>6, <1>7 DEF FormInv
<1>9. \A g, h \in Forms : key'[g] = key'[h] => g = h
  BY <1>1, <1>5, <1>6, <1>7 DEF FormInv
<1>10. \A r \in Called : Key(r) <= issued' /\ Key(r) # key'[f]
  BY <1>1, <1>5, <1>6, <1>7 DEF FormInv
<1>11. \A r \in Called : \E g \in Forms : \E n \in 0 .. draft'[g] : draftOf[r] = <<g, n>>
  <2> TAKE r \in Called
  <2>1. PICK g \in Forms : \E n \in 0 .. draft[g] : draftOf[r] = <<g, n>>
    BY <1>7 DEF FormInv
  <2>2. PICK n \in 0 .. draft[g] : draftOf[r] = <<g, n>> BY <2>1
  <2>3. n \in 0 .. draft'[g] BY <1>5, <1>6, <2>2
  <2> QED BY <2>2, <2>3
<1>12. \A r \in Called : draftOf[r] # <<f, draft'[f]>>
  BY <1>5, <1>6, <1>7 DEF FormInv
<1>13. \A r \in Called, g \in Forms :
         /\ Key(r) = key'[g] <=> draftOf[r] = <<g, draft'[g]>>
         /\ Key(r) = key'[g] => Body(r) = content'[g]
  BY <1>6, <1>7, <1>10, <1>12 DEF FormInv
<1>14. FormInv'
  <2>1. \A r, s \in Called :
          /\ Key(r) = Key(s) <=> draftOf[r] = draftOf[s]
          /\ Key(r) = Key(s) => Body(r) = Body(s)
    BY <1>7 DEF FormInv
  <2> QED BY <1>4, <1>8, <1>9, <1>10, <1>11, <1>13, <2>1 DEF FormInv
<1> QED BY <1>2, <1>3, <1>14 DEF SendMoneyInv

LEMMA SubmitStep ==
  ASSUME SendMoneyInv, NEW f \in Forms, NEW r \in Requests, Submit(f, r)
  PROVE  SendMoneyInv'
<1>1. /\ r \notin Called
      /\ call' = [call EXCEPT ![r] = [key |-> key[f], body |-> content[f]]]
      /\ draftOf' = [draftOf EXCEPT ![r] = <<f, draft[f]>>]
      /\ content[f] \in Contents /\ key[f] \in Keys /\ draft[f] \in Nat /\ key[f] \in Nat
      /\ UNCHANGED <<keyRow, serving, done, answer, content, key, draft, issued>>
  BY CalledType DEF SendMoneyInv, SendMoneyTypeOK, Submit, Called
<1>2. /\ call'[r] = [key |-> key[f], body |-> content[f]] /\ call'[r] # NoCall
      /\ draftOf'[r] = <<f, draft[f]>>
      /\ \A s \in Requests \ {r} : call'[s] = call[s] /\ draftOf'[s] = draftOf[s]
  BY <1>1, SendMoneyAssumption DEF SendMoneyInv, SendMoneyTypeOK, NoCall
<1>3. SendMoneyTypeOK'
  <2>1. call' \in [Requests -> {NoCall} \cup [key : Keys, body : Contents]]
    BY <1>1 DEF SendMoneyInv, SendMoneyTypeOK
  <2>2. serving' \cup done' \subseteq {s \in Requests : call'[s] # NoCall}
    BY <1>1, <1>2 DEF SendMoneyInv, SendMoneyTypeOK
  <2>3. draftOf' \in [Requests -> (Forms \X Nat) \cup {NoDraft}]
    BY <1>1 DEF SendMoneyInv, SendMoneyTypeOK
  <2>4. flight' \in [Forms -> Requests \cup {Nobody}]
    BY DEF SendMoneyInv, SendMoneyTypeOK, Submit
  <2> QED BY <1>1, <2>1, <2>2, <2>3, <2>4 DEF SendMoneyInv, SendMoneyTypeOK
<1>4. /\ Called' = Called \cup {r}
      /\ \A s \in Called : Key(s)' = Key(s) /\ Body(s)' = Body(s) /\ draftOf'[s] = draftOf[s]
      /\ Key(r)' = key[f] /\ Body(r)' = content[f]
  BY <1>1, <1>2 DEF Called, Key, Body
<1>5. FormInv BY DEF SendMoneyInv
<1>6. FormInv'
  <2>1. \A s \in Called' :
          /\ Key(s)' <= issued
          /\ \E g \in Forms : \E n \in 0 .. draft[g] : draftOf'[s] = <<g, n>>
    <3>1. \E g \in Forms : \E n \in 0 .. draft[g] : draftOf'[r] = <<g, n>>
      BY <1>1, <1>2
    <3>2. \A s \in Called :
            /\ Key(s)' <= issued
            /\ \E g \in Forms : \E n \in 0 .. draft[g] : draftOf'[s] = <<g, n>>
      BY <1>4, <1>5 DEF FormInv
    <3>3. Key(r)' <= issued BY <1>4, <1>5 DEF FormInv
    <3> QED BY <1>4, <3>1, <3>2, <3>3
  <2>2. \A s \in Called', g \in Forms :
          /\ Key(s)' = key[g] <=> draftOf'[s] = <<g, draft[g]>>
          /\ Key(s)' = key[g] => Body(s)' = content[g]
    BY <1>2, <1>4, <1>5 DEF FormInv
  <2>3. \A s, u \in Called' :
          /\ Key(s)' = Key(u)' <=> draftOf'[s] = draftOf'[u]
          /\ Key(s)' = Key(u)' => Body(s)' = Body(u)'
    BY <1>2, <1>4, <1>5 DEF FormInv
  <2> QED BY <1>1, <1>5, <2>1, <2>2, <2>3 DEF FormInv
<1>7. EndpointInv'
  <2>1. EndpointInv BY DEF SendMoneyInv
  <2>2. serving \subseteq Called /\ done \subseteq Called BY CalledType DEF SendMoneyInv
  <2>3. \A a, k : OwnSuccess(a, k) => OwnSuccess(a, k)'
    BY <1>1, <1>4, <2>2 DEF OwnSuccess
  <2>4. \A k \in Keys : keyRow'[k] # NoKey =>
          (\E s \in Called' : Key(s)' = k) /\ OwnSuccess(keyRow[k].snapshot, k)'
    BY <1>1, <1>4, <2>1, <2>3 DEF EndpointInv
  <2>5. keyRow[key[f]] # NoKey => keyRow[key[f]].body = content[f]
    <3> HAVE keyRow[key[f]] # NoKey
    <3>1. PICK s \in Called : Key(s) = key[f] BY <1>1, <2>1 DEF EndpointInv
    <3> QED BY <3>1, <1>5, <2>1 DEF EndpointInv, FormInv
  <2>6. \A s \in Called' : keyRow'[Key(s)'] # NoKey => keyRow'[Key(s)'].body = Body(s)'
    BY <1>1, <1>4, <2>1, <2>5 DEF EndpointInv
  <2>7. \A s \in Requests : answer'[s] # NoAnswer =>
          s \in Called' /\ OwnSuccess(answer[s], Key(s))'
    <3> SUFFICES ASSUME NEW s \in Requests, answer[s] # NoAnswer
                 PROVE  s \in Called' /\ OwnSuccess(answer[s], Key(s))'
      BY <1>1
    <3>1. s \in Called /\ OwnSuccess(answer[s], Key(s)) BY <2>1 DEF EndpointInv
    <3>2. Key(s)' = Key(s) BY <1>4, <3>1
    <3> QED BY <1>1, <1>4, <2>2, <3>1, <3>2 DEF OwnSuccess
  <2>8. /\ \A s \in serving' : answer'[s] = NoAnswer /\ keyRow'[Key(s)'].state = "IN_PROGRESS"
        /\ \A s \in done' : keyRow'[Key(s)'] # NoKey
        /\ \A s, u \in serving' \cup done' : Key(s)' = Key(u)' => s = u
    BY <1>1, <1>4, <2>1, <2>2 DEF EndpointInv
  <2> QED BY <1>1, <2>4, <2>6, <2>7, <2>8 DEF EndpointInv, OwnSuccess
<1> QED BY <1>3, <1>6, <1>7 DEF SendMoneyInv

LEMMA FormStepInv ==
  ASSUME SendMoneyInv, NEW f \in Forms, FormStep(f) PROVE SendMoneyInv'
<1>1. CASE Edit(f)
  <2>1. PICK c \in Contents : Refill(f, c) BY <1>1 DEF Edit
  <2>2. UNCHANGED <<idemVars, draftOf, flight>> BY <1>1 DEF Edit
  <2>3. flight' \in [Forms -> Requests \cup {Nobody}]
    BY <2>2 DEF SendMoneyInv, SendMoneyTypeOK
  <2> QED BY <2>1, <2>2, <2>3, RefillStep
<1>2. ASSUME NEW r \in Requests, Submit(f, r) PROVE SendMoneyInv'
  BY <1>2, SubmitStep
<1>3. ASSUME Land(f)
      PROVE  /\ flight' \in [Forms -> Requests \cup {Nobody}]
             /\ UNCHANGED <<idemVars, draftOf>>
  BY <1>3 DEF Land, SendMoneyInv, SendMoneyTypeOK
<1>4. CASE ReceiveSuccess(f) \/ Reload(f)
  BY <1>3, <1>4, RefillStep DEF ReceiveSuccess, Reload
<1>5. CASE ReceiveError(f) \/ LoseAnswer(f)
  <2>1. /\ UNCHANGED <<idemVars, draftOf, content, key, draft, issued>>
        /\ flight' \in [Forms -> Requests \cup {Nobody}]
    BY <1>3, <1>5 DEF ReceiveError, LoseAnswer
  <2>2. SendMoneyTypeOK' BY <2>1 DEF SendMoneyInv, SendMoneyTypeOK, idemVars
  <2>3. FormInv' BY <2>1 DEF SendMoneyInv, FormInv, Called, Key, Body, idemVars
  <2> QED BY <2>1, <2>2, <2>3, FormsLeaveEndpoint DEF SendMoneyInv
<1> QED BY <1>1, <1>2, <1>4, <1>5 DEF FormStep

-----------------------------------------------------------------------------
(***************************************************************************)
(* The endpoint's steps.                                                   *)
(***************************************************************************)
LEMMA EndpointLeavesForms ==
  ASSUME FormInv, call' = call, UNCHANGED formVars
  PROVE  /\ FormInv' /\ Called' = Called
         /\ \A r : Key(r)' = Key(r) /\ Body(r)' = Body(r)
  BY DEF FormInv, formVars, Called, Key, Body

LEMMA ClaimStep ==
  ASSUME SendMoneyInv, NEW r \in Called, Claim(r), UNCHANGED formVars
  PROVE  SendMoneyInv'
<1> DEFINE row == [state |-> "IN_PROGRESS", body |-> Body(r), snapshot |-> NoAnswer]
<1>1. /\ Key(r) \in Keys /\ Body(r) \in Contents /\ r \in Requests
      /\ serving \subseteq Called /\ done \subseteq Called
  BY CalledType DEF SendMoneyInv, Called
<1>2. /\ answer[r] = NoAnswer /\ keyRow[Key(r)] = NoKey
      /\ keyRow' = [keyRow EXCEPT ![Key(r)] = row]
      /\ serving' = serving \cup {r}
      /\ UNCHANGED <<call, done, answer>>
  BY DEF Claim, Open
<1>3. /\ FormInv /\ FormInv' /\ Called' = Called
      /\ \A s : Key(s)' = Key(s) /\ Body(s)' = Body(s)
  BY <1>2, EndpointLeavesForms DEF SendMoneyInv
<1>4. /\ keyRow'[Key(r)] = row /\ row # NoKey
      /\ \A k \in Keys \ {Key(r)} : keyRow'[k] = keyRow[k]
  BY <1>1, <1>2 DEF SendMoneyInv, SendMoneyTypeOK, NoKey
<1>5. SendMoneyTypeOK'
  <2>1. /\ keyRow' \in [Keys -> {NoKey} \cup [state : {"IN_PROGRESS", "COMPLETED"},
                                             body : Contents, snapshot : Answers]]
        /\ \A k \in Keys :
             keyRow'[k].state = "COMPLETED" <=> keyRow'[k].snapshot # NoAnswer
    BY <1>1, <1>2, <1>4, CodesDiffer DEF SendMoneyInv, SendMoneyTypeOK
  <2> QED BY <1>1, <1>2, <2>1 DEF SendMoneyInv, SendMoneyTypeOK, formVars, Called
<1>6. EndpointInv'
  <2>1. EndpointInv BY DEF SendMoneyInv
  <2>2. \A a, k : OwnSuccess(a, k)' <=> OwnSuccess(a, k) BY <1>2, <1>3 DEF OwnSuccess
  <2>3. \A k \in Keys : keyRow'[k] # NoKey =>
          (\E s \in Called : Key(s) = k) /\ OwnSuccess(keyRow'[k].snapshot, k)
    BY <1>1, <1>4, <2>1, CodesDiffer DEF EndpointInv, OwnSuccess
  <2>4. \A s \in Called : keyRow'[Key(s)] # NoKey => keyRow'[Key(s)].body = Body(s)
    BY <1>1, <1>3, <1>4, <2>1, CalledType DEF EndpointInv, FormInv, SendMoneyInv
  <2>5. \A s \in serving \cup done : Key(s) # Key(r)
    BY <1>2, <2>1, CodesDiffer DEF EndpointInv
  <2>6. \A s \in serving \cup done : keyRow'[Key(s)] = keyRow[Key(s)]
    BY <1>1, <1>4, <2>5, CalledType DEF SendMoneyInv
  <2>7. \A s \in serving' : answer[s] = NoAnswer /\ keyRow'[Key(s)].state = "IN_PROGRESS"
    BY <1>2, <1>4, <2>1, <2>6 DEF EndpointInv
  <2>8. \A s \in done : keyRow'[Key(s)] # NoKey BY <2>1, <2>6 DEF EndpointInv
  <2>9. \A s, u \in serving' \cup done : Key(s) = Key(u) => s = u
    BY <1>2, <2>1, <2>5 DEF EndpointInv
  <2>10. \A s \in Requests : answer[s] # NoAnswer => s \in Called /\ OwnSuccess(answer[s], Key(s))
    BY <2>1 DEF EndpointInv
  <2> QED BY <1>2, <1>3, <2>2, <2>3, <2>4, <2>7, <2>8, <2>9, <2>10 DEF EndpointInv, OwnSuccess
<1> QED BY <1>3, <1>5, <1>6 DEF SendMoneyInv

LEMMA PayStep ==
  ASSUME SendMoneyInv, NEW r \in Called, Pay(r), UNCHANGED formVars
  PROVE  SendMoneyInv'
<1>1. /\ r \in serving /\ done' = done \cup {r}
      /\ UNCHANGED <<call, keyRow, serving, answer>>
  BY DEF Pay
<1>2. /\ FormInv' /\ Called' = Called
      /\ \A s : Key(s)' = Key(s) /\ Body(s)' = Body(s)
  BY <1>1, EndpointLeavesForms DEF SendMoneyInv
<1>3. SendMoneyTypeOK' BY <1>1 DEF SendMoneyInv, SendMoneyTypeOK, formVars, Called
<1>4. EndpointInv'
  <2>1. EndpointInv BY DEF SendMoneyInv
  <2>2. \A a, k : OwnSuccess(a, k) => OwnSuccess(a, k)' BY <1>1, <1>2 DEF OwnSuccess
  <2>3. \A s \in done' : keyRow[Key(s)] # NoKey
    BY <1>1, <2>1, CodesDiffer DEF EndpointInv
  <2>4. \A s, u \in serving \cup done' : Key(s) = Key(u) => s = u
    BY <1>1, <2>1 DEF EndpointInv
  <2>5. /\ \A k \in Keys : keyRow[k] # NoKey => OwnSuccess(keyRow[k].snapshot, k)'
        /\ \A s \in Requests : answer[s] # NoAnswer => OwnSuccess(answer[s], Key(s))'
    <3>1. /\ \A k \in Keys : keyRow[k] # NoKey => OwnSuccess(keyRow[k].snapshot, k)
          /\ \A s \in Requests : answer[s] # NoAnswer => OwnSuccess(answer[s], Key(s))
      BY <2>1 DEF EndpointInv
    <3> QED BY <1>1, <1>2, <3>1 DEF OwnSuccess
  <2> QED BY <1>1, <1>2, <2>1, <2>3, <2>4, <2>5 DEF EndpointInv
<1> QED BY <1>2, <1>3, <1>4 DEF SendMoneyInv

LEMMA SaveStep ==
  ASSUME SendMoneyInv, NEW r \in Called, Save(r), UNCHANGED formVars
  PROVE  SendMoneyInv'
<1>1. /\ Key(r) \in Keys /\ Body(r) \in Contents /\ r \in Requests
      /\ serving \subseteq Called /\ done \subseteq Called
  BY CalledType DEF SendMoneyInv, Called
<1>2. EndpointInv BY DEF SendMoneyInv
<1>3. PICK a \in Answers :
        /\ a # NoAnswer /\ OwnSuccess(a, Key(r))
        /\ answer' = [answer EXCEPT ![r] = a]
        /\ keyRow' = [keyRow EXCEPT ![Key(r)].state = "COMPLETED", ![Key(r)].snapshot = a]
  <2>1. CASE r \in done
    <3>1. Success(r) # NoAnswer /\ OwnSuccess(Success(r), Key(r))
      BY <2>1, CodesDiffer DEF OwnSuccess
    <3> QED BY <1>1, <2>1, <3>1, CodesDiffer DEF Save, Give
  <2>2. CASE r \notin done
    <3>1. PICK a \in {Answer(e) : e \in Errors} :
            /\ Give(r, a)
            /\ keyRow' = [keyRow EXCEPT ![Key(r)].state = "COMPLETED",
                                        ![Key(r)].snapshot = a]
      BY <2>2 DEF Save
    <3>2. PICK e \in Errors : a = Answer(e) BY <3>1
    <3>3. a # NoAnswer /\ OwnSuccess(a, Key(r))
      BY <3>2, SendMoneyAssumption, CodesDiffer DEF OwnSuccess
    <3>4. a \in Answers BY <3>2, CodesDiffer DEF Codes
    <3> QED BY <3>1, <3>3, <3>4 DEF Give
  <2> QED BY <2>1, <2>2
<1>4. /\ r \in serving /\ serving' = serving \ {r} /\ UNCHANGED <<call, done>>
  BY DEF Save
<1>5. /\ FormInv /\ FormInv' /\ Called' = Called
      /\ \A s : Key(s)' = Key(s) /\ Body(s)' = Body(s)
  BY <1>4, EndpointLeavesForms DEF SendMoneyInv
<1>6. /\ keyRow[Key(r)] \in [state : {"IN_PROGRESS", "COMPLETED"},
                             body : Contents, snapshot : Answers]
      /\ keyRow'[Key(r)] = [state |-> "COMPLETED", body |-> keyRow[Key(r)].body,
                            snapshot |-> a]
      /\ keyRow[Key(r)] # NoKey
      /\ \A k \in Keys \ {Key(r)} : keyRow'[k] = keyRow[k]
  <2>1. /\ keyRow \in [Keys -> {NoKey} \cup [state : {"IN_PROGRESS", "COMPLETED"},
                                            body : Contents, snapshot : Answers]]
        /\ keyRow[Key(r)].state = "IN_PROGRESS"
    BY <1>2, <1>4 DEF SendMoneyInv, SendMoneyTypeOK, EndpointInv
  <2>2. /\ keyRow[Key(r)] # NoKey
        /\ keyRow[Key(r)] \in [state : {"IN_PROGRESS", "COMPLETED"},
                               body : Contents, snapshot : Answers]
    BY <1>1, <2>1, CodesDiffer
  <2> QED BY <1>1, <1>3, <2>1, <2>2
<1>7. SendMoneyTypeOK'
  <2>1. /\ keyRow' \in [Keys -> {NoKey} \cup [state : {"IN_PROGRESS", "COMPLETED"},
                                             body : Contents, snapshot : Answers]]
        /\ \A k \in Keys :
             keyRow'[k].state = "COMPLETED" <=> keyRow'[k].snapshot # NoAnswer
    BY <1>1, <1>3, <1>6 DEF SendMoneyInv, SendMoneyTypeOK
  <2> QED BY <1>1, <1>3, <1>4, <2>1 DEF SendMoneyInv, SendMoneyTypeOK, formVars, Called
<1>8. EndpointInv'
  <2>1. \A b, k : OwnSuccess(b, k)' <=> OwnSuccess(b, k) BY <1>4, <1>5 DEF OwnSuccess
  <2>2. \A s \in Requests \ {r} : answer'[s] = answer[s]
    BY <1>3 DEF SendMoneyInv, SendMoneyTypeOK
  <2>3. answer'[r] = a BY <1>1, <1>3 DEF SendMoneyInv, SendMoneyTypeOK
  <2>4. \A k \in Keys : keyRow'[k] # NoKey =>
          (\E s \in Called : Key(s) = k) /\ OwnSuccess(keyRow'[k].snapshot, k)
    <3>1. OwnSuccess(keyRow'[Key(r)].snapshot, Key(r)) BY <1>3, <1>6
    <3>2. \A k \in Keys \ {Key(r)} : keyRow'[k] # NoKey =>
            (\E s \in Called : Key(s) = k) /\ OwnSuccess(keyRow'[k].snapshot, k)
      BY <1>2, <1>6 DEF EndpointInv
    <3> QED BY <1>1, <3>1, <3>2
  <2>5. \A s \in Called : Key(s) \in Keys BY CalledType DEF SendMoneyInv
  <2>6. \A s \in Called : keyRow'[Key(s)] # NoKey => keyRow'[Key(s)].body = Body(s)
    BY <1>1, <1>2, <1>6, <2>5 DEF EndpointInv
  <2>7. \A s \in serving' : answer'[s] = NoAnswer /\ keyRow'[Key(s)].state = "IN_PROGRESS"
    BY <1>1, <1>2, <1>4, <1>6, <2>2, <2>5 DEF EndpointInv, Called
  <2>8. \A s \in done : keyRow'[Key(s)] # NoKey
    BY <1>1, <1>2, <1>6, <2>5, CodesDiffer DEF EndpointInv
  <2>9. \A s, u \in serving' \cup done : Key(s) = Key(u) => s = u
    BY <1>2, <1>4 DEF EndpointInv
  <2>10. \A s \in Requests : answer'[s] # NoAnswer =>
           s \in Called /\ OwnSuccess(answer'[s], Key(s))
    BY <1>2, <1>3, <2>2, <2>3 DEF EndpointInv
  <2> QED BY <1>4, <1>5, <2>1, <2>4, <2>6, <2>7, <2>8, <2>9, <2>10 DEF EndpointInv, OwnSuccess
<1> QED BY <1>5, <1>7, <1>8 DEF SendMoneyInv

(* An answer that changes nothing else: a replay, a break-off, a refusal   *)
(* before the handler.                                                     *)
LEMMA GiveStep ==
  ASSUME SendMoneyInv, NEW r \in Called, NEW a \in Answers, Give(r, a),
         OwnSuccess(a, Key(r)), r \notin serving',
         serving' = serving \/ serving' = serving \ {r},
         UNCHANGED <<call, keyRow, done, formVars>>
  PROVE  SendMoneyInv'
<1>1. /\ FormInv' /\ Called' = Called
      /\ \A s : Key(s)' = Key(s) /\ Body(s)' = Body(s)
  BY EndpointLeavesForms DEF SendMoneyInv
<1>2. /\ r \in Requests /\ answer' = [answer EXCEPT ![r] = a] /\ answer'[r] = a
      /\ \A s \in Requests \ {r} : answer'[s] = answer[s]
  BY DEF Give, SendMoneyInv, SendMoneyTypeOK, Called
<1>3. SendMoneyTypeOK' BY <1>2 DEF SendMoneyInv, SendMoneyTypeOK, formVars
<1>4. EndpointInv'
  <2>1. EndpointInv /\ serving \subseteq Called BY CalledType DEF SendMoneyInv
  <2>2. \A b, k : OwnSuccess(b, k)' <=> OwnSuccess(b, k) BY <1>1 DEF OwnSuccess
  <2>3. \A s \in serving' : s \in Requests \ {r} /\ s \in serving
    BY <2>1 DEF Called
  <2>4. \A s \in serving' : answer'[s] = NoAnswer /\ keyRow[Key(s)].state = "IN_PROGRESS"
    BY <1>2, <2>1, <2>3 DEF EndpointInv
  <2>5. \A s, u \in serving' \cup done : Key(s) = Key(u) => s = u
    BY <2>1, <2>3 DEF EndpointInv
  <2>6. \A s \in Requests : answer'[s] # NoAnswer =>
          s \in Called /\ OwnSuccess(answer'[s], Key(s))
    BY <1>2, <2>1 DEF EndpointInv
  <2> QED BY <1>1, <2>1, <2>2, <2>4, <2>5, <2>6 DEF EndpointInv, OwnSuccess
<1> QED BY <1>1, <1>3, <1>4 DEF SendMoneyInv

LEMMA ErrorsAreOwn ==
  ASSUME NEW c \in {"typeError", "integrityError", "databaseError", "turnedAway"}, NEW k
  PROVE  Answer(c) \in Answers /\ OwnSuccess(Answer(c), k)
<1>1. c \in Codes BY DEF Codes
<1> QED BY <1>1, CodesDiffer DEF OwnSuccess

LEMMA ReplayStep ==
  ASSUME SendMoneyInv, NEW r \in Called, Replay(r), UNCHANGED formVars
  PROVE  SendMoneyInv'
<1>1. /\ r \notin serving /\ keyRow[Key(r)] # NoKey /\ Key(r) \in Keys
      /\ UNCHANGED <<call, keyRow, serving, done>>
  BY CalledType DEF Replay, Open, SendMoneyInv
<1>2. keyRow[Key(r)].body = Body(r) BY <1>1 DEF SendMoneyInv, EndpointInv
<1>3. FromKey(keyRow[Key(r)], Body(r)) \in {keyRow[Key(r)].snapshot, Answer("typeError")}
  BY <1>2 DEF FromKey
<1>4. keyRow[Key(r)].snapshot \in Answers /\ OwnSuccess(keyRow[Key(r)].snapshot, Key(r))
  BY <1>1, CodesDiffer DEF SendMoneyInv, SendMoneyTypeOK, EndpointInv
<1>5. PICK a \in {keyRow[Key(r)].snapshot, Answer("typeError"), Answer("integrityError")} :
        Give(r, a)
  BY <1>3 DEF Replay
<1>6. a \in Answers /\ OwnSuccess(a, Key(r)) BY <1>4, <1>5, ErrorsAreOwn
<1> QED BY <1>1, <1>5, <1>6, GiveStep

LEMMA EndpointStepInv ==
  ASSUME SendMoneyInv, UNCHANGED formVars,
         \/ \E r \in Requests : call[r] # NoCall /\ (Serve(r) \/ TurnAway(r))
         \/ ServerDies
  PROVE  SendMoneyInv'
<1>1. ASSUME NEW r \in Called, Serve(r) \/ TurnAway(r) PROVE SendMoneyInv'
  <2>1. CASE Claim(r) BY <2>1, ClaimStep
  <2>2. CASE Pay(r) BY <2>2, PayStep
  <2>3. CASE Save(r) BY <2>3, SaveStep
  <2>4. CASE Replay(r) BY <2>4, ReplayStep
  <2>5. CASE BreakOff(r)
    <3>1. /\ Give(r, Answer("databaseError")) /\ serving' = serving \ {r}
          /\ UNCHANGED <<call, keyRow, done>>
      BY <2>5 DEF BreakOff
    <3> QED BY <3>1, GiveStep, ErrorsAreOwn
  <2>6. CASE TurnAway(r)
    <3>1. /\ Give(r, Answer("turnedAway")) /\ r \notin serving
          /\ UNCHANGED <<call, keyRow, serving, done>>
      BY <2>6 DEF TurnAway, Open
    <3> QED BY <3>1, GiveStep, ErrorsAreOwn
  <2> QED BY <1>1, <2>1, <2>2, <2>3, <2>4, <2>5, <2>6 DEF Serve
<1>2. CASE ServerDies
  <2>1. /\ serving' = {} /\ UNCHANGED <<call, keyRow, done, answer>>
    BY <1>2 DEF ServerDies
  <2>2. FormInv' BY <2>1, EndpointLeavesForms DEF SendMoneyInv
  <2>3. SendMoneyTypeOK' BY <2>1 DEF SendMoneyInv, SendMoneyTypeOK, formVars
  <2>4. EndpointInv'
    BY <2>1 DEF SendMoneyInv, EndpointInv, Called, Key, Body, OwnSuccess
  <2> QED BY <2>2, <2>3, <2>4 DEF SendMoneyInv
<1> QED BY <1>1, <1>2 DEF Called

-----------------------------------------------------------------------------
(***************************************************************************)
(* The theorems.                                                           *)
(***************************************************************************)
LEMMA SendMoneyStepInv == SendMoneyInv /\ [SendMoneyNext]_vars => SendMoneyInv'
<1> SUFFICES ASSUME SendMoneyInv, [SendMoneyNext]_vars PROVE SendMoneyInv'
  OBVIOUS
<1>1. CASE UNCHANGED vars
  BY <1>1
  DEF vars, idemVars, formVars, SendMoneyInv, SendMoneyTypeOK, FormInv, EndpointInv, Called,
      Key, Body, OwnSuccess
<1> QED BY <1>1, FormStepInv, EndpointStepInv DEF SendMoneyNext

LEMMA AlwaysSendMoneyInv == SendMoneySpec => []SendMoneyInv
  BY SendMoneyInitInv, SendMoneyStepInv, PTL DEF SendMoneySpec

(* The form and the endpoint stay well typed, for any number of tabs,      *)
(* contents, keys and requests.                                            *)
THEOREM SendMoneyTypeCorrect == SendMoneySpec => []SendMoneyTypeOK
<1>1. SendMoneyInv => SendMoneyTypeOK BY DEF SendMoneyInv
<1> QED BY <1>1, AlwaysSendMoneyInv, PTL

(* A draft has one key and a key one payment.                              *)
THEOREM DraftIsPaidOnce == SendMoneySpec => []DraftPaidOnce
<1>1. SendMoneyInv => DraftPaidOnce
  BY CalledType DEF SendMoneyInv, FormInv, EndpointInv, DraftPaidOnce
<1> QED BY <1>1, AlwaysSendMoneyInv, PTL

(* A success has the key, hence the draft and the content, of the payment  *)
(* it names.                                                               *)
THEOREM SuccessIsForTheDraft == SendMoneySpec => []SuccessIsOwn
<1>1. SendMoneyInv => SuccessIsOwn
  <2> SUFFICES ASSUME SendMoneyInv, NEW r \in Requests, answer[r].code = "success"
               PROVE  /\ answer[r].payment \in done
                      /\ draftOf[answer[r].payment] = draftOf[r]
                      /\ Body(answer[r].payment) = Body(r)
    BY DEF SuccessIsOwn
  <2>1. answer[r] # NoAnswer BY CodesDiffer
  <2>2. r \in Called /\ answer[r].payment \in done /\ Key(answer[r].payment) = Key(r)
    BY <2>1 DEF SendMoneyInv, EndpointInv, OwnSuccess
  <2>3. answer[r].payment \in Called BY <2>2, CalledType DEF SendMoneyInv
  <2> QED BY <2>2, <2>3 DEF SendMoneyInv, FormInv
<1> QED BY <1>1, AlwaysSendMoneyInv, PTL

(* No request is told that its key is another content's.                   *)
THEOREM FormNeverConflicts == SendMoneySpec => []NeverInConflict
<1>1. SendMoneyInv => NeverInConflict
  BY CodesDiffer DEF SendMoneyInv, EndpointInv, OwnSuccess, NeverInConflict
<1> QED BY <1>1, AlwaysSendMoneyInv, PTL
=============================================================================
