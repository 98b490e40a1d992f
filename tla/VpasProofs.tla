----------------------------- MODULE VpasProofs -----------------------------
(***************************************************************************)
(* Theorems about Vpas, for any accounts, addresses, requests and calls.   *)
(***************************************************************************)
EXTENDS Vpas, TLAPS

(* A table that loses no row and no account, and whose rows keep their     *)
(* account, keeps what a request knows true while it stands still.         *)
LEMMA StandingStill ==
  ASSUME VpasInv, NEW r \in Requests,
         pc'[r] = pc[r], ask'[r] = ask[r], current'[r] = current[r],
         \A x \in Addresses : account[x] # NoAccount => account'[x] = account[x],
         writer' = r => writer = r
  PROVE  RequestInv(r)'
<1>1. RequestInv(r) /\ VpasTypeOK
  BY DEF VpasInv
<1>2. ask[r] \in Calls => ask[r].address \in Addresses /\ ask[r] \in Asks
  BY VpasAssumption DEF Asks
<1>3. ASSUME NEW a \in Accounts, Knows(r, a) PROVE Knows(r, a)'
  BY <1>3, VpasAssumption DEF Knows, AddressesOf
<1>4. pc[r] \in {"seeking", "demoting", "promoting"} =>
        account'[ask[r].address] = account[ask[r].address] /\ OwnAddress(r)'
              /\ account[ask[r].address] \in Accounts
  BY <1>1, <1>2 DEF RequestInv, OwnAddress, Moving, VpasTypeOK
<1>5. (writer = r => pc[r] = "promoting" /\ Demotes(r))'
  BY <1>1 DEF RequestInv, Demotes
<1> QED
  BY <1>1, <1>3, <1>4, <1>5 DEF RequestInv, Creating, Moving

(* A step of one request disturbs no other.                                *)
LEMMA OthersStand ==
  ASSUME VpasInv, NEW r \in Requests, NEW to, NEW c, NEW x,
         pc' = [pc EXCEPT ![r] = to],
         ask' \in {ask, [ask EXCEPT ![r] = c]},
         current' \in {current, [current EXCEPT ![r] = x]},
         \A y \in Addresses : account[y] # NoAccount => account'[y] = account[y],
         writer' \in {writer, r, NoRequest}
  PROVE  \A s \in Requests \ {r} : RequestInv(s)'
<1> SUFFICES ASSUME NEW s \in Requests \ {r} PROVE RequestInv(s)'
  OBVIOUS
<1>1. VpasTypeOK
  BY DEF VpasInv
<1>2. pc'[s] = pc[s] /\ ask'[s] = ask[s] /\ current'[s] = current[s]
  BY <1>1 DEF VpasTypeOK
<1>3. writer' = s => writer = s
  BY VpasAssumption
<1> QED
  BY <1>2, <1>3, StandingStill

LEMMA TableStands ==
  ASSUME VpasInv, UNCHANGED <<account, primary>>
  PROVE  OnePrimary'
BY DEF VpasInv, OnePrimary, OnePrimaryEach, AddressesOf, PrimariesOf

(* What SELECT finds is an address of the account or nothing.              *)
LEMMA FindKnows ==
  ASSUME VpasInv, NEW r \in Requests, NEW a \in Accounts, Find(r, a)
  PROVE  /\ Knows(r, a)'
         /\ current' \in [Requests -> Addresses \cup {NoAddress}]
         /\ \E x : current' = [current EXCEPT ![r] = x]
<1>1. VpasTypeOK
  BY DEF VpasInv
<1>2. PICK x \in IF PrimariesOf(a) = {} THEN {NoAddress} ELSE PrimariesOf(a) :
        current' = [current EXCEPT ![r] = x]
  BY DEF Find
<1>3. x = NoAddress \/ x \in AddressesOf(a)
  BY <1>2 DEF PrimariesOf
<1>4. x \in Addresses \cup {NoAddress}
  BY <1>3 DEF AddressesOf
<1>5. current'[r] = x
  BY <1>1, <1>2 DEF VpasTypeOK
<1> QED
  BY <1>1, <1>2, <1>3, <1>4, <1>5 DEF VpasTypeOK, Knows, Find, AddressesOf

-----------------------------------------------------------------------------
(***************************************************************************)
(* One lemma per action: it keeps VpasInv.                                 *)
(***************************************************************************)
LEMMA CallsAreAsks ==
  ASSUME NEW c \in Calls
  PROVE  c \in Asks /\ c.address \in Addresses /\ c.account \in Accounts \cup {NoAccount}
BY VpasAssumption DEF Asks

LEMMA StartKeepsInv ==
  ASSUME VpasInv, NEW r \in Requests, StartCreate(r) \/ StartSetPrimary(r)
  PROVE  VpasInv'
<1>1. VpasTypeOK /\ RequestInv(r)
  BY DEF VpasInv
<1>2. PICK c \in Calls, to \in {"checking", "REFUSED", "loading"} :
        /\ to = "checking" => c.account # NoAccount
        /\ pc[r] = "idle" /\ pc' = [pc EXCEPT ![r] = to]
        /\ ask' = [ask EXCEPT ![r] = c]
        /\ UNCHANGED <<account, primary, writer, current>>
  BY DEF StartCreate, StartSetPrimary, Go, TableUnchanged
<1>3. VpasTypeOK'
  BY <1>1, <1>2 DEF VpasTypeOK, Creating, Moving, Ended
<1>4. RequestInv(r)'
  BY <1>1, <1>2, CallsAreAsks DEF VpasTypeOK, RequestInv, Creating, Moving
<1>5. \A s \in Requests \ {r} : RequestInv(s)'
  BY <1>2, OthersStand
<1> QED
  BY <1>2, <1>3, <1>4, <1>5, TableStands DEF VpasInv

LEMMA CheckKeepsInv ==
  ASSUME VpasInv, NEW r \in Requests, CheckAddress(r) \/ LoadVpa(r) \/ Refresh(r)
  PROVE  VpasInv'
<1>1. VpasTypeOK /\ RequestInv(r)
  BY DEF VpasInv
<1>2. PICK to \in {"finding", "seeking"} \cup Ended :
        /\ to = "finding" => pc[r] = "checking"
        /\ to = "seeking" => pc[r] = "loading" /\ OwnAddress(r)
        /\ pc[r] \in {"checking", "loading", "refreshing"}
        /\ pc' = [pc EXCEPT ![r] = to]
        /\ UNCHANGED <<account, primary, writer, ask, current>>
  BY DEF CheckAddress, LoadVpa, Refresh, Go, TableUnchanged, Ended
<1>3. VpasTypeOK'
  BY <1>1, <1>2 DEF VpasTypeOK, Creating, Moving, Ended
<1>4. RequestInv(r)'
  BY <1>1, <1>2 DEF VpasTypeOK, RequestInv, Creating, Moving, Ended, OwnAddress
<1>5. \A s \in Requests \ {r} : RequestInv(s)'
  BY <1>2, OthersStand
<1> QED
  BY <1>2, <1>3, <1>4, <1>5, TableStands DEF VpasInv

LEMMA FindKeepsInv ==
  ASSUME VpasInv, NEW r \in Requests, FindForCreate(r) \/ FindForMove(r)
  PROVE  VpasInv'
<1>1. VpasTypeOK /\ RequestInv(r)
  BY DEF VpasInv
<1>2. PICK a \in Accounts, to \in {"inserting", "demoting"} :
        /\ to = "inserting" => pc[r] = "finding" /\ a = ask[r].account
        /\ to = "demoting" => pc[r] = "seeking" /\ a = account[ask[r].address]
        /\ pc' = [pc EXCEPT ![r] = to]
        /\ Find(r, a)
  <2>1. CASE FindForCreate(r)
    BY <1>1, <2>1 DEF FindForCreate, Go, RequestInv, Creating
  <2>2. CASE FindForMove(r)
    <3>1. pc[r] = "seeking" /\ ask[r] \in Calls
      BY <1>1, <2>2 DEF FindForMove, Go, RequestInv, Moving
    <3>2. account[ask[r].address] \in Accounts
      BY <1>1, <3>1, CallsAreAsks DEF RequestInv, OwnAddress, VpasTypeOK
    <3> QED
      BY <2>2, <3>1, <3>2 DEF FindForMove, Go
  <2> QED
    BY <2>1, <2>2
<1>3. UNCHANGED <<account, primary, writer, ask>>
  BY <1>2 DEF Find
<1>4. PICK x : current' = [current EXCEPT ![r] = x]
  BY <1>2, FindKnows
<1>5. VpasTypeOK'
  BY <1>1, <1>2, <1>3, FindKnows DEF VpasTypeOK, Creating, Moving, Ended
<1>6. Knows(r, a)'
  BY <1>2, FindKnows
<1>7. RequestInv(r)'
  BY <1>1, <1>2, <1>3, <1>6
  DEF VpasTypeOK, RequestInv, Creating, Moving, OwnAddress, Knows, AddressesOf
<1>8. \A s \in Requests \ {r} : RequestInv(s)'
  BY <1>2, <1>3, <1>4, OthersStand
<1> QED
  BY <1>3, <1>5, <1>7, <1>8, TableStands DEF VpasInv

(* The account that gets the row has no other primary address if the new   *)
(* one is, and has the one that was found if it is not.                    *)
LEMMA InsertKeepsInv ==
  ASSUME VpasInv, NEW r \in Requests, Insert(r)
  PROVE  VpasInv'
<1> DEFINE x == ask[r].address
           a == ask[r].account
<1>1. VpasTypeOK /\ RequestInv(r) /\ OnePrimary
  BY DEF VpasInv
<1>2. pc[r] = "inserting" /\ pc' = [pc EXCEPT ![r] = "CREATED"]
  BY DEF Insert, Go
<1>3. a \in Accounts /\ x \in Addresses /\ Knows(r, a)
  BY <1>1, <1>2, CallsAreAsks DEF RequestInv, Creating
<1>4. /\ account[x] = NoAccount
      /\ account' = [account EXCEPT ![x] = a]
      /\ \/ PrimariesOf(a) = {} /\ primary' = primary \cup {x}
         \/ current[r] # NoAddress /\ primary' = primary
      /\ UNCHANGED <<writer, ask, current>>
  BY DEF Insert
<1>5. x \notin primary
  BY <1>1, <1>4 DEF VpasTypeOK
<1>6. VpasTypeOK'
  <2>1. primary' \subseteq {y \in Addresses : account'[y] # NoAccount}
    BY <1>1, <1>3, <1>4, VpasAssumption DEF VpasTypeOK
  <2>2. account' \in [Addresses -> Accounts \cup {NoAccount}]
    BY <1>1, <1>3, <1>4 DEF VpasTypeOK
  <2>3. pc' \in [Requests -> {"idle"} \cup Creating \cup Moving \cup Ended]
    BY <1>1, <1>2 DEF VpasTypeOK, Ended
  <2> QED
    BY <1>1, <1>4, <2>1, <2>2, <2>3 DEF VpasTypeOK
<1>7. OnePrimary'
  <2> SUFFICES ASSUME NEW b \in Accounts, AddressesOf(b)' # {}
               PROVE  (\E y \in AddressesOf(b) : PrimariesOf(b) = {y})'
    BY DEF OnePrimary, OnePrimaryEach
  <2>1. AddressesOf(b)' = IF b = a THEN AddressesOf(a) \cup {x} ELSE AddressesOf(b)
    BY <1>1, <1>3, <1>4, VpasAssumption DEF AddressesOf, VpasTypeOK
  <2>2. CASE b # a
    <3>1. PrimariesOf(b)' = PrimariesOf(b)
      BY <1>3, <1>4, <1>5, <2>1, <2>2, VpasAssumption DEF PrimariesOf, AddressesOf
    <3> QED
      BY <1>1, <2>1, <2>2, <3>1 DEF OnePrimary, OnePrimaryEach
  <2>3. CASE b = a /\ PrimariesOf(a) = {} /\ primary' = primary \cup {x}
    <3>1. PrimariesOf(b)' = {x}
      BY <2>1, <2>3 DEF PrimariesOf
    <3> QED
      BY <2>1, <2>3, <3>1
  <2>4. CASE b = a /\ current[r] # NoAddress /\ primary' = primary
    <3>1. PICK y \in AddressesOf(a) : PrimariesOf(a) = {y}
      BY <1>1, <1>3, <2>4 DEF Knows, OnePrimary, OnePrimaryEach
    <3>2. PrimariesOf(b)' = {y}
      BY <1>5, <2>1, <2>4, <3>1 DEF PrimariesOf
    <3> QED
      BY <2>1, <2>4, <3>1, <3>2
  <2> QED
    BY <1>4, <2>2, <2>3, <2>4
<1>8. RequestInv(r)'
  BY <1>1, <1>2, <1>4 DEF VpasTypeOK, RequestInv, Creating, Moving
<1>9. \A s \in Requests \ {r} : RequestInv(s)'
  <2>1. \A y \in Addresses : account[y] # NoAccount => account'[y] = account[y]
    BY <1>1, <1>4 DEF VpasTypeOK
  <2> QED
    BY <1>2, <1>4, <2>1, OthersStand
<1> QED
  BY <1>6, <1>7, <1>8, <1>9 DEF VpasInv

LEMMA DemoteKeepsInv ==
  ASSUME VpasInv, NEW r \in Requests, Demote(r)
  PROVE  VpasInv'
<1>1. VpasTypeOK /\ RequestInv(r)
  BY DEF VpasInv
<1>2. /\ pc[r] = "demoting" /\ pc' = [pc EXCEPT ![r] = "promoting"]
      /\ writer' = (IF Demotes(r) THEN r ELSE writer)
      /\ UNCHANGED <<account, primary, ask, current>>
  BY DEF Demote, Go
<1>3. VpasTypeOK'
  BY <1>1, <1>2 DEF VpasTypeOK, Creating, Moving, Ended
<1>4. writer # r
  BY <1>1, <1>2 DEF RequestInv
<1>5. RequestInv(r)'
  BY <1>1, <1>2, <1>4
  DEF VpasTypeOK, RequestInv, Creating, Moving, OwnAddress, Knows, AddressesOf, Demotes
<1>6. \A s \in Requests \ {r} : RequestInv(s)'
  BY <1>2, OthersStand
<1> QED
  BY <1>2, <1>3, <1>5, <1>6, TableStands DEF VpasInv

(* After the promotion the request's address is the account's only one:    *)
(* the one it demoted is gone, and any other would have blocked it.        *)
LEMMA PromoteKeepsInv ==
  ASSUME VpasInv, NEW r \in Requests, Promote(r)
  PROVE  VpasInv'
<1> DEFINE x == ask[r].address
           a == account[x]
<1>1. VpasTypeOK /\ RequestInv(r) /\ OnePrimary
  BY DEF VpasInv
<1>2. /\ pc[r] = "promoting" /\ pc' = [pc EXCEPT ![r] = "refreshing"]
      /\ ~Blocked(r)
      /\ primary' = Remaining(r) \cup {x}
      /\ writer' = NoRequest
      /\ UNCHANGED <<account, ask, current>>
  BY DEF Promote, Go
<1>3. x \in Addresses /\ a \in Accounts /\ a # NoAccount /\ ask[r] \in Calls
  BY <1>1, <1>2, CallsAreAsks DEF RequestInv, Moving, OwnAddress, VpasTypeOK
<1>4. Remaining(r) = primary \/ (\E y \in AddressesOf(a) : Remaining(r) = primary \ {y})
  BY <1>1, <1>2 DEF Remaining, RequestInv, Knows, Demotes
<1>5. VpasTypeOK'
  BY <1>1, <1>2, <1>3, <1>4 DEF VpasTypeOK, Creating, Moving, Ended
<1>6. OnePrimary'
  <2> SUFFICES ASSUME NEW b \in Accounts, AddressesOf(b) # {}
               PROVE  \E y \in AddressesOf(b) : PrimariesOf(b)' = {y}
    BY <1>2 DEF OnePrimary, OnePrimaryEach, AddressesOf
  <2>1. CASE b = a
    <3>1. PrimariesOf(b)' = {x}
      BY <1>2, <1>3, <2>1 DEF PrimariesOf, AddressesOf, Blocked
    <3> QED
      BY <1>3, <2>1, <3>1 DEF AddressesOf
  <2>2. CASE b # a
    <3>1. PrimariesOf(b)' = PrimariesOf(b)
      BY <1>2, <1>4, <2>2 DEF PrimariesOf, AddressesOf
    <3> QED
      BY <1>1, <3>1 DEF OnePrimary, OnePrimaryEach
  <2> QED
    BY <2>1, <2>2
<1>7. RequestInv(r)'
  BY <1>1, <1>2, <1>3, VpasAssumption DEF VpasTypeOK, RequestInv, Creating, Moving
<1>8. \A s \in Requests \ {r} : RequestInv(s)'
  BY <1>2, OthersStand
<1> QED
  BY <1>5, <1>6, <1>7, <1>8 DEF VpasInv

LEMMA FailKeepsInv ==
  ASSUME VpasInv, NEW r \in Requests,
         InsertRefused(r) \/ PromoteRefused(r) \/ DbError(r)
  PROVE  VpasInv'
<1>1. VpasTypeOK /\ RequestInv(r)
  BY DEF VpasInv
<1>2. /\ pc' = [pc EXCEPT ![r] = "INTERNAL_ERROR"]
      /\ writer' \in {writer, NoRequest} /\ writer' # r
      /\ UNCHANGED <<account, primary, ask, current>>
  BY <1>1, VpasAssumption
  DEF InsertRefused, PromoteRefused, DbError, Go, TableUnchanged, RequestInv
<1>3. VpasTypeOK'
  BY <1>1, <1>2 DEF VpasTypeOK, Creating, Moving, Ended
<1>4. RequestInv(r)'
  BY <1>1, <1>2 DEF VpasTypeOK, RequestInv, Creating, Moving
<1>5. \A s \in Requests \ {r} : RequestInv(s)'
  BY <1>2, OthersStand
<1> QED
  BY <1>2, <1>3, <1>4, <1>5, TableStands DEF VpasInv

-----------------------------------------------------------------------------
LEMMA InitEstablishesInv == VpasInit => VpasInv
BY VpasAssumption
DEF VpasInit, VpasInv, VpasTypeOK, OnePrimary, RequestInv, Creating, Moving

LEMMA NextKeepsInv == VpasInv /\ [VpasNext]_vars => VpasInv'
<1> SUFFICES ASSUME VpasInv, [VpasNext]_vars PROVE VpasInv'
  OBVIOUS
<1>1. CASE UNCHANGED vars
  BY <1>1 DEF vars, VpasInv, VpasTypeOK, OnePrimary, OnePrimaryEach, AddressesOf,
              PrimariesOf, RequestInv, Knows, OwnAddress, Demotes
<1>2. ASSUME NEW r \in Requests,
             \/ StartCreate(r) \/ StartSetPrimary(r)
             \/ CreateStep(r) \/ MoveStep(r) \/ DbError(r)
      PROVE  VpasInv'
  BY <1>2, StartKeepsInv, CheckKeepsInv, FindKeepsInv, InsertKeepsInv,
     DemoteKeepsInv, PromoteKeepsInv, FailKeepsInv
  DEF CreateStep, MoveStep
<1> QED
  BY <1>1, <1>2 DEF VpasNext, Done

(* Every variable keeps its type; only addresses that have a row are       *)
(* primary.                                                                *)
THEOREM VpasTypeCorrect == VpasSpec => []VpasTypeOK
<1>1. VpasInv => VpasTypeOK
  BY DEF VpasInv
<1> QED
  BY <1>1, InitEstablishesInv, NextKeepsInv, PTL DEF VpasSpec

(* Whatever the accounts, addresses and requests: every committed account  *)
(* with addresses has exactly one that is primary.                         *)
THEOREM OnePrimaryAlways == VpasSpec => []OnePrimary
<1>1. VpasInv => OnePrimary
  BY DEF VpasInv
<1> QED
  BY <1>1, InitEstablishesInv, NextKeepsInv, PTL DEF VpasSpec

(* An address keeps its account: the INSERT is the only step that sets     *)
(* one, and the unique index refuses an address that has a row.            *)
THEOREM AddressesAreKept == VpasSpec => AddressKeepsAccount
<1>1. VpasInv /\ [VpasNext]_vars =>
        [\A x \in Addresses : account[x] # NoAccount => account'[x] = account[x]]_vars
  <2> SUFFICES ASSUME VpasInv, VpasNext, NEW x \in Addresses, account[x] # NoAccount
               PROVE  account'[x] = account[x]
    OBVIOUS
  <2>1. VpasTypeOK
    BY DEF VpasInv
  <2>2. ASSUME NEW r \in Requests, Insert(r) PROVE account'[x] = account[x]
    BY <2>1, <2>2 DEF Insert, VpasTypeOK
  <2>3. UNCHANGED account \/ \E r \in Requests : Insert(r)
    BY DEF VpasNext, Done, vars, CreateStep, MoveStep, StartCreate, StartSetPrimary,
           CheckAddress, FindForCreate, FindForMove, Find, InsertRefused, LoadVpa,
           Demote, Promote, PromoteRefused, Refresh, DbError, TableUnchanged
  <2> QED
    BY <2>2, <2>3
<1> QED
  BY <1>1, InitEstablishesInv, NextKeepsInv, PTL DEF VpasSpec, AddressKeepsAccount
=============================================================================
