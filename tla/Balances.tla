------------------------------ MODULE Balances ------------------------------
(***************************************************************************)
(* GET /accounts/{id}/balance next to the transfers: the owner's check and *)
(* the two SELECTs of LedgerRepository.get_balance_paise, with no lock and *)
(* no transaction around them.                                             *)
(***************************************************************************)
EXTENDS Transfers

CONSTANT Readers    \* the requests for a balance

VARIABLES
  stage,    \* reader -> how far it is
  asked,    \* reader -> the account it asks about
  total,    \* reader -> what its first SELECT returned
  answer    \* reader -> balance_paise of its BalanceResponse

readerVars == <<stage, asked, total, answer>>
allVars == <<vars, readerVars>>

BalancesInit ==
  /\ Init
  /\ stage = [r \in Readers |-> "idle"]
  /\ asked \in [Readers -> Accounts]
  /\ total = [r \in Readers |-> 0]
  /\ answer = [r \in Readers |-> 0]

(* get_balance_paise: what it adds up, in the order it asks for it.        *)
SumsDebitsFirst(a) == <<-debits[a], credits[a]>>    \* mutant: the other order

Sums(a) == <<credits[a], -debits[a]>>

FirstSelect(r) ==
  /\ stage[r] = "idle"
  /\ stage' = [stage EXCEPT ![r] = "between"]
  /\ total' = [total EXCEPT ![r] = Sums(asked[r])[1]]
  /\ UNCHANGED <<vars, asked, answer>>

SecondSelect(r) ==
  /\ stage[r] = "between"
  /\ stage' = [stage EXCEPT ![r] = "answered"]
  /\ answer' = [answer EXCEPT ![r] = total[r] + Sums(asked[r])[2]]
  /\ UNCHANGED <<vars, asked, total>>

(* get_account: no such row, or not the user's; or a failing SELECT.       *)
NoAnswer(r) ==
  /\ stage[r] \in {"idle", "between"}
  /\ stage' = [stage EXCEPT ![r] = "failed"]
  /\ UNCHANGED <<vars, asked, total, answer>>

ReadersLost ==
  /\ stage' = [r \in Readers |-> IF stage[r] = "between" THEN "failed" ELSE stage[r]]
  /\ UNCHANGED <<asked, total, answer>>

BalancesNext ==
  \/ LiveStep /\ UNCHANGED readerVars
  \/ \E r \in Readers : FirstSelect(r) \/ SecondSelect(r) \/ NoAnswer(r)
  \/ Crash /\ ReadersLost

BalancesSpec == BalancesInit /\ [][BalancesNext]_allVars

-----------------------------------------------------------------------------
(***************************************************************************)
(* Properties.                                                             *)
(***************************************************************************)

(* The balance a user is told is never more than the account holds when it *)
(* is told: get_balance_paise sums the credits before the debits, so what  *)
(* is committed between its two SELECTs can only be missing as a credit.   *)
(* It may be less than it ever was, even negative.                         *)
NeverOverstated ==
  [][\A r \in Readers :
       stage[r] # "answered" /\ stage'[r] = "answered"
         => answer'[r] <= Balance(asked[r])]_allVars
=============================================================================
