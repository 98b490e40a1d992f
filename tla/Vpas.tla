-------------------------------- MODULE Vpas --------------------------------
(***************************************************************************)
(* VpaService.create_vpa and set_primary as concurrent requests over the   *)
(* vpas table.                                                             *)
(*                                                                         *)
(* A row is named by its address, which a unique index protects; its       *)
(* account never changes and no row is deleted.  Another unique index lets *)
(* one row per account be primary.  SQLite checks both as it executes a    *)
(* statement, and a statement that writes waits until no other session     *)
(* has uncommitted writes.  So what a session writes in its last statement *)
(* and then commits is one step; the demotion that set_primary flushes     *)
(* before it is the only write others may find uncommitted.                *)
(***************************************************************************)
CONSTANTS
  Users,
  Accounts,
  Owner,        \* account -> its user
  Addresses,
  Requests,
  Calls,        \* what requests ask for: see Asks
  NoAccount, NoAddress, NoRequest

(* set_primary names an address, create_vpa the account it is for as well. *)
Asks == [user : Users, address : Addresses, account : Accounts \cup {NoAccount}]

ASSUME VpasAssumption ==
  /\ Owner \in [Accounts -> Users]
  /\ Calls \subseteq Asks
  /\ NoAccount \notin Accounts
  /\ NoAddress \notin Addresses
  /\ NoRequest \notin Requests

VARIABLES
  account,   \* address -> the account of its row, NoAccount where it has none
  primary,   \* the addresses whose committed row has is_primary
  writer,    \* the session with uncommitted writes
  ask,       \* request -> what it asks for, once it has come
  current,   \* request -> the primary address it found
  pc         \* request -> where it stands, at last how it ended

vars == <<account, primary, writer, ask, current, pc>>

NoAsk == [address |-> NoAddress]

Creating == {"checking", "finding", "inserting"}
Moving == {"loading", "seeking", "demoting", "promoting", "refreshing"}
Ended == {"CREATED", "OK", "DUPLICATE_VPA", "REFUSED", "INTERNAL_ERROR"}

VpasTypeOK ==
  /\ account \in [Addresses -> Accounts \cup {NoAccount}]
  /\ primary \subseteq {x \in Addresses : account[x] # NoAccount}
  /\ writer \in Requests \cup {NoRequest}
  /\ ask \in [Requests -> Calls \cup {NoAsk}]
  /\ current \in [Requests -> Addresses \cup {NoAddress}]
  /\ pc \in [Requests -> {"idle"} \cup Creating \cup Moving \cup Ended]

AddressesOf(a) == {x \in Addresses : account[x] = a}

PrimariesOf(a) == AddressesOf(a) \cap primary

OnePrimaryEach ==
  \A a \in Accounts :
    AddressesOf(a) # {} => \E x \in AddressesOf(a) : PrimariesOf(a) = {x}

(* Any table that requests one after the other leave behind.               *)
VpasInit ==
  /\ account \in [Addresses -> Accounts \cup {NoAccount}]
  /\ primary \in SUBSET {x \in Addresses : account[x] # NoAccount}
  /\ OnePrimaryEach
  /\ writer = NoRequest
  /\ ask = [r \in Requests |-> NoAsk]
  /\ current = [r \in Requests |-> NoAddress]
  /\ pc = [r \in Requests |-> "idle"]

-----------------------------------------------------------------------------
Go(r, from, to) == pc[r] = from /\ pc' = [pc EXCEPT ![r] = to]

TableUnchanged == UNCHANGED <<account, primary, writer>>

(* A statement of r that writes finds the database's write lock free.      *)
MayWrite(r) == writer \in {r, NoRequest}

(* get_primary_for_account.                                                *)
Find(r, a) ==
  /\ \E x \in IF PrimariesOf(a) = {} THEN {NoAddress} ELSE PrimariesOf(a) :
       current' = [current EXCEPT ![r] = x]
  /\ UNCHANGED <<account, primary, writer, ask>>

-----------------------------------------------------------------------------
(***************************************************************************)
(* create_vpa.  An unknown account or PSP is refused as another's account. *)
(***************************************************************************)
StartCreate(r) ==
  \E c \in Calls :
    /\ c.account # NoAccount
    /\ Go(r, "idle", IF Owner[c.account] = c.user THEN "checking" ELSE "REFUSED")
    /\ ask' = [ask EXCEPT ![r] = c]
    /\ TableUnchanged /\ UNCHANGED current

CheckAddress(r) ==
  /\ Go(r, "checking",
        IF account[ask[r].address] = NoAccount THEN "finding" ELSE "DUPLICATE_VPA")
  /\ TableUnchanged /\ UNCHANGED <<ask, current>>

FindForCreate(r) == Go(r, "finding", "inserting") /\ Find(r, ask[r].account)

(* mutant: address has no unique index, the check is trusted               *)
InsertUnindexed(r) ==
  LET x == ask[r].address
      a == ask[r].account IN
  /\ Go(r, "inserting", "CREATED")
  /\ MayWrite(r)
  /\ \/ current[r] = NoAddress /\ PrimariesOf(a) = {} /\ primary' = primary \cup {x}
     \/ current[r] # NoAddress /\ primary' = primary \ {x}
  /\ account' = [account EXCEPT ![x] = a]
  /\ UNCHANGED <<writer, ask, current>>

(* The INSERT and the commit.                                              *)
Insert(r) ==
  LET x == ask[r].address
      a == ask[r].account IN
  /\ Go(r, "inserting", "CREATED")
  /\ MayWrite(r)
  /\ account[x] = NoAccount
  /\ \/ current[r] = NoAddress /\ PrimariesOf(a) = {} /\ primary' = primary \cup {x}
     \/ current[r] # NoAddress /\ UNCHANGED primary
  /\ account' = [account EXCEPT ![x] = a]
  /\ UNCHANGED <<writer, ask, current>>

(* One of the unique indexes is violated: an IntegrityError, which nothing *)
(* catches.                                                                *)
InsertRefused(r) ==
  /\ Go(r, "inserting", "INTERNAL_ERROR")
  /\ MayWrite(r)
  /\ \/ account[ask[r].address] # NoAccount
     \/ current[r] = NoAddress /\ PrimariesOf(ask[r].account) # {}
  /\ TableUnchanged /\ UNCHANGED <<ask, current>>

-----------------------------------------------------------------------------
(***************************************************************************)
(* set_primary.  An unknown address is refused as another's; one that is   *)
(* primary when it is loaded is returned as it is.                         *)
(***************************************************************************)
StartSetPrimary(r) ==
  \E c \in Calls :
    /\ c.account = NoAccount
    /\ Go(r, "idle", "loading")
    /\ ask' = [ask EXCEPT ![r] = c]
    /\ TableUnchanged /\ UNCHANGED current

(* mutant: an address that nobody has is not refused                       *)
OwnAddressUnchecked(r) ==
  LET a == account[ask[r].address] IN a = NoAccount \/ Owner[a] = ask[r].user

OwnAddress(r) ==
  LET a == account[ask[r].address] IN a # NoAccount /\ Owner[a] = ask[r].user

LoadVpa(r) ==
  /\ Go(r, "loading", IF ~OwnAddress(r) THEN "REFUSED"
                      ELSE IF ask[r].address \in primary THEN "OK" ELSE "seeking")
  /\ TableUnchanged /\ UNCHANGED <<ask, current>>

FindForMove(r) == Go(r, "seeking", "demoting") /\ Find(r, account[ask[r].address])

(* Where the row loaded above has become the primary one meanwhile, the    *)
(* SELECT returns the loaded object: its is_primary is False already, so   *)
(* setting it writes nothing.                                              *)
Demotes(r) == current[r] \notin {NoAddress, ask[r].address}

(* mutant: the demotion is committed by itself                             *)
DemoteCommitting(r) ==
  /\ Go(r, "demoting", "promoting")
  /\ Demotes(r) => MayWrite(r)
  /\ primary' = IF Demotes(r) THEN primary \ {current[r]} ELSE primary
  /\ UNCHANGED <<account, writer, ask, current>>

(* The UPDATE of the demotion is flushed.                                  *)
Demote(r) ==
  /\ Go(r, "demoting", "promoting")
  /\ Demotes(r) => MayWrite(r)
  /\ writer' = IF Demotes(r) THEN r ELSE writer
  /\ UNCHANGED <<account, primary, ask, current>>

(* The table as the session itself sees it once its demotion is flushed.   *)
Remaining(r) == IF writer = r THEN primary \ {current[r]} ELSE primary

Blocked(r) ==
  \E x \in Remaining(r) \ {ask[r].address} : account[x] = account[ask[r].address]

(* The UPDATE of the promotion, and the commit of both.                    *)
Promote(r) ==
  /\ Go(r, "promoting", "refreshing")
  /\ MayWrite(r)
  /\ ~Blocked(r)
  /\ primary' = Remaining(r) \cup {ask[r].address}
  /\ writer' = NoRequest
  /\ UNCHANGED <<account, ask, current>>

(* Somebody else's promotion came first: an IntegrityError, and the        *)
(* demotion is rolled back.                                                *)
PromoteRefused(r) ==
  /\ Go(r, "promoting", "INTERNAL_ERROR")
  /\ MayWrite(r)
  /\ Blocked(r)
  /\ writer' = NoRequest
  /\ UNCHANGED <<account, primary, ask, current>>

(* The refresh after the commit reads what is_primary is by then.          *)
Refresh(r) ==
  /\ Go(r, "refreshing", "OK")
  /\ TableUnchanged /\ UNCHANGED <<ask, current>>

-----------------------------------------------------------------------------
(* mutant: the session is not closed when its request fails                *)
DbErrorUnclosed(r) ==
  /\ pc[r] \in Creating \cup Moving
  /\ pc' = [pc EXCEPT ![r] = "INTERNAL_ERROR"]
  /\ UNCHANGED <<account, primary, writer, ask, current>>

(* A statement fails (a busy database, a full disk) or the server dies:    *)
(* the session rolls back what it has not committed.                       *)
DbError(r) ==
  /\ pc[r] \in Creating \cup Moving
  /\ pc' = [pc EXCEPT ![r] = "INTERNAL_ERROR"]
  /\ writer' = IF writer = r THEN NoRequest ELSE writer
  /\ UNCHANGED <<account, primary, ask, current>>

CreateStep(r) ==
  CheckAddress(r) \/ FindForCreate(r) \/ Insert(r) \/ InsertRefused(r)

MoveStep(r) ==
  \/ LoadVpa(r) \/ FindForMove(r) \/ Demote(r)
  \/ Promote(r) \/ PromoteRefused(r) \/ Refresh(r)

Done == (\A r \in Requests : pc[r] \in Ended) /\ UNCHANGED vars

VpasNext ==
  \/ \E r \in Requests :
       \/ StartCreate(r) \/ StartSetPrimary(r)
       \/ CreateStep(r) \/ MoveStep(r) \/ DbError(r)
  \/ Done

VpasSpec == VpasInit /\ [][VpasNext]_vars

(* The event loop runs a request on, and SQLite lets some waiting writer   *)
(* in, as long as its connection does not give up, which is a DbError.     *)
VpasFairSpec ==
  VpasSpec /\ \A r \in Requests : WF_vars(CreateStep(r)) /\ WF_vars(MoveStep(r))

-----------------------------------------------------------------------------
(***************************************************************************)
(* Properties.                                                             *)
(***************************************************************************)
(* Whatever creations and moves interleave, fail or lose a race, a         *)
(* committed account with addresses has one primary address: the index     *)
(* allows no second one, and the check before the INSERT and the           *)
(* transaction around the two UPDATEs never leave it without one.          *)
OnePrimary == OnePrimaryEach

(* An address, once somebody was told it is his, resolves to the same      *)
(* account for ever: no later creation of the same address takes it, so a  *)
(* payment to it reaches the account it was resolved to.                   *)
AddressKeepsAccount ==
  [][\A x \in Addresses : account[x] # NoAccount => account'[x] = account[x]]_vars

(* What makes it inductive: a request knows an address of its account, or  *)
(* found none; the uncommitted demotion is of the account's other address. *)
Knows(r, a) == current[r] # NoAddress => current[r] \in AddressesOf(a)

RequestInv(r) ==
  /\ pc[r] \in Creating =>
       ask[r] \in Calls /\ ask[r].account \in Accounts
  /\ pc[r] = "inserting" => Knows(r, ask[r].account)
  /\ pc[r] \in Moving => ask[r] \in Calls
  /\ pc[r] \in {"seeking", "demoting", "promoting"} => OwnAddress(r)
  /\ pc[r] \in {"demoting", "promoting"} => Knows(r, account[ask[r].address])
  /\ writer = r => pc[r] = "promoting" /\ Demotes(r)

VpasInv == VpasTypeOK /\ OnePrimary /\ \A r \in Requests : RequestInv(r)

(* Every request that has begun ends: whoever waits for the write lock     *)
(* held through a demotion gets it, however the holder ends.               *)
VpaRequestsEnd == \A r \in Requests : pc[r] # "idle" ~> pc[r] \in Ended
=============================================================================
