------------------------------ MODULE RateLimit ------------------------------
(***************************************************************************)
(* app/core/rate_limit.py: a counter in Redis per client and window, which *)
(* login (per IP) and POST /payments (per user) pass before their handler. *)
(* INCR, EXPIRE and TTL are calls of their own, each of which may fail;    *)
(* other requests and the clock go on between them.                        *)
(*                                                                         *)
(* A request computes its window before it waits for INCR, so a late INCR  *)
(* may find its counter expired and start it again.                        *)
(***************************************************************************)
EXTENDS Integers, FiniteSets

CONSTANTS
  Requests,
  Client,       \* request -> whom it is counted against
  Limit,
  Second,       \* ticks of the clock in a second
  Window,       \* window_seconds, in ticks
  MaxTime       \* bound: how far the clock is followed

ASSUME RateLimitAssumption ==
  /\ IsFiniteSet(Requests)
  /\ Limit \in Nat \ {0}
  /\ Second \in Nat \ {0}
  /\ Window \in Nat
  /\ \E seconds \in 1 .. Window : Window = seconds * Second
  /\ MaxTime \in Nat

VARIABLES
  now,       \* time.time(), in ticks, and Redis's clock
  counter,   \* client -> window -> value of the key, 0 where there is none
  expiry,    \* client -> window -> when the key expires, Never without EXPIRE
  stage,     \* request -> where it stands, at last the verdict
  window,    \* request -> the window in its key
  counted,   \* request -> when its INCR was executed, Never before
  retry      \* request -> Retry-After of its 429, in seconds

limitVars == <<now, counter, expiry, stage, window, counted, retry>>

Clients == {Client[r] : r \in Requests}
Windows == 0 .. MaxTime \div Window
Never == -1

Verdicts == {"allowed", "open", "limited", "failed"}

RateLimitTypeOK ==
  /\ now \in 0 .. MaxTime
  /\ counter \in [Clients -> [Windows -> 0 .. Cardinality(Requests)]]
  /\ expiry \in [Clients -> [Windows -> {Never} \cup 1 .. MaxTime + Window]]
  /\ stage \in [Requests -> {"idle", "incr", "expire", "ttl"} \cup Verdicts]
  /\ window \in [Requests -> Windows]
  /\ counted \in [Requests -> {Never} \cup 0 .. MaxTime]
  /\ retry \in [Requests -> Int]

RateLimitInit ==
  /\ now = 0
  /\ counter = [c \in Clients |-> [w \in Windows |-> 0]]
  /\ expiry = [c \in Clients |-> [w \in Windows |-> Never]]
  /\ stage = [r \in Requests |-> "idle"]
  /\ window = [r \in Requests |-> 0]
  /\ counted = [r \in Requests |-> Never]
  /\ retry = [r \in Requests |-> 0]

At(r, from, to) == stage[r] = from /\ stage' = [stage EXCEPT ![r] = to]

Count(r) == counter[Client[r]][window[r]]
Expiry(r) == expiry[Client[r]][window[r]]

-----------------------------------------------------------------------------
Arrive(r) ==
  /\ At(r, "idle", "incr")
  /\ window' = [window EXCEPT ![r] = now \div Window]
  /\ UNCHANGED <<now, counter, expiry, counted, retry>>

(* INCR, which creates the key, on its way or executed.                    *)
Increment(r) ==
  /\ counter' = [counter EXCEPT ![Client[r]][window[r]] = @ + 1]
  /\ counted' = [counted EXCEPT ![r] = now]

(* mutants: one off, either way                                            *)
OverLimitByOne(count) == count > Limit + 1
OverLimitReached(count) == count >= Limit

OverLimit(count) == count > Limit

Judged(count) == IF OverLimit(count) THEN "ttl" ELSE "allowed"

Incr(r) ==
  /\ At(r, "incr", IF Count(r) = 0 THEN "expire" ELSE Judged(Count(r) + 1))
  /\ Increment(r)
  /\ UNCHANGED <<now, expiry, window, retry>>

(* mutant: until the end of the next window                                *)
ExpireTwice(r) ==
  /\ At(r, "expire", Judged(1))
  /\ expiry' = [expiry EXCEPT ![Client[r]][window[r]] = now + 2 * Window]
  /\ UNCHANGED <<now, counter, window, counted, retry>>

(* EXPIRE, for the first of the window.                                    *)
Expire(r) ==
  /\ At(r, "expire", Judged(1))
  /\ expiry' = [expiry EXCEPT ![Client[r]][window[r]] = now + Window]
  /\ UNCHANGED <<now, counter, window, counted, retry>>

(* A RedisError of INCR, executed or not, or of EXPIRE: let through.       *)
FailOpen(r) ==
  /\ \/ At(r, "incr", "open") /\ Increment(r)
     \/ (At(r, "incr", "open") \/ At(r, "expire", "open")) /\ UNCHANGED <<counter, counted>>
  /\ UNCHANGED <<now, expiry, window, retry>>

(* mutant: TTL as it is, -1 for a key that does not expire                 *)
RetryAfterUnclamped(ttl) == ttl

RetryAfter(ttl) == IF ttl > 1 THEN ttl ELSE 1

(* TTL rounds to the nearest second, and is negative for a key that does   *)
(* not expire or is not there.                                             *)
TtlOf(r) ==
  IF Expiry(r) = Never THEN -1 ELSE (Expiry(r) - now + Second \div 2) \div Second

Ttl(r) ==
  /\ At(r, "ttl", "limited")
  /\ retry' = [retry EXCEPT ![r] = RetryAfter(TtlOf(r))]
  /\ UNCHANGED <<now, counter, expiry, window, counted>>

(* TTL is called outside the try: a 500.                                   *)
TtlFails(r) ==
  /\ At(r, "ttl", "failed")
  /\ UNCHANGED <<now, counter, expiry, window, counted, retry>>

(* Time passes, and Redis drops what has expired.                          *)
Tick ==
  /\ now < MaxTime
  /\ now' = now + 1
  /\ counter' = [c \in Clients |-> [w \in Windows |->
                   IF expiry[c][w] = now' THEN 0 ELSE counter[c][w]]]
  /\ expiry' = [c \in Clients |-> [w \in Windows |->
                  IF expiry[c][w] = now' THEN Never ELSE expiry[c][w]]]
  /\ UNCHANGED <<stage, window, counted, retry>>

LimitStep(r) == Incr(r) \/ Expire(r) \/ Ttl(r) \/ FailOpen(r) \/ TtlFails(r)

RateLimitNext == Tick \/ \E r \in Requests : Arrive(r) \/ LimitStep(r)

RateLimitSpec == RateLimitInit /\ [][RateLimitNext]_limitVars

-----------------------------------------------------------------------------
(***************************************************************************)
(* Properties.                                                             *)
(***************************************************************************)
Within(r, from, to) == counted[r] \in from .. to

EndOf(w) == (w + 1) * Window

OnTime(r) == Within(r, window[r] * Window, EndOf(window[r]) - 1)

Passed(r) == stage[r] = "allowed" \/ stage[r] = "expire"

(* While Redis answers, no client passes more than its limit in a window,  *)
(* and so not more than "~2x the limit" in any time as long as one         *)
(* (rate_limit.py:4-10), except for requests that were not counted in      *)
(* their own window: a coroutine held up for that long finds its counter   *)
(* expired.                                                                *)
BurstBounded ==
  \A c \in Clients, t \in 0 .. MaxTime :
    LET passed(S) == {r \in S : Client[r] = c /\ Passed(r) /\ OnTime(r)} IN
    /\ Cardinality(passed({r \in Requests : Within(r, t, t + Window - 1)})) <= 2 * Limit
    /\ Cardinality(passed({r \in Requests : window[r] = t \div Window})) <= Limit

(* Nobody is turned away, or gets an error, for what other clients do or   *)
(* for what he did in another window: at least Limit requests of his own   *)
(* have been counted in the window.                                        *)
OnlyBurstsAreLimited ==
  \A r \in Requests :
    stage[r] \in {"ttl", "limited", "failed"} =>
      Cardinality({x \in Requests \ {r} : /\ Client[x] = Client[r]
                                          /\ window[x] = window[r]
                                          /\ counted[x] # Never}) >= Limit

(* A client is told to come back after a second at least and a window at   *)
(* most.  Where its key expires, who waits for so long comes back less     *)
(* than half a second before its window ends, or later: the wait may be    *)
(* almost a window longer than the window lasts, for a key lives a window  *)
(* from its EXPIRE on.  Where EXPIRE failed it is one second, whatever is  *)
(* left of the window.                                                     *)
RetryAfterTells ==
  [][\A r \in Requests :
       stage[r] = "ttl" /\ stage'[r] = "limited" =>
         LET back == now + retry'[r] * Second IN
         /\ retry'[r] >= 1
         /\ back <= now + Window
         /\ IF Expiry(r) = Never THEN retry'[r] = 1
            ELSE 2 * (EndOf(window[r]) - back) < Second]_limitVars
=============================================================================
