--------------------------- MODULE RateLimitProofs ---------------------------
(***************************************************************************)
(* The limiter counts right.  What ties a verdict to the requests that     *)
(* earned it is the counter, and the counter is only worth something until *)
(* its key expires: a key outlives its window (KeysOutlive), so that who   *)
(* passes on time is among those the counter still counts (CountersHold).  *)
(***************************************************************************)
EXTENDS RateLimit, FiniteSetTheorems, TLAPS

CountedIn(c, w) ==
  {x \in Requests : Client[x] = c /\ window[x] = w /\ counted[x] # Never}

PassedIn(c, w) ==
  {x \in Requests : Client[x] = c /\ window[x] = w /\ Passed(x) /\ OnTime(x)}

(* A request is in its window, or late, once it has arrived.               *)
RequestsHold ==
  \A r \in Requests :
    /\ stage[r] \in {"idle", "incr"} => counted[r] = Never
    /\ stage[r] # "idle" => window[r] * Window <= now
    /\ counted[r] # Never => counted[r] \in window[r] * Window .. now
    /\ stage[r] \in {"ttl", "limited", "failed"} =>
         Cardinality(CountedIn(Client[r], window[r]) \ {r}) >= Limit

KeysOutlive ==
  \A c \in Clients, w \in Windows :
    expiry[c][w] # Never => /\ expiry[c][w] \in now + 1 .. now + Window
                            /\ EndOf(w) <= expiry[c][w]

CountersHold ==
  \A c \in Clients, w \in Windows :
    /\ counter[c][w] <= Cardinality(CountedIn(c, w))
    /\ Cardinality(PassedIn(c, w)) <= Limit
    /\ now < EndOf(w) => Cardinality(PassedIn(c, w)) <= counter[c][w]

LimitInv == RateLimitTypeOK /\ RequestsHold /\ KeysOutlive /\ CountersHold

-----------------------------------------------------------------------------
(* The windows divide the time.                                            *)
LEMMA Division ==
  ASSUME NEW t \in Nat
  PROVE  /\ t \div Window \in Nat
         /\ (t \div Window) * Window <= t
         /\ t < EndOf(t \div Window)
<1>1. /\ t \div Window \in Int /\ t % Window \in 0 .. Window - 1
      /\ t = (Window * (t \div Window)) + (t % Window)
  <2>1. Window \in Nat \ {0} BY RateLimitAssumption
  <2> QED BY <2>1
<1> DEFINE q == t \div Window
<1> HIDE DEF q
<1>2. q * Window <= t /\ t < q * Window + Window
  BY <1>1, RateLimitAssumption DEF q
<1>3. q >= 0
  BY <1>1, <1>2, RateLimitAssumption DEF q
<1> QED BY <1>1, <1>2, <1>3, RateLimitAssumption DEF q, EndOf

LEMMA Ordered ==
  ASSUME NEW a \in Int, NEW b \in Int, a * Window < b * Window
  PROVE  a < b
BY RateLimitAssumption

LEMMA DivisionGrows ==
  ASSUME NEW t \in Nat, NEW u \in Nat, t <= u
  PROVE  t \div Window <= u \div Window
<1> DEFINE q == t \div Window
           p == u \div Window
<1>1. q \in Nat /\ p \in Nat /\ q * Window <= t /\ u < (p + 1) * Window
  BY Division DEF EndOf
<1> HIDE DEF p, q
<1>2. q * Window < (p + 1) * Window
  BY <1>1, RateLimitAssumption
<1>3. q < p + 1
  BY <1>1, <1>2, Ordered
<1> QED BY <1>1, <1>3 DEF p, q

LEMMA EndIs == \A w \in Int : EndOf(w) = w * Window + Window /\ EndOf(w) \in Int
BY RateLimitAssumption DEF EndOf

(* Sets of requests.                                                       *)
LEMMA Sizes ==
  ASSUME NEW S \in SUBSET Requests
  PROVE  /\ IsFiniteSet(S) /\ Cardinality(S) \in Nat
         /\ Cardinality(S) <= Cardinality(Requests)
         /\ Cardinality(Requests) \in Nat
         /\ \A T \in SUBSET S : Cardinality(T) <= Cardinality(S)
         /\ \A r \in Requests \ S : Cardinality(S \cup {r}) = Cardinality(S) + 1
BY RateLimitAssumption, FS_Subset, FS_AddElement, FS_CardinalityType

LEMMA ArriveStep ==
  ASSUME LimitInv, NEW r \in Requests, Arrive(r)
  PROVE  LimitInv'
<1> DEFINE w0 == now \div Window
<1>1. /\ stage[r] = "idle" /\ stage' = [stage EXCEPT ![r] = "incr"]
      /\ window' = [window EXCEPT ![r] = w0]
      /\ UNCHANGED <<now, counter, expiry, counted, retry>>
  BY DEF Arrive, At
<1>2. w0 \in Windows /\ w0 * Window <= now
  <2>0. now \in Nat /\ now <= MaxTime /\ MaxTime \in Nat
    BY RateLimitAssumption DEF LimitInv, RateLimitTypeOK
  <2>1. w0 \in Nat /\ MaxTime \div Window \in Nat
    BY <2>0, Division
  <2>2. w0 <= MaxTime \div Window
    BY <2>0, DivisionGrows
  <2>3. w0 * Window <= now
    BY <2>0, Division
  <2> QED BY <2>1, <2>2, <2>3 DEF Windows
<1> HIDE DEF w0
<1>3. RateLimitTypeOK'
  BY <1>1, <1>2 DEF LimitInv, RateLimitTypeOK
<1>4. counted[r] = Never /\ ~Passed(r)
  BY <1>1 DEF LimitInv, RequestsHold, Passed
<1>5. /\ stage'[r] = "incr" /\ window'[r] = w0
      /\ \A x \in Requests \ {r} : stage'[x] = stage[x] /\ window'[x] = window[x]
  BY <1>1 DEF LimitInv, RateLimitTypeOK
<1>6. \A c, w : CountedIn(c, w)' = CountedIn(c, w) /\ PassedIn(c, w)' = PassedIn(c, w)
  BY <1>1, <1>4, <1>5 DEF CountedIn, PassedIn, Passed, OnTime, Within
<1>7. RequestsHold'
  BY <1>1, <1>2, <1>4, <1>5, <1>6 DEF LimitInv, RequestsHold
<1>8. KeysOutlive' /\ CountersHold'
  BY <1>1, <1>6 DEF LimitInv, KeysOutlive, CountersHold, EndOf
<1> QED BY <1>3, <1>7, <1>8 DEF LimitInv

(* A step that counts nothing and lets nobody pass.                        *)
LEMMA StandingStep ==
  ASSUME LimitInv, NEW r \in Requests, NEW to \in Verdicts,
         At(r, stage[r], to),
         UNCHANGED <<now, counter, window, counted>>,
         RateLimitTypeOK',
         stage[r] # "idle",
         to = "allowed" => Passed(r),
         to \in {"limited", "failed"} => stage[r] = "ttl",
         KeysOutlive'
  PROVE  LimitInv'
<1>1. /\ stage'[r] = to
      /\ \A x \in Requests \ {r} : stage'[x] = stage[x]
  BY DEF LimitInv, RateLimitTypeOK, At
<1>2. \A c, w : CountedIn(c, w)' = CountedIn(c, w)
  BY DEF CountedIn
<1>3. \A c, w : PassedIn(c, w)' \subseteq PassedIn(c, w)
  BY <1>1 DEF PassedIn, Passed, OnTime, Within, Verdicts
<1>4. \A c, w : /\ Cardinality(PassedIn(c, w)') <= Cardinality(PassedIn(c, w))
                /\ Cardinality(PassedIn(c, w)') \in Nat
                /\ Cardinality(PassedIn(c, w)) \in Nat
  <2> TAKE c, w
  <2>1. PassedIn(c, w) \in SUBSET Requests /\ PassedIn(c, w)' \in SUBSET Requests
    BY DEF PassedIn
  <2> QED BY <2>1, <1>3, Sizes
<1>5. RequestsHold'
  BY <1>1, <1>2 DEF LimitInv, RequestsHold, Verdicts
<1>6. CountersHold'
  <2> SUFFICES ASSUME NEW c \in Clients, NEW w \in Windows
               PROVE  /\ counter'[c][w] <= Cardinality(CountedIn(c, w)')
                      /\ Cardinality(PassedIn(c, w)') <= Limit
                      /\ now < EndOf(w) => Cardinality(PassedIn(c, w)') <= counter'[c][w]
    BY DEF CountersHold, EndOf
  <2>1. /\ counter[c][w] <= Cardinality(CountedIn(c, w))
        /\ Cardinality(PassedIn(c, w)) <= Limit
        /\ now < EndOf(w) => Cardinality(PassedIn(c, w)) <= counter[c][w]
        /\ counter[c][w] \in Nat /\ Limit \in Nat
    BY RateLimitAssumption DEF LimitInv, CountersHold, RateLimitTypeOK
  <2> QED BY <2>1, <1>2, <1>4
<1> QED BY <1>5, <1>6 DEF LimitInv

(* INCR executed: the request is one of those its counter counts, and it   *)
(* passes only if it is one of the first Limit.                            *)
LEMMA IncrementStep ==
  ASSUME LimitInv, NEW r \in Requests, NEW to \in {"open", "ttl", "allowed", "expire"},
         At(r, "incr", to), Increment(r), UNCHANGED <<now, expiry, window, retry>>,
         to \in {"allowed", "expire"} => Count(r) + 1 <= Limit,
         to = "ttl" => Count(r) + 1 > Limit
  PROVE  LimitInv'
<1> DEFINE c0 == Client[r]
           w0 == window[r]
<1>1. /\ c0 \in Clients /\ w0 \in Windows /\ w0 \in Nat
      /\ Limit \in Nat /\ Window \in Nat \ {0} /\ now \in Nat
  BY RateLimitAssumption DEF Clients, LimitInv, RateLimitTypeOK, Windows
<1>2. /\ stage[r] = "incr" /\ counted[r] = Never
      /\ w0 * Window <= now
      /\ Count(r) = counter[c0][w0] /\ Count(r) \in Nat
      /\ Count(r) <= Cardinality(CountedIn(c0, w0))
  <2>1. /\ stage[r] = "incr" /\ counted[r] = Never
        /\ w0 * Window <= now
    BY DEF At, LimitInv, RequestsHold
  <2>2. Count(r) = counter[c0][w0]
    BY DEF Count
  <2> HIDE DEF c0, w0
  <2>3. counter[c0][w0] \in 0 .. Cardinality(Requests)
    BY <1>1 DEF LimitInv, RateLimitTypeOK
  <2>4. counter[c0][w0] <= Cardinality(CountedIn(c0, w0))
    BY <1>1 DEF LimitInv, CountersHold
  <2> QED BY <2>1, <2>2, <2>3, <2>4
<1>3. /\ stage'[r] = to
      /\ \A x \in Requests \ {r} : stage'[x] = stage[x] /\ counted'[x] = counted[x]
      /\ counted'[r] = now
      /\ counter'[c0][w0] = counter[c0][w0] + 1
      /\ \A c \in Clients, w \in Windows :
           c # c0 \/ w # w0 => counter'[c][w] = counter[c][w]
  BY <1>1 DEF At, Increment, LimitInv, RateLimitTypeOK
<1>4. /\ r \notin CountedIn(c0, w0)
      /\ CountedIn(c0, w0)' = CountedIn(c0, w0) \cup {r}
      /\ CountedIn(c0, w0)' \ {r} = CountedIn(c0, w0)
      /\ \A c, w : c # c0 \/ w # w0 => CountedIn(c, w)' = CountedIn(c, w)
  BY <1>1, <1>2, <1>3 DEF CountedIn, Never
<1>5. /\ r \notin PassedIn(c0, w0)
      /\ to \in {"allowed", "expire"} /\ now < EndOf(w0) =>
           PassedIn(c0, w0)' = PassedIn(c0, w0) \cup {r}
      /\ ~(to \in {"allowed", "expire"} /\ now < EndOf(w0)) =>
           PassedIn(c0, w0)' = PassedIn(c0, w0)
      /\ \A c, w : c # c0 \/ w # w0 => PassedIn(c, w)' = PassedIn(c, w)
  <2>1. ~Passed(r) /\ (Passed(r)' <=> to \in {"allowed", "expire"})
    BY <1>2, <1>3 DEF Passed
  <2>2. OnTime(r)' <=> now < EndOf(w0)
    <3>1. EndOf(w0) \in Int /\ w0 * Window \in Int
      BY <1>1, EndIs
    <3> QED BY <3>1, <1>1, <1>2, <1>3 DEF OnTime, Within
  <2>3. \A x \in Requests \ {r} :
          (Passed(x) /\ OnTime(x))' <=> Passed(x) /\ OnTime(x)
    BY <1>3 DEF Passed, OnTime, Within
  <2> QED BY <2>1, <2>2, <2>3 DEF PassedIn
<1>6. \A c, w : /\ CountedIn(c, w) \in SUBSET Requests /\ PassedIn(c, w) \in SUBSET Requests
                /\ CountedIn(c, w)' \in SUBSET Requests
  BY DEF CountedIn, PassedIn
<1>7. /\ Cardinality(CountedIn(c0, w0)') = Cardinality(CountedIn(c0, w0)) + 1
      /\ Cardinality(CountedIn(c0, w0)) \in Nat
      /\ Cardinality(CountedIn(c0, w0)') <= Cardinality(Requests)
      /\ Cardinality(PassedIn(c0, w0) \cup {r}) = Cardinality(PassedIn(c0, w0)) + 1
      /\ Cardinality(PassedIn(c0, w0)) \in Nat
      /\ Cardinality(Requests) \in Nat
  BY <1>4, <1>5, <1>6, Sizes
<1>8. RateLimitTypeOK'
  <2>1. counter'[c0][w0] \in 0 .. Cardinality(Requests)
    BY <1>2, <1>3, <1>7
  <2>2. counter' \in [Clients -> [Windows -> 0 .. Cardinality(Requests)]]
    <3>1. /\ counter' = [counter EXCEPT ![c0] = [counter[c0] EXCEPT ![w0] = counter[c0][w0] + 1]]
          /\ counter \in [Clients -> [Windows -> 0 .. Cardinality(Requests)]]
      BY DEF Increment, LimitInv, RateLimitTypeOK
    <3> QED BY <3>1, <2>1, <1>1, <1>3
  <2>3. counted' \in [Requests -> {Never} \cup 0 .. MaxTime]
    BY DEF Increment, LimitInv, RateLimitTypeOK
  <2> QED BY <2>2, <2>3 DEF At, LimitInv, RateLimitTypeOK, Verdicts
<1>9. RequestsHold'
  <2> SUFFICES ASSUME NEW x \in Requests
               PROVE  (/\ stage[x] \in {"idle", "incr"} => counted[x] = Never
                       /\ stage[x] # "idle" => window[x] * Window <= now
                       /\ counted[x] # Never => counted[x] \in window[x] * Window .. now
                       /\ stage[x] \in {"ttl", "limited", "failed"} =>
                            Cardinality(CountedIn(Client[x], window[x]) \ {x}) >= Limit)'
    BY DEF RequestsHold
  <2>1. CASE x = r
    <3>1. stage'[r] = "ttl" => Cardinality(CountedIn(c0, w0)' \ {r}) >= Limit
      <4>1. CountedIn(c0, w0)' \ {r} = CountedIn(c0, w0)
        BY <1>4
      <4>2. to = "ttl" => Cardinality(CountedIn(c0, w0)) >= Limit
        BY <1>1, <1>2, <1>7
      <4> QED BY <4>1, <4>2, <1>3
    <3>2. now \in w0 * Window .. now
      BY <1>1, <1>2
    <3> QED BY <2>1, <3>1, <3>2, <1>2, <1>3
  <2>2. CASE x # r
    <3>1. \A c, w : CountedIn(c, w) \ {x} \subseteq CountedIn(c, w)' \ {x}
      BY <1>4
    <3>2. \A c, w : /\ Cardinality(CountedIn(c, w) \ {x}) <= Cardinality(CountedIn(c, w)' \ {x})
                    /\ Cardinality(CountedIn(c, w) \ {x}) \in Nat
                    /\ Cardinality(CountedIn(c, w)' \ {x}) \in Nat
      <4> TAKE c, w
      <4> DEFINE S == CountedIn(c, w)' \ {x}
                 T == CountedIn(c, w) \ {x}
      <4>1. S \in SUBSET Requests /\ T \in SUBSET S
        BY <1>6, <3>1
      <4> HIDE DEF S, T
      <4>2. Cardinality(T) <= Cardinality(S) /\ Cardinality(T) \in Nat /\ Cardinality(S) \in Nat
        BY <4>1, Sizes
      <4> QED BY <4>2 DEF S, T
    <3>3. stage[x] \in {"ttl", "limited", "failed"} =>
             Cardinality(CountedIn(Client[x], window[x]) \ {x}) >= Limit
      BY DEF LimitInv, RequestsHold
    <3>4. stage[x] \in {"ttl", "limited", "failed"} =>
             Cardinality(CountedIn(Client[x], window[x])' \ {x}) >= Limit
      BY <3>2, <3>3, <1>1
    <3> QED BY <2>2, <3>4, <1>3 DEF LimitInv, RequestsHold
  <2> QED BY <2>1, <2>2
<1>10. CountersHold'
  <2> SUFFICES ASSUME NEW c \in Clients, NEW w \in Windows
               PROVE  /\ counter'[c][w] <= Cardinality(CountedIn(c, w)')
                      /\ Cardinality(PassedIn(c, w)') <= Limit
                      /\ now < EndOf(w) => Cardinality(PassedIn(c, w)') <= counter'[c][w]
    BY DEF CountersHold, EndOf
  <2>1. /\ counter[c][w] <= Cardinality(CountedIn(c, w))
        /\ Cardinality(PassedIn(c, w)) <= Limit
        /\ now < EndOf(w) => Cardinality(PassedIn(c, w)) <= counter[c][w]
    BY DEF LimitInv, CountersHold
  <2>2. CASE c # c0 \/ w # w0
    BY <2>1, <2>2, <1>3, <1>4, <1>5
  <2>3. CASE c = c0 /\ w = w0
    <3>1. counter'[c0][w0] <= Cardinality(CountedIn(c0, w0)')
      BY <1>2, <1>3, <1>7
    <3>2. CASE to \in {"allowed", "expire"} /\ now < EndOf(w0)
      <4>1. /\ Cardinality(PassedIn(c0, w0)') = Cardinality(PassedIn(c0, w0)) + 1
            /\ Cardinality(PassedIn(c0, w0)) \in Nat
        BY <3>2, <1>5, <1>7
      <4>2. Cardinality(PassedIn(c0, w0)) <= Count(r) /\ counter'[c0][w0] = Count(r) + 1
        BY <2>1, <2>3, <3>2, <1>2, <1>3
      <4>3. Cardinality(PassedIn(c0, w0)') <= Count(r) + 1 /\ Count(r) + 1 <= Limit
        BY <3>2, <4>1, <4>2, <1>2
      <4>4. Cardinality(PassedIn(c0, w0)') <= Limit
        BY <4>1, <4>3, <1>1, <1>2
      <4> QED BY <2>3, <3>1, <4>2, <4>3, <4>4
    <3>3. CASE ~(to \in {"allowed", "expire"} /\ now < EndOf(w0))
      <4>1. PassedIn(c0, w0)' = PassedIn(c0, w0)
        BY <3>3, <1>5
      <4> QED BY <2>1, <2>3, <3>1, <4>1, <1>1, <1>2, <1>3, <1>7
    <3> QED BY <3>2, <3>3
  <2> QED BY <2>2, <2>3
<1>11. KeysOutlive'
  BY DEF LimitInv, KeysOutlive, EndOf
<1> QED BY <1>8, <1>9, <1>10, <1>11 DEF LimitInv

LEMMA LimitStepKeeps ==
  ASSUME LimitInv, NEW r \in Requests, LimitStep(r)
  PROVE  LimitInv'
<1>1. /\ now \in Nat /\ now <= MaxTime /\ MaxTime \in Nat
      /\ Limit \in Nat \ {0} /\ Window \in Nat \ {0}
      /\ Client[r] \in Clients /\ window[r] \in Windows
  BY RateLimitAssumption DEF LimitInv, RateLimitTypeOK, Clients
<1>2. Count(r) \in Nat
  BY <1>1, Sizes DEF LimitInv, RateLimitTypeOK, Count
<1>3. UNCHANGED <<expiry, now>> => KeysOutlive'
  BY DEF LimitInv, KeysOutlive, EndOf
<1>4. CASE Incr(r)
  <2> DEFINE to == IF Count(r) = 0 THEN "expire" ELSE Judged(Count(r) + 1)
  <2>1. /\ to \in {"open", "ttl", "allowed", "expire"}
        /\ to \in {"allowed", "expire"} => Count(r) + 1 <= Limit
        /\ to = "ttl" => Count(r) + 1 > Limit
    BY <1>1, <1>2 DEF Judged, OverLimit
  <2>2. /\ At(r, "incr", to) /\ Increment(r)
        /\ UNCHANGED <<now, expiry, window, retry>>
    BY <1>4 DEF Incr
  <2> HIDE DEF to
  <2> QED BY <2>1, <2>2, IncrementStep
<1>5. CASE Expire(r)
  <2>1. Judged(1) = "allowed"
    BY <1>1 DEF Judged, OverLimit
  <2>2. /\ stage[r] = "expire" /\ stage' = [stage EXCEPT ![r] = "allowed"]
        /\ expiry' = [expiry EXCEPT ![Client[r]][window[r]] = now + Window]
        /\ UNCHANGED <<now, counter, window, counted, retry>>
    BY <1>5, <2>1 DEF Expire, At
  <2>3. EndOf(window[r]) <= now + Window
    <3>1. window[r] * Window <= now
      BY <2>2 DEF LimitInv, RequestsHold
    <3>2. window[r] \in Int
      BY <1>1 DEF Windows
    <3>3. EndOf(window[r]) = window[r] * Window + Window /\ window[r] * Window \in Int
      BY <1>1, <3>2, EndIs
    <3> QED BY <1>1, <3>1, <3>3
  <2>4. \A c \in Clients, w \in Windows :
          \/ expiry'[c][w] = expiry[c][w]
          \/ w = window[r] /\ expiry'[c][w] = now + Window
    BY <1>1, <2>2 DEF LimitInv, RateLimitTypeOK
  <2>5. KeysOutlive'
    BY <1>1, <2>2, <2>3, <2>4 DEF LimitInv, KeysOutlive, EndOf
  <2>6. RateLimitTypeOK'
    <3>1. now + Window \in 1 .. MaxTime + Window
      BY <1>1
    <3>2. expiry' \in [Clients -> [Windows -> {Never} \cup 1 .. MaxTime + Window]]
      BY <1>1, <2>2, <3>1 DEF LimitInv, RateLimitTypeOK
    <3> QED BY <2>2, <3>2 DEF LimitInv, RateLimitTypeOK, Verdicts
  <2>7. /\ Passed(r) /\ At(r, stage[r], "allowed") /\ "allowed" \in Verdicts
        /\ stage[r] # "idle"
    BY <2>2 DEF Passed, At, Verdicts
  <2> QED BY <2>2, <2>5, <2>6, <2>7, StandingStep
<1>6. CASE Ttl(r)
  <2>1. /\ stage[r] = "ttl" /\ stage' = [stage EXCEPT ![r] = "limited"]
        /\ UNCHANGED <<now, counter, expiry, window, counted>>
    BY <1>6 DEF Ttl, At
  <2>2. retry' \in [Requests -> Int]
    <3>1. Expiry(r) = Never \/ Expiry(r) \in Int
      BY <1>1 DEF Expiry, LimitInv, KeysOutlive
    <3>2. Second \in Nat \ {0} /\ Second \div 2 \in Int /\ now \in Int
      BY RateLimitAssumption DEF LimitInv, RateLimitTypeOK
    <3>3. TtlOf(r) \in Int
      <4> DEFINE x == Expiry(r) - now + Second \div 2
      <4>1. CASE Expiry(r) = Never BY <4>1 DEF TtlOf
      <4>2. CASE Expiry(r) # Never
        <5>1. x \in Int BY <3>1, <3>2, <4>2
        <5>2. TtlOf(r) = x \div Second BY <4>2 DEF TtlOf
        <5> HIDE DEF x
        <5> QED BY <3>2, <5>1, <5>2
      <4> QED BY <4>1, <4>2
    <3>4. retry' = [retry EXCEPT ![r] = RetryAfter(TtlOf(r))]
      BY <1>6 DEF Ttl
    <3> QED BY <1>1, <3>3, <3>4 DEF RetryAfter, LimitInv, RateLimitTypeOK
  <2>3. RateLimitTypeOK'
    BY <2>1, <2>2 DEF LimitInv, RateLimitTypeOK, Verdicts
  <2>4. KeysOutlive' BY <1>3, <2>1
  <2>5. At(r, stage[r], "limited") /\ "limited" \in Verdicts /\ stage[r] # "idle"
    BY <2>1 DEF At, Verdicts
  <2> QED BY <2>1, <2>3, <2>4, <2>5, StandingStep
<1>7. CASE TtlFails(r)
  <2>1. /\ stage[r] = "ttl" /\ stage' = [stage EXCEPT ![r] = "failed"]
        /\ UNCHANGED <<now, counter, expiry, window, counted, retry>>
    BY <1>7 DEF TtlFails, At
  <2>2. RateLimitTypeOK'
    BY <2>1 DEF LimitInv, RateLimitTypeOK, Verdicts
  <2>3. KeysOutlive' BY <1>3, <2>1
  <2>4. At(r, stage[r], "failed") /\ "failed" \in Verdicts /\ stage[r] # "idle"
    BY <2>1 DEF At, Verdicts
  <2> QED BY <2>1, <2>2, <2>3, <2>4, StandingStep
<1>8. CASE FailOpen(r)
  <2>1. CASE At(r, "incr", "open") /\ Increment(r)
    BY <1>8, <2>1, IncrementStep DEF FailOpen
  <2>2. CASE /\ At(r, "incr", "open") \/ At(r, "expire", "open")
             /\ UNCHANGED <<counter, counted>>
    <3>1. /\ stage[r] \in {"incr", "expire"} /\ stage' = [stage EXCEPT ![r] = "open"]
          /\ UNCHANGED <<now, counter, expiry, window, counted, retry>>
      BY <1>8, <2>2 DEF FailOpen, At
    <3>2. RateLimitTypeOK'
      BY <3>1 DEF LimitInv, RateLimitTypeOK, Verdicts
    <3>3. KeysOutlive' BY <1>3, <3>1
    <3>4. At(r, stage[r], "open") /\ "open" \in Verdicts /\ stage[r] # "idle"
      BY <3>1 DEF At, Verdicts
    <3> QED BY <3>1, <3>2, <3>3, <3>4, StandingStep
  <2> QED BY <1>8, <2>1, <2>2 DEF FailOpen
<1> QED BY <1>4, <1>5, <1>6, <1>7, <1>8 DEF LimitStep

(* A key that expires does so after its window, when nobody can pass in it *)
(* on time any more.                                                       *)
LEMMA TickKeeps ==
  ASSUME LimitInv, Tick
  PROVE  LimitInv'
<1>1. /\ now' = now + 1 /\ now' <= MaxTime /\ now \in Nat
      /\ Window \in Nat \ {0} /\ Limit \in Nat /\ MaxTime \in Nat
      /\ UNCHANGED <<stage, window, counted, retry>>
  BY RateLimitAssumption DEF Tick, LimitInv, RateLimitTypeOK
<1>2. \A c \in Clients, w \in Windows :
        IF expiry[c][w] = now'
        THEN counter'[c][w] = 0 /\ expiry'[c][w] = Never
        ELSE counter'[c][w] = counter[c][w] /\ expiry'[c][w] = expiry[c][w]
  BY DEF Tick
<1>3. \A c, w : CountedIn(c, w)' = CountedIn(c, w) /\ PassedIn(c, w)' = PassedIn(c, w)
  BY <1>1 DEF CountedIn, PassedIn, Passed, OnTime, Within
<1>4. \A c, w : /\ Cardinality(CountedIn(c, w)) \in Nat
                /\ Cardinality(PassedIn(c, w)) \in Nat
                /\ Cardinality(Requests) \in Nat
  <2> TAKE c, w
  <2>1. CountedIn(c, w) \in SUBSET Requests /\ PassedIn(c, w) \in SUBSET Requests
    BY DEF CountedIn, PassedIn
  <2> QED BY <2>1, Sizes
<1>5. RateLimitTypeOK'
  <2>1. counter' \in [Clients -> [Windows -> 0 .. Cardinality(Requests)]]
    <3> DEFINE F(c, w) == IF expiry[c][w] = now' THEN 0 ELSE counter[c][w]
    <3>0. Cardinality(Requests) \in Nat
      BY <1>4
    <3>1. \A c \in Clients, w \in Windows : F(c, w) \in 0 .. Cardinality(Requests)
      BY <3>0 DEF LimitInv, RateLimitTypeOK
    <3>2. counter' = [c \in Clients |-> [w \in Windows |-> F(c, w)]]
      BY DEF Tick
    <3> HIDE DEF F
    <3> QED BY <3>1, <3>2
  <2>2. expiry' \in [Clients -> [Windows -> {Never} \cup 1 .. MaxTime + Window]]
    BY DEF Tick, LimitInv, RateLimitTypeOK
  <2> QED BY <1>1, <2>1, <2>2 DEF LimitInv, RateLimitTypeOK
<1>6. RequestsHold'
  <2> SUFFICES ASSUME NEW x \in Requests
               PROVE  (/\ stage[x] \in {"idle", "incr"} => counted[x] = Never
                       /\ stage[x] # "idle" => window[x] * Window <= now
                       /\ counted[x] # Never => counted[x] \in window[x] * Window .. now
                       /\ stage[x] \in {"ttl", "limited", "failed"} =>
                            Cardinality(CountedIn(Client[x], window[x]) \ {x}) >= Limit)'
    BY DEF RequestsHold
  <2> DEFINE start == window[x] * Window
  <2>1. start \in Int /\ window'[x] * Window = start
    BY <1>1 DEF LimitInv, RateLimitTypeOK, Windows
  <2>0. /\ stage[x] # "idle" => start <= now
        /\ counted[x] # Never => counted[x] \in start .. now
    BY DEF LimitInv, RequestsHold
  <2> HIDE DEF start
  <2>2. (stage[x] \in {"idle", "incr"} => counted[x] = Never)'
    BY <1>1 DEF LimitInv, RequestsHold
  <2>3. (stage[x] # "idle" => window[x] * Window <= now)'
    BY <1>1, <2>0, <2>1
  <2>4. (counted[x] # Never => counted[x] \in window[x] * Window .. now)'
    BY <1>1, <2>0, <2>1 DEF Never
  <2>5. (stage[x] \in {"ttl", "limited", "failed"} =>
           Cardinality(CountedIn(Client[x], window[x]) \ {x}) >= Limit)'
    BY <1>1, <1>3 DEF LimitInv, RequestsHold
  <2> QED BY <2>2, <2>3, <2>4, <2>5
<1>7. CountersHold'
  <2> SUFFICES ASSUME NEW c \in Clients, NEW w \in Windows
               PROVE  (/\ counter[c][w] <= Cardinality(CountedIn(c, w))
                       /\ Cardinality(PassedIn(c, w)) <= Limit
                       /\ now < EndOf(w) => Cardinality(PassedIn(c, w)) <= counter[c][w])'
    BY DEF CountersHold
  <2>1. /\ counter[c][w] <= Cardinality(CountedIn(c, w))
        /\ expiry[c][w] # Never => /\ expiry[c][w] \in now + 1 .. now + Window
                                   /\ EndOf(w) <= expiry[c][w]
        /\ Cardinality(PassedIn(c, w)) <= Limit
        /\ now < EndOf(w) => Cardinality(PassedIn(c, w)) <= counter[c][w]
    BY DEF LimitInv, CountersHold, KeysOutlive
  <2>2. EndOf(w) \in Int /\ EndOf(w)' = EndOf(w)
    BY EndIs DEF Windows, EndOf
  <2>3. CASE expiry[c][w] = now'
    BY <2>1, <2>2, <2>3, <1>1, <1>2, <1>3, <1>4 DEF Never
  <2>4. CASE expiry[c][w] # now'
    BY <2>1, <2>2, <2>4, <1>1, <1>2, <1>3, <1>4
  <2> QED BY <2>3, <2>4
<1>8. KeysOutlive'
  <2> SUFFICES ASSUME NEW c \in Clients, NEW w \in Windows, expiry'[c][w] # Never
               PROVE  /\ expiry'[c][w] \in now' + 1 .. now' + Window
                      /\ EndOf(w) <= expiry'[c][w]
    BY DEF KeysOutlive, EndOf
  <2>1. /\ expiry'[c][w] = expiry[c][w] /\ expiry[c][w] # now'
        /\ expiry[c][w] # Never
    BY <1>2
  <2>2. expiry[c][w] \in now + 1 .. now + Window /\ EndOf(w) <= expiry[c][w]
    BY <2>1 DEF LimitInv, KeysOutlive
  <2> QED BY <1>1, <2>1, <2>2
<1> QED BY <1>5, <1>6, <1>7, <1>8 DEF LimitInv

LEMMA InitLimit == RateLimitInit => LimitInv
<1> SUFFICES ASSUME RateLimitInit PROVE LimitInv
  OBVIOUS
<1>1. \A c, w : CountedIn(c, w) = {} /\ PassedIn(c, w) = {}
  BY DEF RateLimitInit, CountedIn, PassedIn, Passed
<1>2. Cardinality({}) = 0 /\ Cardinality(Requests) \in Nat
  BY FS_EmptySet, Sizes
<1>3. Window \in Nat \ {0} /\ Limit \in Nat /\ MaxTime \in Nat
  BY RateLimitAssumption
<1>4. 0 \in Windows
  <2>1. MaxTime \div Window \in Nat
    BY <1>3, Division
  <2> QED BY <2>1 DEF Windows
<1>5. RateLimitTypeOK
  BY <1>2, <1>3, <1>4 DEF RateLimitInit, RateLimitTypeOK
<1>6. RequestsHold
  BY DEF RateLimitInit, RequestsHold
<1>7. CountersHold
  BY <1>1, <1>2, <1>3 DEF RateLimitInit, CountersHold
<1>8. KeysOutlive
  BY DEF RateLimitInit, KeysOutlive
<1> QED BY <1>5, <1>6, <1>7, <1>8 DEF LimitInv

LEMMA NextLimit == LimitInv /\ [RateLimitNext]_limitVars => LimitInv'
<1> SUFFICES ASSUME LimitInv, [RateLimitNext]_limitVars PROVE LimitInv'
  OBVIOUS
<1>1. CASE Tick
  BY <1>1, TickKeeps
<1>2. ASSUME NEW r \in Requests, Arrive(r) PROVE LimitInv'
  BY <1>2, ArriveStep
<1>3. ASSUME NEW r \in Requests, LimitStep(r) PROVE LimitInv'
  BY <1>3, LimitStepKeeps
<1>4. CASE UNCHANGED limitVars
  <2>1. RateLimitTypeOK'
    BY <1>4 DEF LimitInv, limitVars, RateLimitTypeOK
  <2>2. \A c, w : CountedIn(c, w)' = CountedIn(c, w) /\ PassedIn(c, w)' = PassedIn(c, w)
    BY <1>4 DEF limitVars, CountedIn, PassedIn, Passed, OnTime, Within
  <2>3. RequestsHold' /\ KeysOutlive' /\ CountersHold'
    BY <1>4, <2>2 DEF LimitInv, limitVars, RequestsHold, KeysOutlive, CountersHold, EndOf
  <2> QED BY <2>1, <2>3 DEF LimitInv
<1> QED BY <1>1, <1>2, <1>3, <1>4 DEF RateLimitNext

(* The invariant that ties counters, expiries and verdicts together.       *)
THEOREM LimiterInvariant == RateLimitSpec => []LimitInv
BY InitLimit, NextLimit, PTL DEF RateLimitSpec

-----------------------------------------------------------------------------
(* Every variable keeps its type; in particular no counter counts more     *)
(* than the requests there are.                                            *)
THEOREM LimiterTypes == RateLimitSpec => []RateLimitTypeOK
<1>1. LimitInv => RateLimitTypeOK BY DEF LimitInv
<1> QED BY <1>1, LimiterInvariant, PTL

(* Nobody is limited before Limit others of his own were counted.          *)
THEOREM LimitedAfterLimit == RateLimitSpec => []OnlyBurstsAreLimited
<1>1. LimitInv => OnlyBurstsAreLimited
  <2> SUFFICES ASSUME LimitInv, NEW r \in Requests,
                      stage[r] \in {"ttl", "limited", "failed"}
               PROVE  Cardinality({x \in Requests \ {r} : /\ Client[x] = Client[r]
                                                          /\ window[x] = window[r]
                                                          /\ counted[x] # Never}) >= Limit
    BY DEF OnlyBurstsAreLimited
  <2>1. {x \in Requests \ {r} : /\ Client[x] = Client[r]
                                /\ window[x] = window[r]
                                /\ counted[x] # Never}
          = CountedIn(Client[r], window[r]) \ {r}
    BY DEF CountedIn
  <2> QED BY <2>1 DEF LimitInv, RequestsHold
<1> QED BY <1>1, LimiterInvariant, PTL

(* A time as long as a window touches two windows at most.                 *)
LEMMA TwoWindows ==
  ASSUME NEW t \in Nat, NEW n \in t .. t + Window - 1, NEW w \in Nat,
         w * Window <= n, n < EndOf(w)
  PROVE  w = t \div Window \/ w = t \div Window + 1
<1> DEFINE q == t \div Window
<1>1. q \in Nat /\ q * Window <= t /\ t < EndOf(q)
  BY Division
<1> HIDE DEF q
<1>2. /\ EndOf(w) = w * Window + Window /\ EndOf(q) = q * Window + Window
      /\ w * Window \in Int /\ q * Window \in Int
      /\ (w + 1) * Window = w * Window + Window
      /\ (q + 2) * Window = q * Window + Window + Window
  BY <1>1, RateLimitAssumption DEF EndOf
<1>3. Window \in Nat \ {0} BY RateLimitAssumption
<1>4. q * Window < (w + 1) * Window /\ w * Window < (q + 2) * Window
  BY <1>1, <1>2, <1>3
<1>5. q < w + 1 /\ w < q + 2
  BY <1>1, <1>4, Ordered
<1> QED BY <1>1, <1>5 DEF q

(* No client passes more often than it may, in a window or in any time as  *)
(* long as one.                                                            *)
THEOREM BurstsBounded == RateLimitSpec => []BurstBounded
<1>1. LimitInv => BurstBounded
  <2> SUFFICES ASSUME LimitInv, NEW c \in Clients, NEW t \in 0 .. MaxTime
               PROVE  LET passed(S) == {r \in S : Client[r] = c /\ Passed(r) /\ OnTime(r)} IN
                      /\ Cardinality(passed({r \in Requests : Within(r, t, t + Window - 1)}))
                           <= 2 * Limit
                      /\ Cardinality(passed({r \in Requests : window[r] = t \div Window}))
                           <= Limit
    BY DEF BurstBounded
  <2> DEFINE q == t \div Window
             near == {r \in Requests : /\ Within(r, t, t + Window - 1)
                                       /\ Client[r] = c /\ Passed(r) /\ OnTime(r)}
  <2>1. t \in Nat /\ t <= MaxTime /\ MaxTime \in Nat /\ Limit \in Nat /\ Window \in Nat \ {0}
    BY RateLimitAssumption
  <2>2. q \in Windows
    <3>1. q \in Nat /\ MaxTime \div Window \in Nat /\ q <= MaxTime \div Window
      BY <2>1, Division, DivisionGrows
    <3> QED BY <3>1 DEF Windows
  <2>3. \A w : /\ PassedIn(c, w) \in SUBSET Requests
               /\ IsFiniteSet(PassedIn(c, w)) /\ Cardinality(PassedIn(c, w)) \in Nat
    <3> TAKE w
    <3>1. PassedIn(c, w) \in SUBSET Requests BY DEF PassedIn
    <3> QED BY <3>1, Sizes
  <2>4. \A w \in Nat : Cardinality(PassedIn(c, w)) <= Limit
    <3> TAKE w \in Nat
    <3>1. CASE w \in Windows
      BY <3>1 DEF LimitInv, CountersHold
    <3>2. CASE w \notin Windows
      <4>1. PassedIn(c, w) = {}
        BY <3>2 DEF PassedIn, LimitInv, RateLimitTypeOK
      <4> QED BY <4>1, <2>1, FS_EmptySet
    <3> QED BY <3>1, <3>2
  <2>5. q \in Nat /\ Cardinality(PassedIn(c, q)) <= Limit
    BY <2>1, <2>4, Division
  <2>6. near \subseteq PassedIn(c, q) \cup PassedIn(c, q + 1)
    <3> SUFFICES ASSUME NEW r \in near
                 PROVE  r \in PassedIn(c, q) \cup PassedIn(c, q + 1)
      OBVIOUS
    <3>1. /\ r \in Requests /\ Client[r] = c /\ Passed(r) /\ OnTime(r)
          /\ counted[r] \in t .. t + Window - 1
          /\ counted[r] \in window[r] * Window .. EndOf(window[r]) - 1
      BY DEF Within, OnTime
    <3>2. window[r] \in Nat
      BY <3>1 DEF LimitInv, RateLimitTypeOK, Windows
    <3>3. EndOf(window[r]) \in Int /\ window[r] * Window \in Int
      BY <3>2, <2>1, EndIs
    <3>4. window[r] * Window <= counted[r] /\ counted[r] < EndOf(window[r])
      BY <3>1, <3>3, <2>1
    <3>5. window[r] = q \/ window[r] = q + 1
      BY <3>1, <3>2, <3>4, <2>1, TwoWindows
    <3> QED BY <3>1, <3>5 DEF PassedIn
  <2> HIDE DEF q
  <2>7. Cardinality(near) <= 2 * Limit
    <3> DEFINE A == PassedIn(c, q)
               B == PassedIn(c, q + 1)
    <3>1. /\ IsFiniteSet(A) /\ IsFiniteSet(B)
          /\ Cardinality(A) \in Nat /\ Cardinality(B) \in Nat
          /\ Cardinality(A) <= Limit /\ Cardinality(B) <= Limit
      BY <2>3, <2>4, <2>5
    <3>2. near \subseteq A \cup B
      BY <2>6
    <3> HIDE DEF A, B, near
    <3>3. /\ IsFiniteSet(A \cup B)
          /\ Cardinality(A \cup B)
               = Cardinality(A) + Cardinality(B) - Cardinality(A \cap B)
          /\ Cardinality(A \cap B) \in Nat
      BY <3>1, FS_Union, FS_Intersection, FS_CardinalityType
    <3>4. Cardinality(near) <= Cardinality(A \cup B) /\ Cardinality(near) \in Nat
      BY <3>2, <3>3, FS_Subset, FS_CardinalityType
    <3> QED BY <3>1, <3>3, <3>4, <2>1
  <2>8. {r \in {x \in Requests : window[x] = q} : Client[r] = c /\ Passed(r) /\ OnTime(r)}
          = PassedIn(c, q)
    BY DEF PassedIn
  <2>9. {r \in {x \in Requests : Within(x, t, t + Window - 1)} :
            Client[r] = c /\ Passed(r) /\ OnTime(r)} = near
    OBVIOUS
  <2> HIDE DEF near
  <2> QED BY <2>5, <2>7, <2>8, <2>9 DEF q
<1> QED BY <1>1, LimiterInvariant, PTL

(* What TTL's rounding does to a time left d: less than half a second is   *)
(* lost, and a window stays a window.                                      *)
LEMMA Rounding ==
  ASSUME NEW d \in 1 .. Window
  PROVE  LET k == RetryAfter((d + Second \div 2) \div Second) IN
         /\ k \in Nat \ {0} /\ k * Second \in Nat
         /\ k * Second <= Window
         /\ 2 * (d - k * Second) < Second
<1> DEFINE h == Second \div 2
           q == (d + h) \div Second
<1>0. Second \in Nat \ {0} /\ Window \in Nat /\ d \in Nat \ {0} /\ d <= Window
  BY RateLimitAssumption
<1>1. h \in Nat /\ 2 * h <= Second /\ Second <= 2 * h + 1
  BY <1>0
<1> HIDE DEF h
<1>2. /\ q \in Int /\ (d + h) % Second \in 0 .. Second - 1
      /\ d + h = (Second * q) + ((d + h) % Second)
  BY <1>0, <1>1
<1> HIDE DEF q
<1>3. q * Second \in Int /\ q * Second <= d + h /\ d + h <= q * Second + Second - 1
  BY <1>0, <1>1, <1>2
<1>4. PICK n \in 1 .. Window : Window = n * Second
  BY RateLimitAssumption
<1>5. Second <= Window
  BY <1>0, <1>4
<1>6. q <= n
  <2> SUFFICES ASSUME q >= n + 1 PROVE FALSE
    BY <1>0, <1>2, <1>4
  <2>1. (n + 1) * Second <= q * Second
    BY <1>0, <1>2, <1>4
  <2>2. (n + 1) * Second = Window + Second
    BY <1>0, <1>4
  <2> QED BY <2>1, <2>2, <1>0, <1>1, <1>3
<1>7. q * Second <= Window
  BY <1>0, <1>2, <1>4, <1>6
<1>8. 2 * (d - q * Second) < Second
  BY <1>0, <1>1, <1>3
<1>9. CASE q > 1
  BY <1>0, <1>2, <1>3, <1>7, <1>8, <1>9 DEF RetryAfter, q, h
<1>10. CASE q <= 1
  <2>1. RetryAfter(q) = 1
    BY <1>2, <1>10 DEF RetryAfter
  <2>2. q * Second <= Second
    BY <1>0, <1>2, <1>10
  <2>3. 2 * (d - Second) < Second
    BY <1>0, <1>3, <1>8, <2>2
  <2> QED BY <1>0, <1>5, <2>1, <2>3 DEF q, h
<1> QED BY <1>2, <1>9, <1>10

(* Retry-After is at least a second and at most a window.  Where the key   *)
(* expires, who waits as long comes back less than half a second before    *)
(* the end of the window, or later; where it does not, he is told a second.*)
THEOREM RetryAfterRight == RateLimitSpec => RetryAfterTells
<1>1. LimitInv /\ [RateLimitNext]_limitVars
        => [\A r \in Requests :
              stage[r] = "ttl" /\ stage'[r] = "limited" =>
                LET back == now + retry'[r] * Second IN
                /\ retry'[r] >= 1
                /\ back <= now + Window
                /\ IF Expiry(r) = Never THEN retry'[r] = 1
                   ELSE 2 * (EndOf(window[r]) - back) < Second]_limitVars
  <2> SUFFICES ASSUME LimitInv, RateLimitNext, NEW r \in Requests,
                      stage[r] = "ttl", stage'[r] = "limited"
               PROVE  LET back == now + retry'[r] * Second IN
                      /\ retry'[r] >= 1
                      /\ back <= now + Window
                      /\ IF Expiry(r) = Never THEN retry'[r] = 1
                         ELSE 2 * (EndOf(window[r]) - back) < Second
    OBVIOUS
  <2>1. Ttl(r)
    BY DEF RateLimitNext, Tick, Arrive, LimitStep, Incr, Expire, Ttl, FailOpen, TtlFails,
       At, Judged, LimitInv, RateLimitTypeOK
  <2>2. /\ Client[r] \in Clients /\ window[r] \in Windows /\ window[r] \in Int
        /\ now \in Nat /\ Window \in Nat /\ Second \in Nat \ {0}
    BY RateLimitAssumption DEF LimitInv, RateLimitTypeOK, Clients, Windows
  <2>3. retry'[r] = RetryAfter(TtlOf(r))
    BY <2>1 DEF Ttl, LimitInv, RateLimitTypeOK
  <2>4. EndOf(window[r]) \in Int
    BY <2>2, EndIs
  <2>5. CASE Expiry(r) = Never
    <3>1. retry'[r] = 1
      BY <2>3, <2>5 DEF TtlOf, RetryAfter
    <3>2. Second <= Window
      BY <2>2, RateLimitAssumption
    <3> QED BY <2>2, <2>5, <3>1, <3>2
  <2>6. CASE Expiry(r) # Never
    <3> DEFINE d == Expiry(r) - now
    <3>1. Expiry(r) \in now + 1 .. now + Window /\ EndOf(window[r]) <= Expiry(r)
      BY <2>2, <2>6 DEF LimitInv, KeysOutlive, Expiry
    <3>2. d \in 1 .. Window /\ EndOf(window[r]) - now <= d
      BY <2>2, <2>4, <3>1
    <3>3. retry'[r] = RetryAfter((d + Second \div 2) \div Second)
      BY <2>3, <2>6 DEF TtlOf
    <3> HIDE DEF d
    <3>4. /\ retry'[r] \in Nat \ {0} /\ retry'[r] * Second \in Nat
          /\ retry'[r] * Second <= Window
          /\ 2 * (d - retry'[r] * Second) < Second
      BY <3>2, <3>3, Rounding
    <3>5. d \in Int
      BY <3>2, <2>2
    <3> DEFINE wait == retry'[r] * Second
    <3>6. 2 * (EndOf(window[r]) - (now + wait)) < Second /\ now + wait <= now + Window
      <4>1. wait \in Int /\ wait <= Window /\ 2 * (d - wait) < Second
        BY <3>4
      <4> HIDE DEF wait
      <4> QED BY <4>1, <3>2, <3>5, <2>2, <2>4
    <3> QED BY <2>6, <3>4, <3>6
  <2> QED BY <2>5, <2>6
<1> QED BY <1>1, LimiterInvariant, PTL DEF RateLimitSpec, RetryAfterTells
=============================================================================
